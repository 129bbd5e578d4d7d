SPECIFICATION FairSpec
PROPERTY
  MainComesRound
