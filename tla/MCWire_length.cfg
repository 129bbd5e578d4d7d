SPECIFICATION FairSpec
CONSTANTS
  Topics <- LengthTopics
  Bodies <- PlainBodies
  Self <- Me
  Others <- You
  Listened <- LengthTopics
  BufSize = 4
  Numeral <- Numbers
  MaxSent = 1
  MaxMail = 1
PROPERTY
  MailIsShown
CHECK_DEADLOCK FALSE
