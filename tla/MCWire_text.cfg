SPECIFICATION FairSpec
CONSTANTS
  Topics <- AllTopics
  Bodies <- AllBodies
  Self <- Me
  Others <- You
  Listened <- AllTopics
  BufSize = 4
  Numeral <- Numbers
  MaxSent = 2
  MaxMail = 1
INVARIANTS
  HandledAsSent
  ShownAsMailed
PROPERTY
  PlainMailIsShown
CHECK_DEADLOCK FALSE
