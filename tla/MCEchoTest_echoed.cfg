SPECIFICATION EchoSpec
CONSTANTS
  echo = echo
  None = None
  Junk = Junk
  Callers = {"main", "generator"}
  Topics <- EchoTopics
  EchoTopic = echo
  EchoMessages = 1
  Bodies = {1}
  Oddities = {}
  Faults = {}
  BlockLength = 3
  OutGrowth = {}
  InGrowth = {1}
  MaxOut = 3
  MaxMail = 0
INVARIANT
  EveryMessageEchoed
