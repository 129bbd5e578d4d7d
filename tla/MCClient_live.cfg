SPECIFICATION FairSpec
CONSTANTS
  t1 = t1
  t2 = t2
  b1 = b1
  None = None
  Junk = Junk
  Callers = {"generator"}
  Topics <- OneTopic
  Bodies <- OneBody
  Oddities = {}
  Faults = {}
  BlockLength = 2
  OutGrowth = {2}
  InGrowth = {1}
  MaxOut = 2
  MaxMail = 1
PROPERTIES
  DisconnectEnds
  DeliversAsPubSub
