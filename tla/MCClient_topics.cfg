SPECIFICATION Spec
CONSTANTS
  t1 = t1
  t2 = t2
  b1 = b1
  None = None
  Junk = Junk
  Callers = {"generator"}
  Topics <- OneTopic
  Bodies <- OneBody
  Oddities = {}
  Faults = {}
  BlockLength = 3
  OutGrowth = {}
  InGrowth = {1}
  MaxOut = 2
  MaxMail = 1
INVARIANT
  TopicsSynchronized
