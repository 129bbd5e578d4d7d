SPECIFICATION CarefulSpec
CONSTANTS
  t1 = t1
  b1 = b1
  None = None
  Junk = Junk
  Callers = {"main", "generator"}
  Topics <- OneTopic
  Bodies <- OneBody
  Oddities = {"OTHER"}
  Faults = {}
  BlockLength = 2
  OutGrowth = {}
  InGrowth = {}
  MaxOut = 3
  MaxMail = 1
INVARIANTS
  OnlyLateUse
  HandledInOrder
