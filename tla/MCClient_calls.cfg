SPECIFICATION Spec
CONSTANTS
  t1 = t1
  t2 = t2
  b1 = b1
  None = None
  Junk = Junk
  Callers = {"generator"}
  Topics <- TwoTopics
  Bodies <- OneBody
  Oddities = {"OTHER", "NOLENGTH"}
  Faults = {"refuse", "close"}
  BlockLength = 2
  OutGrowth = {2}
  InGrowth = {1}
  MaxOut = 2
  MaxMail = 1
SYMMETRY Symmetry
INVARIANTS
  TypeOK
  QueueKeepsAll
  HandledInOrder
  SubscriptionsAgree
  InboxInOrder
  CallbacksInOrder
  MutualExclusion
  SemaphoresReturn
  AtMostOneAfterDisconnect
  SuccessMeansDisconnected
PROPERTY
  ImplementsPubSub
