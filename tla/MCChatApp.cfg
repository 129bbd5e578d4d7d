SPECIFICATION ChatFairSpec
CONSTANTS
  chat = chat
  joined = joined
  None = None
  Junk = Junk
  Callers = {"main", "generator"}
  Topics <- ChatTopics
  Bodies <- Lines
  ChatTopic = chat
  Joined = joined
  Oddities = {}
  Faults = {}
  BlockLength = 3
  OutGrowth = {}
  InGrowth = {}
  MaxOut = 3
  MaxMail = 0
INVARIANT
  PromptUndisturbed
PROPERTIES
  LinesReachServer
  ImplementsTurns
