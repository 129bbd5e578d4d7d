SPECIFICATION FairSpec
CONSTANTS
  o1 = o1
  o2 = o2
  o3 = o3
  None = None
  Openers <- Three
  Tries = 3
  Limit = 5
INVARIANTS
  TypeOK
  ConnectedOrNone
  FirstThatAccepts
  OneDescriptorPerTry
PROPERTY
  Returns
