CONSTANTS
  Driver = "projects"
  NoState = NoState
  MaxOps = 2
  MaxChain = 1
SPECIFICATION LiveSpec
INVARIANTS
  NothingForgotten
  ReferencesDurable
PROPERTIES
  TablesSpec
  EventuallyDurable
  FlushReturns
