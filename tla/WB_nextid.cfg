CONSTANTS
  Driver = "projects"
  NoState = NoState
  MaxOps = 2
  MaxChain = 1
SPECIFICATION Spec
INVARIANT NextIdAhead
