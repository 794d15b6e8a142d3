CONSTANTS
  Sites <- MCSites
  Entered <- MCEntered
  History <- MCHistory
  NewEvents <- MCNewEvents
  NewProposals <- MCNewProposals
  Today = 40
  Unsteady = {1}
  Reported = {"r1", "r2"}
  DefaultConfig <- MCDefault
  Templates <- MCTemplates
  DefaultTarget = 60
  DefaultMultipliers <- MCMultipliers
  Typed <- MCTyped
  Edited = {"churn", "leadFee"}
  MaxDeeds = 2
  MaxChanges = 1
SPECIFICATION ConsoleSpec
INVARIANT
  ReportIsConsistent
PROPERTIES
  ConsoleAgrees
  ReloadRepairsTheQuery
  QueueCatchesUp
CHECK_DEADLOCK FALSE
