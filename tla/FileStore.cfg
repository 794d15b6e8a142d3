CONSTANTS
  Fixtures <- MCFixtures
  Files <- MCFiles
  Emails = {"ann", "cat"}
  MaxChanges = 2
  MaxScripts = 2
SPECIFICATION FileSpec
INVARIANTS
  IdsAreFresh
  ReferencesHold
  SeededRowsAgree
  AckedIsDurable
  SeedAgainIsTheSame
CHECK_DEADLOCK FALSE
