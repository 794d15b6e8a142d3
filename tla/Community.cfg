CONSTANTS
  demo = demo
  ada = ada
  mo = mo
  ivy = ivy
  spam = spam
  Projects = {demo}
  Members = {ada, mo, ivy}
  Owner <- MCOwner
  Role <- MCRole
  SeedThreads <- MCSeedThreads
  Words = {spam}
  Nobody = Nobody
  PerTarget = 1
  MaxRecords = 3
  MaxImages = 1
SPECIFICATION Spec
INVARIANTS
  NoOrphans
  CountsWhatIsShown
  ReadMeansSeen
PROPERTY
  NothingForbiddenPublished
CHECK_DEADLOCK FALSE
