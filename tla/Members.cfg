CONSTANTS
  alice = alice
  bob = bob
  mira = mira
  nina = nina
  Emails = {alice, bob, mira, nina}
  SeedUsers <- MCSeedUsers
  MaxSessions = 2
  MaxAudit = 2
  MaxProjects = 1
SPECIFICATION Spec
INVARIANTS
  SomeAdminActive
  AuditExplainsStatus
PROPERTY
  WithdrawalIsFinal
