CONSTANTS
  demo = demo
  mo = mo
  ann = ann
  ben = ben
  Projects = {demo}
  Members = {mo, ann, ben}
  Owner <- MCOwner
  HideAt = 2
  MinUpvotes = 2
  MinReviewers = 1
  MaxReviews = 2
  MaxUpvotes = 2
  MaxAudit = 3
  MaxNotices = 2
SYMMETRY Symmetry
SPECIFICATION Spec
INVARIANTS
  AuditTellsStatus
  CountsDifferentReporters
  RepliesShownUnderRoots
  LadderNeedsOthers
