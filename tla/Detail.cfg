CONSTANTS
  Users = {"ann", "eve"}
  Nobody = "nobody"
  Unread <- MCUnread
  FirstVisits <- MCVisits
  MaxBusy = 1
  FirstNotices <- MCNotices
  MaxDeeds = 4
  MaxEvents = 1
  Owner <- MCOwner
  Makers = {"ann"}
  Admins = {"eve"}
  Screened = {2}
  Missing = {9}
  FirstReviews <- MCReviews
  FirstReports <- MCReports
  ActKinds = {"reload", "outbound", "leave", "recheck", "feature", "upvote"}
  RailLimit = 2
  MaxTyped = 1
SPECIFICATION Spec
INVARIANTS
  PageShowsItsOwn
  DraftsSavedOnce
  NoticesAreMine
CHECK_DEADLOCK FALSE
