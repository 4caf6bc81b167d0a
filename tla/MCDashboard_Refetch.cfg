SPECIFICATION DashSafety
CONSTANTS
  p = p
  q = q
  None = None
  Project <- TwoProjects
  Issue <- TwoIssues
  ProjectOf <- InP
  Existing <- IssueOne
  Mine <- ProjectP
  Hash <- NoHash
  PageSize = 1
  MaxEvents = 1
  MaxClicks = 0
  MaxTroubles = 0
CHECK_DEADLOCK FALSE
INVARIANTS
  NotifiedIsShown
