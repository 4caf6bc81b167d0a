SPECIFICATION DashSafety
CONSTANTS
  p = p
  q = q
  None = None
  Project <- TwoProjects
  Issue <- TwoIssues
  ProjectOf <- InP
  Existing <- IssuesOfP
  Mine <- TwoProjects
  Hash <- NoHash
  PageSize = 1
  MaxEvents = 0
  MaxClicks = 2
  MaxTroubles = 0
CHECK_DEADLOCK FALSE
INVARIANTS
  IssuesAreLoading
