SPECIFICATION DashSafety
CONSTANTS
  p = p
  q = q
  None = None
  Project <- TwoProjects
  Issue <- ThreeIssues
  ProjectOf <- InBoth
  Existing <- IssueOne
  Mine <- ProjectP
  Hash <- SomeHash
  PageSize = 1
  MaxEvents = 1
  MaxClicks = 2
  MaxTroubles = 1
CHECK_DEADLOCK FALSE
INVARIANTS
  DashTypeOK
  ListsOfProject
  DetailOfSelection
  ListMatchesFilter
  DetailIsLoading
