SPECIFICATION EditorSpec
CONSTANTS
  p1 = p1
  p2 = p2
  None = None
  Project <- TwoProjects
  Issue <- ThreeIssues
  ProjectOf <- InProject
  TraceOf <- Traces
  Preset <- Presets
  Template <- Templates
  Root <- Roots
  Name <- Names
  MaxSaves = 2
INVARIANTS
  LinkUnderOwnRoot
  SubstitutedOnce
