SPECIFICATION Spec
CHECK_DEADLOCK FALSE
SYMMETRY MCSymmetry
CONSTANTS
  Page = {tab1, tab2}
  Key = {key1}
  MaxTenants = 2
  MaxSessions = 2
  MaxTokens = 2
  MaxBuild = 2
  MaxStops = 1
INVARIANTS
  AdmissionIsExact
  PagesAgree
PROPERTIES
  GrantIsCurrent
