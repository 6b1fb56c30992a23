SPECIFICATION Spec
CONSTANTS
  A = A
  B = B
  C = C
  S = S
  Real <- MCReal
  Fallback = F
  None = None
  Ids <- MCIds
  Special = S
  Rule <- MCRule
  Default <- MCDefault
  Persistent <- MCPersistent
  UserIds <- MCUserIds
  MaxHeld = 2
  MaxOutputs = 4
  MaxRequests = 2
INVARIANTS
  TypeOK
  VisibleIsShown
  FallbackAlone
  NoneStranded
PROPERTIES
  ReturnsHome
CHECK_DEADLOCK FALSE
SYMMETRY Mirror
