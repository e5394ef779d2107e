SPECIFICATION Spec
CONSTANTS
  n <- MCn
  m <- PathM
  offset <- PathOffset
  E <- PathE
  inOffset <- PathOffset
  inE <- PathE
  Beyond = 0
  NULL = NULL
  UINT_E_MAX = UINT_E_MAX
  UNINIT = UNINIT
  Nvm = FALSE
  Div = 1
  Grain = 1
  BSize = 10000
  NoID = NoID
INVARIANTS
  IDsAreMinimal
  LoweredVertexIsOutput
PROPERTIES
  Terminates
CHECK_DEADLOCK FALSE
