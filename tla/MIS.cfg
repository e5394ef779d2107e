SPECIFICATION Spec
CONSTANTS
  n <- MCn
  m <- PawM
  offset <- PawOffset
  E <- PawE
  inOffset <- PawOffset
  inE <- PawE
  Beyond = 0
  NULL = NULL
  UINT_E_MAX = UINT_E_MAX
  UNINIT = UNINIT
  Nvm = TRUE
  Div = 1
  Grain = 1
  BSize = 10000
INVARIANTS
  TypeOK
  Independent
  GreedyResult
PROPERTIES
  RoundDecides
  Terminates
CHECK_DEADLOCK FALSE
