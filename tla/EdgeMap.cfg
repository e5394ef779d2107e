SPECIFICATION UserSpec
CONSTANTS
  n <- MCn
  m <- MCm
  offset <- MCOffset
  E <- MCE
  inOffset <- MCInOffset
  inE <- MCInE
  Beyond = 0
  NULL = NULL
  UINT_E_MAX = UINT_E_MAX
  UNINIT = UNINIT
  Nvm = FALSE
  Div = 20
  Grain = 1
  BSize = 2
  Calls <- AllCalls
  Frontiers <- MCFrontiers
INVARIANTS
  ResultCountsHits
  PlainUpdateIsExclusive
  RepresentationsAgree
  NoUninitializedOutput
PROPERTIES
  ImplementsEdgeMapSpec
  CallReturns
CHECK_DEADLOCK FALSE
