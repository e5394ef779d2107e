SPECIFICATION UserSpec
CONSTANTS
  n <- MCn
  m <- MCm
  offset <- MCOffset
  E <- MCE
  inOffset <- MCInOffset
  inE <- MCInE
  Beyond = 0
  NULL = NULL
  UINT_E_MAX = UINT_E_MAX
  UNINIT = UNINIT
  Nvm = TRUE
  Div = 20
  Grain = 1000
  BSize = 2
  Calls <- ForwardCalls
  Frontiers <- MCFrontiers
INVARIANTS
  ForwardFollowsOutEdges
CHECK_DEADLOCK FALSE
