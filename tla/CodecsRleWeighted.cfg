SPECIFICATION StorageSpec
CONSTANTS
  Unused = Unused
  Files <- OneFile
  INT_T_MAX = 1000
  Page = 4
  PtrSize = 1
  VertexSize = 6
  EdgeSize = 2
  PairSize = 2
  SumSize = 1
  ScanBSize = 2
  B = 4
  NB = 2
  INT_MAX = 32767
  PARALLEL_DEGREE = 2
  Sources <- MCSources
  Inputs <- WeightedRunInputs
  Jobs <- None
INVARIANT DecodedIsInput
CHECK_DEADLOCK FALSE
