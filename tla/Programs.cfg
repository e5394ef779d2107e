SPECIFICATION AllSpec
CONSTANTS
  Unused = Unused
  NaN = NaN
  NULL = NULL
  UINT_E_MAX = UINT_E_MAX
  UNINIT = UNINIT
  NoRead = NoRead
  n = 6
  m = 9
  offset <- MCOffset
  E <- MCE
  inOffset <- MCInOffset
  inE <- MCInE
  Beyond = 0
  Nvm = TRUE
  Div = 2
  Grain = 1
  BSize = 10000
  sampleSize = 3
  starts <- MCStarts
  start <- MCStart
  root = 0
  Inf = 1000
  UintMax = 127
  UintRange = 16
  Scale = 12
  delta = 2
  TopBit = 64
  MaxRound = 3
  COVERED = 98
  TableSize = 4
  BFVerts <- MCBFVerts
  BFGraphs <- MCBFGraphs
  DSVerts <- MCDSVerts
  DSGraphs <- MCDSGraphs
  HSVerts <- MCHSVerts
  HSHyperedges <- MCHSHyperedges
  HSGraphs <- MCHSGraphs
  CSVerts <- MCCSVerts
  CSGraphs <- MCCSGraphs
  HCVerts <- MCHCVerts
  HCHyperedges <- MCHCHyperedges
  HCGraphs <- MCHCGraphs
  BPVerts <- MCBPVerts
  BPHyperedges <- MCBPHyperedges
  BPGraphs <- MCBPGraphs
  CoreVerts <- MCCoreVerts
  KCGraphs <- MCKCGraphs
  BKGraphs <- MCBKGraphs
  HKVerts <- MCHKVerts
  HKHyperedges <- MCHKHyperedges
  HKGraphs <- MCHKGraphs
  BTVerts <- MCBTVerts
  BTGraphs <- MCBTGraphs
  HBVerts <- MCHBVerts
  HBHyperedges <- MCHBHyperedges
  HBGraphs <- MCHBGraphs
  HMVerts <- MCHMVerts
  HMHyperedges <- MCHMHyperedges
  HMGraphs <- MCHMGraphs
  SCVerts <- MCSCVerts
  SCGraphs <- MCSCGraphs
  Bucket <- MCBucket
  Threshold <- MCThreshold
  Low <- MCLow
  Inserts <- MCInserts
  Hash <- MCHash
  Arrays <- MCArrays
INVARIANTS
  ParentsAreShortest
  FrontierIsLevel
  SearchesInStep
  RadiiAreEccentricities
  ResultsAreExact
  DistancesUnlessGivenUp
  NothingIsLost
  CoresAreRight
  DependenciesAreExact
  SetsAreRight
  TablesAreRight
PROPERTIES
  EveryProgramEnds
CHECK_DEADLOCK FALSE
