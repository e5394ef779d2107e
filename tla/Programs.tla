------------------------------ MODULE Programs ------------------------------
(***************************************************************************)
(* The programs over the abstract edgeMap (EdgeCall) and the abstract      *)
(* buckets (BucketSpec), and two concurrent tables, side by side, with the *)
(* properties they have in common.  They do not interact: prog says which  *)
(* one a behaviour runs.  Variables with one name are one place; what a    *)
(* program does not have is Unused.                                        *)
(***************************************************************************)
EXTENDS Integers, FiniteSets

CONSTANTS
  Unused,
  start,                               \* of the searches
  Inf, UintMax, UintRange, Scale, NaN,
  BFVerts, BFGraphs,                   \* the inputs of each program
  DSVerts, DSGraphs, delta, TopBit,
  HSVerts, HSHyperedges, HSGraphs,
  CSVerts, CSGraphs,
  HCVerts, HCHyperedges, HCGraphs,
  BPVerts, BPHyperedges, BPGraphs,
  CoreVerts, KCGraphs, BKGraphs,
  HKVerts, HKHyperedges, HKGraphs,
  BTVerts, BTGraphs,
  HBVerts, HBHyperedges, HBGraphs,
  HMVerts, HMHyperedges, HMGraphs, MaxRound,
  SCVerts, SCGraphs, COVERED, Bucket, Threshold, Low,
  TableSize, Inserts, Hash,
  Arrays

VARIABLES
  prog,
  GA, stage, Frontier, todo, regs, out,   \* EdgeCall's, stage for phase
  turn, Touched,                           \* round and Visited
  ShortestPathLen,
  NumPaths, Levels, Dependencies,
  IDs, prevIDs,
  Parents, dense,
  coreK, Degrees, coreNumbers, largestCore, Claimed,  \* k, and HyperKCore's Flags
  FrontierH,
  Deg, filed, taken, finished,            \* the D and the live of the buckets
  key, dists, oldDist,
  Elms, cover, active, input,
  TA, at, slot,
  keys, flags

programsVars ==
  <<prog, GA, stage, Frontier, todo, regs, out, turn, Touched, ShortestPathLen, NumPaths, Levels,
    Dependencies, IDs, prevIDs, Parents, dense, coreK, Degrees, coreNumbers, largestCore, Claimed,
    FrontierH, Deg, filed, taken, finished, key, dists, oldDist, Elms, cover, active, input,
    TA, at, slot, keys, flags>>

-----------------------------------------------------------------------------
BF == INSTANCE BellmanFord WITH
        V <- BFVerts, Graphs <- BFGraphs, phase <- stage, round <- turn, Visited <- Touched
DS == INSTANCE DeltaStepping WITH
        V <- DSVerts, Graphs <- DSGraphs, src <- start, UINT_E_MAX <- UintMax, phase <- stage, live <- filed
HS == INSTANCE HyperSSSP WITH
        V <- HSVerts, H <- HSHyperedges, Graphs <- HSGraphs, phase <- stage, round <- turn, Visited <- Touched
CS == INSTANCE ComponentsShortcut WITH V <- CSVerts, Graphs <- CSGraphs, phase <- stage
HC == INSTANCE HyperCC WITH
        V <- HCVerts, H <- HCHyperedges, Graphs <- HCGraphs, UINT_E_MAX <- UintMax, phase <- stage
BP == INSTANCE HyperBPath WITH
        V <- BPVerts, H <- BPHyperedges, Graphs <- BPGraphs, UINT_E_MAX <- UintMax, phase <- stage
KC == INSTANCE KCore WITH V <- CoreVerts, Graphs <- KCGraphs, phase <- stage, k <- coreK
HK == INSTANCE HyperKCore WITH
        V <- HKVerts, H <- HKHyperedges, Graphs <- HKGraphs, phase <- stage, k <- coreK, Flags <- Claimed
BK == INSTANCE BucketKCore WITH
        V <- CoreVerts, Graphs <- BKGraphs, UINT_E_MAX <- UintMax, phase <- stage, D <- Deg, live <- filed
BT == INSTANCE BC WITH
        V <- BTVerts, Graphs <- BTGraphs, phase <- stage, round <- turn, Visited <- Touched
HB == INSTANCE HyperBC WITH
        V <- HBVerts, H <- HBHyperedges, Graphs <- HBGraphs, phase <- stage, round <- turn, Visited <- Touched
HM == INSTANCE HyperMIS WITH
        V <- HMVerts, H <- HMHyperedges, Graphs <- HMGraphs, phase <- stage, round <- turn
SC == INSTANCE SetCover WITH
        V <- SCVerts, Graphs <- SCGraphs, UINT_E_MAX <- UintMax, phase <- stage, D <- Deg, live <- filed
SS == INSTANCE SparseSet WITH m <- TableSize, Items <- Inserts, UINT_E_MAX <- UintMax, h <- slot
RD == INSTANCE RemDuplicates WITH UINT_E_MAX <- UintMax

ASSUME ProgramsAssumption ==
  /\ BF!InputsOK /\ DS!InputsOK /\ HS!InputsOK /\ CS!InputsOK /\ HC!InputsOK /\ BP!InputsOK
  /\ KC!InputsOK /\ HK!InputsOK /\ BK!InputsOK /\ BT!InputsOK /\ HB!InputsOK
  /\ HM!InputsOK /\ SC!InputsOK /\ SS!InputsOK /\ RD!InputsOK

-----------------------------------------------------------------------------
\* Who uses which place; Rule says what becomes of one that is not used.
Tables      == {"SparseSet", "RemDuplicates"}
Betweenness == {"BC", "HyperBC"}
BellmanFords == {"BellmanFord", "HyperSSSP"}
KCores      == {"KCore", "HyperKCore"}
Labels      == {"ComponentsShortcut", "HyperCC"}
Bucketed    == {"BucketKCore", "DeltaStepping", "SetCover"}
OverEdgeMap     == Betweenness \cup BellmanFords \cup KCores \cup Labels
               \cup {"DeltaStepping", "HyperBPath", "HyperMIS", "SetCover"}
Places(Rule(_, _)) ==
  /\ Rule(OverEdgeMap \cup {"BucketKCore"}, GA) /\ Rule(OverEdgeMap \cup {"BucketKCore"}, stage)
  /\ Rule(OverEdgeMap, Frontier) /\ Rule(OverEdgeMap, todo) /\ Rule(OverEdgeMap, regs) /\ Rule(OverEdgeMap, out)
  /\ Rule(BellmanFords \cup Betweenness \cup {"HyperMIS"}, turn)
  /\ Rule(BellmanFords \cup Betweenness, Touched)
  /\ Rule(BellmanFords, ShortestPathLen)
  /\ Rule(Betweenness, NumPaths) /\ Rule(Betweenness, Levels) /\ Rule(Betweenness, Dependencies)
  /\ Rule(Labels, IDs) /\ Rule(Labels, prevIDs)
  /\ Rule({"HyperBPath"}, Parents) /\ Rule({"HyperBPath"}, dense)
  /\ Rule(KCores, coreK) /\ Rule(KCores, largestCore) /\ Rule(KCores \cup {"HyperMIS"}, Degrees)
  /\ Rule({"KCore"}, coreNumbers) /\ Rule({"HyperKCore"}, Claimed)
  /\ Rule({"HyperCC", "HyperMIS"}, FrontierH)
  /\ Rule(Bucketed, filed) /\ Rule(Bucketed, taken)
  /\ Rule({"BucketKCore", "SetCover"}, Deg) /\ Rule({"BucketKCore"}, finished)
  /\ Rule({"DeltaStepping", "SetCover"}, key)
  /\ Rule({"DeltaStepping"}, dists) /\ Rule({"DeltaStepping"}, oldDist)
  /\ Rule({"SetCover"}, Elms) /\ Rule({"SetCover"}, cover) /\ Rule({"SetCover"}, active)
  /\ Rule({"SetCover", "RemDuplicates"}, input)
  /\ Rule({"SparseSet"}, TA) /\ Rule({"SparseSet"}, slot) /\ Rule(Tables, at)
  /\ Rule({"RemDuplicates"}, keys) /\ Rule({"RemDuplicates", "HyperMIS"}, flags)

StartsUnused(users, x) == IF prog \in users THEN TRUE ELSE x = Unused
StaysUnused(users, x)  == IF prog \in users THEN TRUE ELSE UNCHANGED x
UnusedAtStart   == Places(StartsUnused)
UnusedUnchanged == Places(StaysUnused)

ProgramsInit ==
  /\ \/ prog = "BellmanFord"        /\ BF!Init
     \/ prog = "DeltaStepping"      /\ DS!Init
     \/ prog = "HyperSSSP"          /\ HS!Init
     \/ prog = "ComponentsShortcut" /\ CS!Init
     \/ prog = "HyperCC"            /\ HC!Init
     \/ prog = "HyperBPath"         /\ BP!Init
     \/ prog = "KCore"              /\ KC!Init
     \/ prog = "HyperKCore"         /\ HK!Init
     \/ prog = "BucketKCore"        /\ BK!Init
     \/ prog = "BC"                 /\ BT!Init
     \/ prog = "HyperBC"            /\ HB!Init
     \/ prog = "HyperMIS"           /\ HM!Init
     \/ prog = "SetCover"           /\ SC!Init
     \/ prog = "SparseSet"          /\ SS!Init
     \/ prog = "RemDuplicates"      /\ RD!Init
  /\ UnusedAtStart

ProgramsNext ==
  /\ UNCHANGED prog
  /\ \/ prog = "BellmanFord"        /\ BF!Next
     \/ prog = "DeltaStepping"      /\ DS!Next
     \/ prog = "HyperSSSP"          /\ HS!Next
     \/ prog = "ComponentsShortcut" /\ CS!Next
     \/ prog = "HyperCC"            /\ HC!Next
     \/ prog = "HyperBPath"         /\ BP!Next
     \/ prog = "KCore"              /\ KC!Next
     \/ prog = "HyperKCore"         /\ HK!Next
     \/ prog = "BucketKCore"        /\ BK!Next
     \/ prog = "BC"                 /\ BT!Next
     \/ prog = "HyperBC"            /\ HB!Next
     \/ prog = "HyperMIS"           /\ HM!Next
     \/ prog = "SetCover"           /\ SC!Next
     \/ prog = "SparseSet"          /\ SS!Next
     \/ prog = "RemDuplicates"      /\ RD!Next
  /\ UnusedUnchanged

ProgramsSpec == ProgramsInit /\ [][ProgramsNext]_programsVars

-----------------------------------------------------------------------------
\* Each program's own properties, stated in its module.

\* What BellmanFord and DeltaStepping end with are the shortest distances (or what
\* BellmanFord says of a negative cycle), what Components-Shortcut and HyperCC end with the
\* smallest IDs, what HyperBPath ends with the hyperpaths: whoever won each CAS.
ResultsAreExact ==
  /\ prog = "BellmanFord"   => BF!DistancesAreShortest
  /\ prog = "DeltaStepping" => DS!DistancesAreShortest
  /\ prog = "ComponentsShortcut" => CS!LabelsAreMinimal
  /\ prog = "HyperCC"       => HC!LabelsAreMinimal
  /\ prog = "HyperBPath"    => BP!HyperpathsAreFound

\* HyperSSSP gives up after nv - 1 rounds, a negative cycle or not (the finding about
\* HyperSSSP.C); when its frontier is empty before that, the distances are the shortest.
DistancesUnlessGivenUp == prog = "HyperSSSP" => HS!DistancesUnlessGivenUp

\* Between two calls everything that can still improve a neighbour is in the frontier or
\* in a bucket, and the marks of the last call are gone.
NothingIsLost ==
  /\ prog = "BellmanFord"   => BF!NothingIsLost
  /\ prog = "DeltaStepping" => DS!NothingIsLost
  /\ prog = "HyperSSSP"     => HS!NothingIsLost
  /\ prog = "ComponentsShortcut" => CS!NothingIsLost
  /\ prog = "HyperCC"       => HC!NothingIsLost

\* The three k-core programs: exact degrees between the rounds although cond read them
\* while they were lowered, and the core numbers at the end.
CoresAreRight ==
  /\ prog = "KCore"       => KC!DegreesAreInduced /\ KC!CoresAreRight
  /\ prog = "HyperKCore"  => HK!DegreesAreInduced /\ HK!CoresAreRight
  /\ prog = "BucketKCore" => BK!DegreesAreInduced /\ BK!CoresAreRight

\* BC and HyperBC: complete path counts, levels and dependencies under failing CASes.
DependenciesAreExact ==
  /\ prog = "BC"      => BT!DependenciesAreExact
  /\ prog = "HyperBC" => HB!DependenciesAreExact

\* HyperMIS puts no hyperedge wholly inside; SetCover covers, and pays for it.
SetsAreRight ==
  /\ prog = "HyperMIS" => HM!SetIsIndependent
  /\ prog = "SetCover" => SC!CoverCovers /\ SC!CoverPays

\* The tables of sparseSet.h and remDuplicates under concurrent workers.
TablesAreRight ==
  /\ prog = "SparseSet"     => SS!TableHoldsSums
  /\ prog = "RemDuplicates" => RD!OneOfEachSurvives
=============================================================================
