---------------------------- MODULE AllPrograms ----------------------------
(***************************************************************************)
(* The programs of Programs, and the two searches over the detailed        *)
(* edgeMap, nvmBFS on bfsParents and nvmRadii, which share its call and    *)
(* its graph.  They do not interact: prog says which program a behaviour   *)
(* runs.                                                                   *)
(***************************************************************************)
EXTENDS Programs, Radii

CONSTANT root         \* the -r option of nvmBFS
VARIABLE bfsParents

B == INSTANCE BFS WITH start <- root, Parents <- bfsParents

ASSUME SearchesAssumption == B!StartInGraph /\ SamplesInGraph

allVars == <<programsVars, vars, bfsParents>>

NoEdgeMap == /\ fl = Unused /\ threshold = Unused /\ vs = Unused /\ phase = Unused /\ mode = Unused
             /\ begun = Unused /\ st = Unused /\ outEdges = Unused /\ cts = Unused
             /\ next = Unused /\ res = Unused
\* synced: no invariant of Radii is about another program's rounds
NoRadii == /\ round = Unused /\ synced = TRUE /\ radii = Unused
           /\ Visited = Unused /\ NextVisited = Unused /\ oldRadii = Unused
NoBFS == bfsParents = Unused

AllInit ==
  \/ ProgramsInit /\ NoEdgeMap /\ NoRadii /\ NoBFS
  \/ prog = "BFS"   /\ B!Init /\ NoRadii /\ UnusedAtStart
  \/ prog = "Radii" /\ Init /\ NoBFS /\ UnusedAtStart

AllNext ==
  \/ ProgramsNext /\ UNCHANGED <<vars, bfsParents>>
  \/ prog = "BFS"   /\ B!Next /\ UNCHANGED <<programsVars, radiiVars>>
  \/ prog = "Radii" /\ Next /\ UNCHANGED <<programsVars, bfsParents>>

AllSpec == AllInit /\ [][AllNext]_allVars /\ WF_allVars(AllNext)

-----------------------------------------------------------------------------
\* A parent is one edge away and one level closer (nvmBFS.C, cond and the CAS).
ParentsAreShortest == prog = "BFS" => B!ParentsAreShortest
\* Between two rounds the frontier of nvmBFS is exactly one level of the graph.
FrontierIsLevel == prog = "BFS" => B!FrontierIsLevel

\* Every program ends, if the workers keep running; for HyperMIS this rests on its
\* random samples.
EveryProgramEnds ==
  <>(CASE prog = "BFS" -> B!Done
       [] prog = "Radii" -> Done
       [] prog = "BellmanFord" -> BF!Done
       [] prog = "DeltaStepping" -> DS!Done
       [] prog = "HyperSSSP" -> HS!Done
       [] prog = "ComponentsShortcut" -> CS!Done
       [] prog = "HyperCC" -> HC!Done
       [] prog = "HyperBPath" -> BP!Done
       [] prog = "KCore" -> KC!Done
       [] prog = "HyperKCore" -> HK!Done
       [] prog = "BucketKCore" -> BK!Done
       [] prog = "BC" -> BT!Done
       [] prog = "HyperBC" -> HB!Done
       [] prog = "SetCover" -> SC!Done
       [] prog = "SparseSet" -> SS!Done
       [] prog = "RemDuplicates" -> RD!Done
       [] OTHER -> TRUE)
=============================================================================
