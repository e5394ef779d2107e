----------------------------- MODULE Components -----------------------------
(***************************************************************************)
(* apps/Components.C: connected components by propagating the smallest ID. *)
(* CC_F reads IDs of the source without atomics while other workers lower  *)
(* it, and updateAtomic decides whether d joins the frontier from a value  *)
(* read before its writeMin, so each access to IDs is a step of its own.   *)
(* The proofs of its two safety properties follow the model.               *)
(***************************************************************************)
EXTENDS EdgeMap_proofs

\* The program is for symmetric graphs (README_old.md, the -s option).
Symmetric == \A e \in Edges : <<e[2], e[1]>> \in Edges
ASSUME SymmetricAssumption == Symmetric

CONSTANT NoID  \* the update has not read IDs[s] yet

VARIABLES
  synced,   \* the vertexMap of this round has run
  IDs, prevIDs,
  local     \* the locals of the update calls under way, by work item

ccVars == <<synced, IDs, prevIDs, local>>
vars == <<emVars, ccVars>>

Init == /\ InitCall(OfBits([v \in V |-> TRUE]), {}, -1)
        /\ synced = FALSE
        /\ IDs = [v \in V |-> v]
        /\ prevIDs \in [V -> {0}]  \* newA leaves it uninitialized; nobody reads it
        /\ local = <<>>

Done == phase = "call" /\ ~synced /\ vs.m = 0

\* Mutant: the vertexMap is left out.
SyncNothing ==
  /\ phase = "call" /\ ~synced /\ vs.m > 0
  /\ synced' = TRUE
  /\ UNCHANGED <<emVars, IDs, prevIDs, local>>

\* vertexMap(Frontier, CC_Vertex_F)
SyncPrev ==
  /\ phase = "call" /\ ~synced /\ vs.m > 0
  /\ synced' = TRUE
  /\ prevIDs' = [v \in V |-> IF v \in Members(vs) THEN IDs[v] ELSE prevIDs[v]]
  /\ UNCHANGED <<emVars, IDs, local>>

-----------------------------------------------------------------------------
Enter       == synced /\ EnterCall /\ UNCHANGED ccVars
Loop(v)     == DenseVertex(v, TRUE) /\ UNCHANGED ccVars
ReadIn(it)  == InNgh(it) /\ UNCHANGED ccVars
Break(it)   == BreakEarly(it, TRUE) /\ UNCHANGED ccVars
ReadOut(it) == OutNgh(it, TRUE) /\ UNCHANGED ccVars
Leave       == LeaveCall /\ UNCHANGED ccVars

\* update in the sequential loop of a dense traversal, updateAtomic in a sparse one
Atomic == mode # "dense"

Began(it) == it \in DOMAIN local
SetLocal(it, rec) == local' = [x \in DOMAIN local \cup {it} |-> IF x = it THEN rec ELSE local[x]]
Finish(it, r) == /\ local' = [x \in DOMAIN local \ {it} |-> local[x]]
                 /\ Updated(it, r)

\* uintE origID = IDs[d];
ReadOrig(it) ==
  /\ phase = "map" /\ st[it] = "upd" /\ ~Began(it)
  /\ SetLocal(it, [orig |-> IDs[Dst(it)], id |-> NoID])
  /\ UNCHANGED <<emVars, synced, IDs, prevIDs>>

\* IDs[s], as the argument of writeMin or in the comparison of update
ReadSource(it) ==
  /\ phase = "map" /\ st[it] = "upd" /\ Began(it) /\ local[it].id = NoID
  /\ IF Atomic \/ IDs[Src(it)] < local[it].orig
     THEN SetLocal(it, [local[it] EXCEPT !.id = IDs[Src(it)]]) /\ UNCHANGED emVars
     ELSE Finish(it, FALSE)
  /\ UNCHANGED <<synced, IDs, prevIDs>>

\* Mutant: the written ID, not the one before it, is compared with prevIDs.
WriteComparesNew(it) ==
  LET d == Dst(it)
      lower == local[it].id < IDs[d]
  IN  /\ phase = "map" /\ st[it] = "upd" /\ Began(it) /\ local[it].id # NoID
      /\ IDs' = IF lower THEN [IDs EXCEPT ![d] = local[it].id] ELSE IDs
      /\ Finish(it, lower /\ local[it].id = prevIDs[d])
      /\ UNCHANGED <<synced, prevIDs>>

\* writeMin is its successful CAS, or its read of a value that is not larger.  The
\* plain update writes min(origID, IDs[s]), where IDs[s] may be read a second time.
WriteID(it) ==
  LET d == Dst(it)
      wasPrev == local[it].orig = prevIDs[d]
  IN  /\ phase = "map" /\ st[it] = "upd" /\ Began(it) /\ local[it].id # NoID
      /\ IF Atomic
         THEN LET lower == local[it].id < IDs[d] IN
              /\ IDs' = IF lower THEN [IDs EXCEPT ![d] = local[it].id] ELSE IDs
              /\ Finish(it, lower /\ wasPrev)
         ELSE \E id \in {local[it].id, IDs[Src(it)]} :
              /\ IDs' = [IDs EXCEPT ![d] = IF id < local[it].orig THEN id ELSE local[it].orig]
              /\ Finish(it, wasPrev)
      /\ UNCHANGED <<synced, prevIDs>>

\* Mutant: the old frontier is kept.
NextRoundSameFrontier == /\ phase = "ret"
                         /\ NextCall(vs)
                         /\ synced' = FALSE
                         /\ UNCHANGED <<IDs, prevIDs, local>>

NextRound == /\ phase = "ret"
             /\ NextCall(res)
             /\ synced' = FALSE
             /\ UNCHANGED <<IDs, prevIDs, local>>

Next == \/ SyncPrev \/ Enter \/ Leave \/ NextRound
        \/ phase = "map" /\
             \/ \E v \in V : Loop(v)
             \/ \E it \in Items : \/ ReadIn(it) \/ Break(it) \/ ReadOut(it)
                                 \/ ReadOrig(it) \/ ReadSource(it) \/ WriteID(it)

Spec == Init /\ [][Next]_vars /\ WF_vars(Next)

-----------------------------------------------------------------------------
\* The component of v is in every set that holds v and that no edge leaves.
Closed(S) == \A e \in Edges : e[1] \in S => e[2] \in S
Component == [v \in V |-> {u \in V : \A S \in SUBSET V : v \in S /\ Closed(S) => u \in S}]

\* When Compute ends an ID is the smallest vertex of the component: a stale read of
\* IDs[s] only postpones the smaller value to the next round.
IDsAreMinimal == Done => \A v \in V : IDs[v] \in Component[v] /\ \A u \in Component[v] : IDs[v] <= u

\* No lost wake-up: a vertex whose ID was lowered in a call is in the subset the call
\* returns, although updateAtomic compares a value it read before the writeMin.
LoweredVertexIsOutput ==
  phase = "ret" => \A v \in V : IDs[v] # prevIDs[v] => v \in Members(res)

\* Compute ends, if the workers keep running.
Terminates == <>Done

-----------------------------------------------------------------------------
(* The two properties hold on every symmetric graph.  Between two rounds   *)
(* an edge that might still lower an ID starts in the frontier (Quiet);    *)
(* in a call an item that is done has brought its target down to what its  *)
(* source had when the call began (Told), and a target that is lower than  *)
(* it was then has an entry in the output (Woken).  Both rest on what an   *)
(* update knows from the values it has read (Knows): IDs only fall, so a   *)
(* stale one lies between the ID now and the one when the call began.      *)

Knows(it) ==
  /\ local[it] \in [orig : V, id : V \cup {NoID}]
  /\ IDs[Dst(it)] <= local[it].orig /\ local[it].orig <= prevIDs[Dst(it)]
  /\ ~Atomic => local[it].orig = IDs[Dst(it)]
  /\ local[it].id # NoID => /\ local[it].id <= prevIDs[Src(it)]
                            /\ local[it].id \in Component[Dst(it)]

Locals == /\ phase # "map" => DOMAIN local = {}
          /\ \A it \in DOMAIN local : it \in Items /\ st[it] = "upd" /\ Knows(it)

\* IDs are names of vertices in the component, and fall.
Named == /\ IDs \in [V -> V] /\ prevIDs \in [V -> V]
         /\ \A v \in V : IDs[v] \in Component[v] /\ IDs[v] <= v
         /\ synced => \A v \in V : IDs[v] <= prevIDs[v]

Called == /\ synced \in BOOLEAN
          /\ phase # "call" => synced
          /\ phase = "call" => \A v \in V : synced \/ v \notin Members(vs) => IDs[v] = prevIDs[v]

Quiet == phase = "call" => \A e \in Edges : e[1] \notin Members(vs) => IDs[e[2]] <= IDs[e[1]]

Woken == phase = "map" => \A v \in V : IDs[v] # prevIDs[v] => Found(v) # {}

Told ==
  /\ phase = "map" =>
       /\ \A e \in Edges : e[1] \notin Members(vs) => IDs[e[2]] <= prevIDs[e[1]]
       /\ \A it \in Items : st[it] \in {"chk", "done"} /\ Src(it) \in Members(vs)
                              => IDs[Dst(it)] <= prevIDs[Src(it)]
  /\ phase = "ret" => \A e \in Edges : IDs[e[2]] <= prevIDs[e[1]]

\* Without flags a call is dense or plain sparse, and has an output.
Plain == fl = {} /\ (phase = "map" => mode \in {"sparse", "dense"})

CCInv == /\ CallInv /\ WellShaped(res) /\ Plain
         /\ Locals /\ Named /\ Called /\ Quiet /\ Woken /\ Told
         /\ LoweredVertexIsOutput

-----------------------------------------------------------------------------
LEMMA NamesAreNumbers == \A v \in V : v \in Int /\ v <= v
<1>1. \A v \in V : v \in Int
  BY VertexSet
<1> QED BY <1>1

LEMMA ComponentFacts ==
  /\ \A v \in V : v \in Component[v] /\ Component[v] \subseteq V
  /\ \A e \in Edges : /\ e[1] \in V /\ e[2] \in V
                      /\ Component[e[1]] \subseteq Component[e[2]]
<1>1. \A v \in V : Component[v] = {u \in V : \A S \in SUBSET V : v \in S /\ Closed(S) => u \in S}
  BY DEF Component
<1>2. ASSUME NEW e \in Edges PROVE e[1] \in V /\ e[2] \in V
  BY DEF Edges
<1>3. ASSUME NEW e \in Edges, NEW u \in Component[e[1]], NEW S \in SUBSET V, e[2] \in S, Closed(S)
      PROVE  u \in S
  <2>1. <<e[2], e[1]>> \in Edges
    BY SymmetricAssumption DEF Symmetric
  <2>2. e[1] \in S
    BY <1>3, <2>1 DEF Closed
  <2> QED BY <1>1, <1>2, <1>3, <2>2
<1> QED BY <1>1, <1>2, <1>3

\* When no edge leads to a larger ID, a component has one ID.
LEMMA OneIDEach ==
  ASSUME IDs \in [V -> V], \A e \in Edges : IDs[e[2]] <= IDs[e[1]],
         NEW v \in V, NEW u \in Component[v]
  PROVE  u \in V /\ IDs[u] = IDs[v]
<1> DEFINE S == {x \in V : IDs[x] = IDs[v]}
<1>1. Closed(S)
  <2> SUFFICES ASSUME NEW e \in Edges, e[1] \in S PROVE e[2] \in S
    BY DEF Closed
  <2>1. e[1] \in V /\ e[2] \in V /\ <<e[2], e[1]>> \in Edges
    BY ComponentFacts, SymmetricAssumption DEF Symmetric
  <2>2. IDs[e[2]] <= IDs[e[1]] /\ IDs[e[1]] <= IDs[e[2]]
    BY <2>1
  <2>3. IDs[e[1]] \in Int /\ IDs[e[2]] \in Int
    BY <2>1, VertexSet
  <2> QED BY <2>1, <2>2, <2>3
<1>2. v \in S /\ S \in SUBSET V
  OBVIOUS
<1> HIDE DEF S
<1>3. u \in V /\ u \in S
  BY <1>1, <1>2 DEF Component
<1> QED BY <1>3 DEF S

\* What the work items of the traversals without flags stand for.
LEMMA ItemFacts ==
  ASSUME CallInv, Plain, phase = "map"
  PROVE  /\ Faithful /\ ShouldOutput
         /\ \A it \in Items : /\ Src(it) \in V /\ Dst(it) \in V
                              /\ <<Src(it), Dst(it)>> \in Edges
                              /\ Component[Src(it)] \subseteq Component[Dst(it)]
<1>1. Faithful /\ ShouldOutput
  BY DEF Plain, Faithful, ShouldOutput
<1>2. \A it \in Items : Dst(it) \in V /\ <<Src(it), Dst(it)>> \in Edges
  BY <1>1, ItemVertices, ItemsAreEdges DEF CallInv
<1>3. ASSUME NEW it \in Items
      PROVE  /\ Src(it) \in V /\ Dst(it) \in V
             /\ Component[Src(it)] \subseteq Component[Dst(it)]
  <2> DEFINE e == <<Src(it), Dst(it)>>
  <2>1. e \in Edges /\ e[1] = Src(it) /\ e[2] = Dst(it)
    BY <1>2
  <2> HIDE DEF e
  <2> QED BY <2>1, ComponentFacts
<1> QED BY <1>1, <1>2, <1>3
-----------------------------------------------------------------------------
LEMMA InitCCInv == Init => CCInv
<1> SUFFICES ASSUME Init PROVE CCInv
  OBVIOUS
<1> DEFINE all == [v \in V |-> TRUE]
<1>1. /\ vs = OfBits(all) /\ phase = "call" /\ fl = {} /\ res = EmptySubset /\ synced = FALSE
      /\ IDs = [v \in V |-> v] /\ prevIDs \in [V -> {0}] /\ local = <<>>
  BY DEF Init, InitCall
<1>2. Members(OfBits(all)) = V
  BY DEF Members, OfBits, Trues
<1>3. WellShaped(OfBits(all)) /\ WellShaped(EmptySubset)
  BY OfBitsIsWellShaped, EmptyIsWellShaped
<1>4. CallInv
  BY <1>1, <1>3 DEF CallInv, Mapping, Working, Output
<1>5. Named
  BY <1>1, VertexSet, ComponentFacts DEF Named
<1>6. Locals
  BY <1>1 DEF Locals
<1>7. Quiet
  BY <1>1, <1>2, ComponentFacts DEF Quiet
<1>8. Plain /\ Called /\ Woken /\ Told /\ LoweredVertexIsOutput
  BY <1>1, <1>2 DEF Plain, Called, Woken, Told, LoweredVertexIsOutput
<1> QED BY <1>1, <1>3, <1>4, <1>5, <1>6, <1>7, <1>8 DEF CCInv

LEMMA SyncKeepsCCInv ==
  ASSUME CCInv, SyncPrev
  PROVE  CCInv'
<1>1. /\ phase = "call" /\ ~synced /\ synced' /\ synced' \in BOOLEAN
      /\ prevIDs' = [v \in V |-> IF v \in Members(vs) THEN IDs[v] ELSE prevIDs[v]]
      /\ IDs' = IDs /\ local' = local
      /\ UNCHANGED <<fl, vs, phase, mode, begun, st, outEdges, cts, next, res>>
  BY DEF SyncPrev, emVars
<1>2. \A v \in V : v \notin Members(vs) => IDs[v] = prevIDs[v]
  BY <1>1 DEF CCInv, Called
<1>3. \A v \in V : IDs[v] = prevIDs'[v]
  BY <1>1, <1>2
<1>4. Named'
  <2>1. prevIDs' \in [V -> V]
    BY <1>1 DEF CCInv, Named
  <2>2. \A v \in V : IDs[v] \in Int
    BY VertexSet DEF CCInv, Named
  <2> QED BY <1>1, <1>3, <2>1, <2>2 DEF CCInv, Named
<1>5. Locals'
  BY <1>1 DEF CCInv, Locals
<1>6. CallInv' /\ Members(vs)' = Members(vs)
  BY <1>1 DEF CCInv, CallInv, Mapping, Working, Output, WellShaped, Agrees, Members
<1>7. WellShaped(res)' /\ Plain' /\ Called' /\ Woken' /\ Told' /\ LoweredVertexIsOutput'
  BY <1>1, <1>3 DEF CCInv, WellShaped, Agrees, Plain, Called, Woken, Told, LoweredVertexIsOutput
<1>8. Quiet'
  BY <1>1, <1>6 DEF CCInv, Quiet
<1> QED BY <1>4, <1>5, <1>6, <1>7, <1>8 DEF CCInv

LEMMA EnterKeepsCCInv ==
  ASSUME CCInv, Enter
  PROVE  CCInv'
<1>1. /\ CallInv /\ EnterCall /\ phase = "call" /\ fl = {} /\ fl' = fl /\ synced /\ phase' # "call"
      /\ UNCHANGED <<synced, IDs, prevIDs, local>>
  BY DEF CCInv, Plain, Enter, ccVars, EnterCall, CallEmpty, CallDense, CallSparse, CallDies, Starts,
         Returning
<1>2. /\ CallInv' /\ Members(vs)' = Members(vs)
      /\ phase' = "map" => \A v \in V : Found(v)' = {}
      /\ res' = res \/ res' = EmptySubset
  <2>1. ShouldOutput
    BY <1>1 DEF ShouldOutput
  <2>2. res' = res \/ res' = EmptySubset
    BY DEF Enter, EnterCall, CallEmpty, CallDense, CallSparse, CallDies, Returning
  <2> QED BY <1>1, <2>1, <2>2, EnterStep
<1>3. \A v \in V : IDs[v] = prevIDs[v]
  BY <1>1 DEF CCInv, Called
<1>4. \A e \in Edges : e[1] \in V /\ e[2] \in V
  BY ComponentFacts
<1>5. WellShaped(res)'
  <2>1. WellShaped(res')
    BY <1>2, EmptyIsWellShaped DEF CCInv
  <2> QED BY <2>1 DEF WellShaped, Agrees
<1>6. Plain'
  <2>1. phase' = "map" => mode' = ChosenMode
    BY <1>1 DEF EnterCall, CallEmpty, CallDense, CallSparse, CallDies, Returning
  <2>2. ChosenMode \in {"sparse", "dense"}
    BY <1>1 DEF ChosenMode
  <2> QED BY <1>1, <2>1, <2>2 DEF Plain
<1>7. Locals' /\ Named' /\ Called' /\ Quiet'
  BY <1>1 DEF CCInv, Locals, Named, Called, Quiet
<1>8. \A e \in Edges : e[1] \notin Members(vs) => IDs[e[2]] <= prevIDs[e[1]]
  BY <1>1, <1>3, <1>4 DEF CCInv, Quiet
<1>9. Told'
  <2>1. phase' = "map" => \A it \in Items' : st'[it] = "todo"
    BY <1>1 DEF EnterCall, CallEmpty, CallDense, CallSparse, CallDies, Items, Returning
  <2>2. phase' = "ret" => \A e \in Edges : e[1] \notin Members(vs)
    <3> SUFFICES ASSUME phase' = "ret" PROVE CallEmpty
      BY <1>1, EmptyCall DEF CallInv
    <3> QED BY <1>1 DEF EnterCall, CallDense, CallSparse, CallDies
  <2> QED BY <1>1, <1>2, <1>8, <2>1, <2>2 DEF Told
<1>10. Woken' /\ LoweredVertexIsOutput'
  BY <1>1, <1>3 DEF Woken, LoweredVertexIsOutput
<1> QED BY <1>2, <1>5, <1>6, <1>7, <1>9, <1>10 DEF CCInv

LEMMA LeaveKeepsCCInv ==
  ASSUME NullIsNoArray, CCInv, Leave
  PROVE  CCInv'
<1>1. /\ CallInv /\ LeaveCall /\ fl = {} /\ UNCHANGED <<synced, IDs, prevIDs, local>>
  BY DEF CCInv, Plain, Leave, ccVars
<1>2. /\ CallInv' /\ phase = "map" /\ phase' = "ret"
      /\ \A it \in Items : st[it] = "done"
      /\ fl' = fl /\ vs' = vs /\ mode' = mode
      /\ Members(res') = {v \in V : Found(v) # {}}
      /\ WellShaped(res')
  <2>1. ShouldOutput
    BY <1>1 DEF ShouldOutput
  <2> QED BY <1>1, <2>1, LeaveStep
<1>3. Faithful
  BY <1>2, ItemFacts DEF CCInv
<1>4. \A e \in Edges : IDs[e[2]] <= prevIDs[e[1]]
  <2> SUFFICES ASSUME NEW e \in Edges, e[1] \in Members(vs) PROVE IDs[e[2]] <= prevIDs[e[1]]
    BY <1>2 DEF CCInv, Told
  <2>1. PICK it \in Items : Src(it) = e[1] /\ Dst(it) = e[2]
    BY <1>1, <1>2, <1>3, EdgesHaveItems DEF CallInv
  <2> QED BY <1>2, <2>1 DEF CCInv, Told
<1>5. Locals'
  BY <1>1, <1>2 DEF CCInv, Locals
<1>6. Named' /\ Called' /\ Quiet' /\ Woken'
  BY <1>1, <1>2 DEF CCInv, Named, Called, Quiet, Woken
<1>7. LoweredVertexIsOutput'
  BY <1>1, <1>2 DEF CCInv, Woken, LoweredVertexIsOutput, Members
<1>8. WellShaped(res)' /\ Plain' /\ Told'
  BY <1>1, <1>2, <1>4 DEF WellShaped, Agrees, Plain, Told
<1> QED BY <1>2, <1>5, <1>6, <1>7, <1>8 DEF CCInv

LEMMA NextRoundKeepsCCInv ==
  ASSUME CCInv, NextRound
  PROVE  CCInv'
<1>1. /\ phase = "ret" /\ phase' = "call" /\ vs' = res /\ res' = EmptySubset /\ fl' = fl
      /\ synced /\ ~synced' /\ synced' \in BOOLEAN /\ UNCHANGED <<IDs, prevIDs, local>>
  BY DEF CCInv, Called, NextRound, NextCall
<1>2. \A v \in V : v \notin Members(res) => IDs[v] = prevIDs[v]
  BY <1>1 DEF CCInv, LoweredVertexIsOutput
<1>3. Members(vs)' = Members(res)
  BY <1>1 DEF Members
<1>4. WellShaped(vs)' /\ WellShaped(res)'
  <2>1. WellShaped(vs') /\ WellShaped(res')
    BY <1>1, EmptyIsWellShaped DEF CCInv
  <2> QED BY <2>1 DEF WellShaped, Agrees
<1>5. CallInv' /\ Plain' /\ Woken' /\ Told' /\ LoweredVertexIsOutput'
  BY <1>1, <1>4 DEF CCInv, CallInv, Mapping, Working, Output, Plain, Woken, Told, LoweredVertexIsOutput
<1>6. Locals' /\ Named' /\ Called'
  BY <1>1, <1>2, <1>3 DEF CCInv, Locals, Named, Called
<1>7. Quiet'
  <2> SUFFICES ASSUME NEW e \in Edges, e[1] \notin Members(res) PROVE IDs[e[2]] <= IDs[e[1]]
    BY <1>1, <1>3 DEF Quiet
  <2> QED BY <1>1, <1>2, ComponentFacts DEF CCInv, Told
<1> QED BY <1>4, <1>5, <1>6, <1>7 DEF CCInv

-----------------------------------------------------------------------------
(* The traversal *)

\* What a step in a call has to establish.
LEMMA TraversalKeepsCCInv ==
  ASSUME CCInv, Mapped, CallInv', UNCHANGED <<synced, prevIDs, res>>,
         IDs' \in [V -> V],
         \A v \in V : IDs'[v] <= IDs[v] /\ IDs'[v] \in Component[v],
         \A it \in DOMAIN local' : it \in Items /\ st'[it] = "upd" /\ Knows(it)',
         \A v \in V : IDs'[v] # prevIDs[v] => Found(v)' # {},
         \A it \in Items : st'[it] \in {"chk", "done"} /\ Src(it) \in Members(vs)
                              => IDs'[Dst(it)] <= prevIDs[Src(it)]
  PROVE  CCInv'
<1>1. /\ Items' = Items /\ Members(vs)' = Members(vs) /\ phase = "map" /\ phase' = "map"
      /\ \A it : Src(it)' = Src(it) /\ Dst(it)' = Dst(it)
      /\ fl' = fl /\ mode' = mode
  BY MappedFrame DEF Mapped
<1>2. synced /\ synced \in BOOLEAN /\ prevIDs \in [V -> V] /\ IDs \in [V -> V]
  BY <1>1 DEF CCInv, Called, Named
<1>3. \A v \in V : IDs[v] \in Int /\ IDs'[v] \in Int /\ prevIDs[v] \in Int /\ v \in Int
  BY <1>2, VertexSet
<1>4. Named'
  BY <1>2, <1>3 DEF CCInv, Named
<1>5. Locals'
  BY <1>1 DEF Locals
<1>6. Told'
  <2>1. \A e \in Edges : e[1] \notin Members(vs) => IDs'[e[2]] <= prevIDs[e[1]]
    <3> SUFFICES ASSUME NEW e \in Edges, e[1] \notin Members(vs) PROVE IDs'[e[2]] <= prevIDs[e[1]]
      OBVIOUS
    <3>1. IDs[e[2]] <= prevIDs[e[1]] /\ e[1] \in V /\ e[2] \in V
      BY <1>1, ComponentFacts DEF CCInv, Told
    <3> QED BY <1>3, <3>1
  <2> QED BY <1>1, <2>1 DEF Told
<1>7. Woken'
  BY DEF Woken
<1>8. Plain' /\ Called' /\ Quiet' /\ LoweredVertexIsOutput'
  BY <1>1, <1>2 DEF CCInv, Plain, Called, Quiet, LoweredVertexIsOutput
<1>9. WellShaped(res)'
  BY DEF CCInv, WellShaped, Agrees
<1> QED BY <1>4, <1>5, <1>6, <1>7, <1>8, <1>9 DEF CCInv

\* A step that leaves the IDs and the updates under way alone.
LEMMA ScanKeepsCCInv ==
  ASSUME CCInv, Mapped, CallInv', UNCHANGED <<synced, IDs, prevIDs, local, res>>,
         \A v \in V : Found(v)' = Found(v),
         \A x \in Items : \/ st'[x] = st[x]
                          \/ st[x] \in {"todo", "chk"} /\ st'[x] = "upd"
                          \/ st[x] # "upd" /\ Src(x) \notin Members(vs)
                          \/ st[x] = "chk" /\ st'[x] = "done"
  PROVE  CCInv'
<1>1. /\ Items' = Items /\ phase = "map" /\ mode' = mode
      /\ \A it : Src(it)' = Src(it) /\ Dst(it)' = Dst(it)
  BY MappedFrame DEF Mapped
<1>2. \A v \in V : IDs[v] <= IDs[v] /\ IDs[v] \in Component[v]
  BY VertexSet DEF CCInv, Named
<1>3. \A it : Knows(it)' = Knows(it)
  BY <1>1 DEF Knows, Atomic
<1>4. \A it \in DOMAIN local : it \in Items /\ st'[it] = "upd" /\ Knows(it)
  BY DEF CCInv, Locals
<1>5. \A v \in V : IDs[v] # prevIDs[v] => Found(v)' # {}
  BY <1>1 DEF CCInv, Woken
<1>6. \A it \in Items : st'[it] \in {"chk", "done"} /\ Src(it) \in Members(vs)
                              => IDs[Dst(it)] <= prevIDs[Src(it)]
  BY <1>1 DEF CCInv, Told
<1>7. IDs \in [V -> V]
  BY DEF CCInv, Named
<1> QED BY <1>2, <1>3, <1>4, <1>5, <1>6, <1>7, TraversalKeepsCCInv

LEMMA LoopsKeepCCInv ==
  ASSUME CCInv, phase = "map",
         \/ \E v \in V : Loop(v)
         \/ \E it \in Items : ReadIn(it) \/ Break(it) \/ ReadOut(it)
  PROVE  CCInv'
<1>1. /\ CallInv /\ Mapping /\ st \in [Items -> {"todo", "upd", "chk", "done"}]
      /\ Faithful /\ ShouldOutput /\ \A it \in Items : Src(it) \in V
  BY ItemFacts DEF CCInv, CallInv, Working
<1>2. ASSUME NEW v \in V, Loop(v) PROVE CCInv'
  <2>1. /\ DenseVertex(v, TRUE) /\ UNCHANGED <<synced, IDs, prevIDs, local, res>>
        /\ st' = [it \in Items |-> st[it]]
    BY <1>1, <1>2 DEF Loop, ccVars, DenseVertex
  <2>2. Mapped /\ CallInv' /\ \A w \in V : Found(w)' = Found(w)
    BY <1>1, <2>1, DenseVertexStep
  <2> QED BY <2>1, <2>2, ScanKeepsCCInv
<1>3. ASSUME NEW it \in Items, ReadIn(it) PROVE CCInv'
  <2>1. /\ InNgh(it) /\ UNCHANGED <<synced, IDs, prevIDs, local, res>> /\ st[it] = "todo"
        /\ mode = "dense"
        /\ \/ st' = [st EXCEPT ![it] = "upd"]
           \/ ~IsIn(vs, Src(it)) /\ \E a \in {"chk", "done"} : st' = [st EXCEPT ![it] = a]
    BY <1>3 DEF ReadIn, ccVars, InNgh, Ready
  <2>2. Mapped /\ CallInv' /\ \A w \in V : Found(w)' = Found(w)
    BY <1>1, <2>1, InNghStep
  <2>3. ~IsIn(vs, Src(it)) => Src(it) \notin Members(vs)
    BY <1>1, <2>1 DEF Mapping, IsSparse, Trues, IsIn
  <2>4. \A x \in Items : \/ st'[x] = st[x]
                         \/ st[x] \in {"todo", "chk"} /\ st'[x] = "upd"
                         \/ st[x] # "upd" /\ Src(x) \notin Members(vs)
    BY <1>1, <2>1, <2>3
  <2> QED BY <2>1, <2>2, <2>4, ScanKeepsCCInv
<1>4. ASSUME NEW it \in Items, Break(it) PROVE CCInv'
  <2>1. /\ BreakEarly(it, TRUE) /\ UNCHANGED <<synced, IDs, prevIDs, local, res>> /\ st[it] = "chk"
        /\ st' = [x \in Items |-> IF x = it THEN "done" ELSE st[x]]
    BY <1>4 DEF Break, ccVars, BreakEarly
  <2>2. Mapped /\ CallInv' /\ \A w \in V : Found(w)' = Found(w)
    BY <1>1, <2>1, BreakEarlyStep
  <2> QED BY <2>1, <2>2, ScanKeepsCCInv
<1>5. ASSUME NEW it \in Items, ReadOut(it) PROVE CCInv'
  <2>1. /\ OutNgh(it, TRUE) /\ UNCHANGED <<synced, IDs, prevIDs, local, res>> /\ st[it] = "todo"
        /\ st' = [st EXCEPT ![it] = "upd"]
    BY <1>5 DEF ReadOut, ccVars, OutNgh, Ready
  <2>2. Mapped /\ CallInv' /\ \A w \in V : Found(w)' = Found(w)
    BY <1>1, <2>1, OutNghStep
  <2> QED BY <1>1, <2>1, <2>2, ScanKeepsCCInv
<1> QED BY <1>2, <1>3, <1>4, <1>5

-----------------------------------------------------------------------------
(* The update *)

\* Without flags the inner loop of the dense traversal is sequential: an update under
\* way is the only one of its destination.
LEMMA PlainIsAlone ==
  ASSUME CCInv, phase = "map", ~Atomic, NEW x \in Items, NEW y \in Items, x # y,
         st[x] = "upd", st[y] = "upd"
  PROVE  Dst(x) # Dst(y)
<1> SUFFICES ASSUME Dst(x) = Dst(y) PROVE FALSE
  OBVIOUS
<1>1. mode = "dense" /\ fl = {} /\ Working
  BY DEF CCInv, CallInv, Plain, Atomic
<1>2. x[1] = y[1]
  BY <1>1 DEF Dst
<1>3. /\ x[2] \in 0 .. m - 1 /\ y[2] \in 0 .. m - 1
      /\ x = <<x[1], x[2]>> /\ y = <<y[1], y[2]>>
  BY DEF Items, ItemsOf
<1>4. x[2] < y[2] \/ y[2] < x[2]
  BY <1>2, <1>3, VertexSet
<1>5. ~RunsParallel(x[1]) /\ ~RunsParallel(y[1])
  BY <1>1 DEF RunsParallel
<1>6. x \in Before(y) \/ y \in Before(x)
  BY <1>1, <1>2, <1>4, <1>5 DEF Before
<1> QED BY <1>1, <1>6 DEF Working

\* What the update of an item may rely on.
LEMMA UpdateFacts ==
  ASSUME CCInv, phase = "map", NEW it \in Items
  PROVE  /\ Src(it) \in V /\ Dst(it) \in V
         /\ IDs[Src(it)] \in V /\ IDs[Dst(it)] \in V /\ prevIDs[Src(it)] \in V /\ prevIDs[Dst(it)] \in V
         /\ IDs[Src(it)] <= prevIDs[Src(it)] /\ IDs[Dst(it)] <= prevIDs[Dst(it)]
         /\ IDs[Src(it)] \in Component[Dst(it)] /\ IDs[Dst(it)] \in Component[Dst(it)]
         /\ Began(it) => Knows(it)
<1>1. /\ Src(it) \in V /\ Dst(it) \in V
      /\ Component[Src(it)] \subseteq Component[Dst(it)]
  BY ItemFacts DEF CCInv
<1>2. synced
  BY DEF CCInv, Called
<1>3. Began(it) => Knows(it)
  BY DEF CCInv, Locals, Began
<1> QED BY <1>1, <1>2, <1>3 DEF CCInv, Named

\* A step that reads an ID into the locals of one update.
LEMMA ReadKeepsCCInv ==
  ASSUME CCInv, phase = "map", NEW it \in Items, st[it] = "upd",
         NEW rec, SetLocal(it, rec), UNCHANGED <<emVars, synced, IDs, prevIDs>>,
         Knows(it)'
  PROVE  CCInv'
<1>1. /\ Mapped /\ st' = st
      /\ UNCHANGED <<fl, vs, phase, mode, begun, st, outEdges, cts, next, res>>
  BY DEF emVars, Mapped
<1>2. CallInv /\ Working /\ st \in [Items -> {"todo", "upd", "chk", "done"}]
  BY DEF CCInv, CallInv, Working
<1>3. CallInv' /\ \A v : Found(v)' = Found(v)
  BY <1>1, <1>2, QuietStep DEF Working
<1>4. \A x : Src(x)' = Src(x) /\ Dst(x)' = Dst(x)
  BY <1>1, MappedFrame
<1>5. ASSUME NEW x \in DOMAIN local' PROVE x \in Items /\ st'[x] = "upd" /\ Knows(x)'
  <2>1. CASE x = it
    BY <1>1, <2>1
  <2>2. CASE x # it
    <3>1. x \in DOMAIN local /\ local'[x] = local[x]
      BY <1>5, <2>2 DEF SetLocal
    <3>2. x \in Items /\ st[x] = "upd" /\ Knows(x)
      BY <3>1 DEF CCInv, Locals
    <3> QED BY <1>1, <1>4, <3>1, <3>2 DEF Knows, Atomic
  <2> QED BY <2>1, <2>2
<1>6. IDs \in [V -> V] /\ \A v \in V : IDs[v] <= IDs[v] /\ IDs[v] \in Component[v]
  BY NamesAreNumbers DEF CCInv, Named
<1>7. \A v \in V : IDs[v] # prevIDs[v] => Found(v)' # {}
  BY <1>3 DEF CCInv, Woken
<1>8. \A x \in Items : st'[x] \in {"chk", "done"} /\ Src(x) \in Members(vs)
                              => IDs[Dst(x)] <= prevIDs[Src(x)]
  BY <1>1 DEF CCInv, Told
<1> QED BY <1>1, <1>3, <1>5, <1>6, <1>7, <1>8, TraversalKeepsCCInv

LEMMA ReadOrigKeepsCCInv ==
  ASSUME CCInv, NEW it \in Items, ReadOrig(it)
  PROVE  CCInv'
<1> DEFINE rec == [orig |-> IDs[Dst(it)], id |-> NoID]
<1>1. /\ phase = "map" /\ st[it] = "upd" /\ SetLocal(it, rec)
      /\ UNCHANGED <<emVars, synced, IDs, prevIDs>>
  BY DEF ReadOrig
<1>2. Src(it)' = Src(it) /\ Dst(it)' = Dst(it) /\ mode' = mode
  BY <1>1, MappedFrame DEF Mapped, emVars
<1>3. local'[it] = rec
  BY <1>1 DEF SetLocal
<1>4. /\ Dst(it) \in V /\ IDs[Dst(it)] \in V /\ IDs[Dst(it)] <= prevIDs[Dst(it)]
      /\ IDs[Dst(it)] <= IDs[Dst(it)]
  BY <1>1, UpdateFacts, NamesAreNumbers
<1>5. rec \in [orig : V, id : V \cup {NoID}] /\ rec.orig = IDs[Dst(it)] /\ rec.id = NoID
  BY <1>4
<1> HIDE DEF rec
<1>6. Knows(it)'
  BY <1>1, <1>2, <1>3, <1>4, <1>5 DEF Knows, Atomic
<1> QED BY <1>1, <1>6, ReadKeepsCCInv

\* A step that ends an update and may lower the ID of its target.
LEMMA FinishKeepsCCInv ==
  ASSUME CCInv, phase = "map", NEW it \in Items, NEW r \in BOOLEAN, Finish(it, r), Began(it),
         UNCHANGED <<synced, prevIDs>>,
         NEW id \in V, IDs' = [IDs EXCEPT ![Dst(it)] = id],
         id <= IDs[Dst(it)], id <= prevIDs[Src(it)], id \in Component[Dst(it)],
         id # prevIDs[Dst(it)] => r \/ IDs[Dst(it)] # prevIDs[Dst(it)]
  PROVE  CCInv'
<1>1. /\ CallInv /\ ShouldOutput /\ Updated(it, r) /\ IDs \in [V -> V] /\ prevIDs \in [V -> V]
      /\ st \in [Items -> {"todo", "upd", "chk", "done"}]
      /\ local' = [x \in DOMAIN local \ {it} |-> local[x]]
  BY ItemFacts DEF CCInv, CallInv, Working, Named, Finish
<1>2. Mapped /\ CallInv' /\ Adds(it, r)
  BY <1>1, UpdatedStep
<1>3. /\ st[it] = "upd" /\ res' = res /\ mode' = mode
      /\ \A x \in Items : x # it => st'[x] = st[x]
  BY <1>1 DEF Updated
<1>4. /\ \A x : Src(x)' = Src(x) /\ Dst(x)' = Dst(x)
      /\ Items' = Items
  BY <1>2, MappedFrame
<1>5. Dst(it) \in V
  BY UpdateFacts
<1>6. /\ IDs' \in [V -> V]
      /\ \A v \in V : /\ IDs'[v] <= IDs[v] /\ IDs'[v] \in Component[v]
                      /\ IDs[v] \in Int /\ IDs'[v] \in Int /\ prevIDs[v] \in Int
                      /\ v # Dst(it) => IDs'[v] = IDs[v]
      /\ IDs'[Dst(it)] = id
  <2>1. IDs' \in [V -> V] /\ IDs'[Dst(it)] = id
    BY <1>1, <1>5
  <2>2. ASSUME NEW v \in V PROVE /\ IDs'[v] <= IDs[v] /\ IDs'[v] \in Component[v]
                                 /\ v # Dst(it) => IDs'[v] = IDs[v]
    <3>1. IDs[v] \in Component[v] /\ IDs[v] \in Int
      BY <1>1, VertexSet DEF CCInv, Named
    <3> QED BY <1>1, <1>5, <2>1, <3>1
  <2> QED BY <1>1, <2>1, <2>2, VertexSet
<1>7. ASSUME NEW x \in DOMAIN local' PROVE x \in Items /\ st'[x] = "upd" /\ Knows(x)'
  <2>1. x \in DOMAIN local /\ x # it /\ local'[x] = local[x]
    BY <1>1, <1>7
  <2>2. x \in Items /\ st[x] = "upd" /\ Knows(x)
    BY <2>1 DEF CCInv, Locals
  <2>3. st'[x] = "upd"
    BY <1>3, <2>1, <2>2
  <2>4. Dst(x) \in V
    BY <2>2, UpdateFacts
  <2>5. local[x].orig \in Int
    BY <2>2, VertexSet DEF Knows
  <2>6. IDs'[Dst(x)] <= local[x].orig
    BY <1>6, <2>2, <2>4, <2>5 DEF Knows
  <2>7. ~Atomic => IDs'[Dst(x)] = IDs[Dst(x)]
    BY <1>3, <1>6, <2>1, <2>2, <2>4, PlainIsAlone
  <2>8. Knows(x)'
    BY <1>3, <1>4, <2>1, <2>2, <2>6, <2>7 DEF Knows, Atomic
  <2> QED BY <2>2, <2>3, <2>8
<1>8. ASSUME NEW v \in V, IDs'[v] # prevIDs[v] PROVE Found(v)' # {}
  <2>1. IDs[v] # prevIDs[v] => Found(v) # {}
    BY DEF CCInv, Woken
  <2>2. IF r /\ v = Dst(it) THEN \E x : Found(v)' = Found(v) \cup {x}
                            ELSE Found(v)' = Found(v)
    BY <1>2 DEF Adds
  <2> QED BY <1>6, <1>8, <2>1, <2>2
<1>9. ASSUME NEW x \in Items, st'[x] \in {"chk", "done"}, Src(x) \in Members(vs)
      PROVE  IDs'[Dst(x)] <= prevIDs[Src(x)]
  <2>1. CASE x = it
    BY <1>6, <2>1
  <2>2. CASE x # it
    <3>1. IDs[Dst(x)] <= prevIDs[Src(x)]
      BY <1>3, <1>9, <2>2 DEF CCInv, Told
    <3>2. Src(x) \in V /\ Dst(x) \in V
      BY UpdateFacts
    <3> QED BY <1>6, <3>1, <3>2
  <2> QED BY <2>1, <2>2
<1> QED BY <1>2, <1>3, <1>6, <1>7, <1>8, <1>9, TraversalKeepsCCInv

LEMMA ReadSourceKeepsCCInv ==
  ASSUME CCInv, NEW it \in Items, ReadSource(it)
  PROVE  CCInv'
<1>1. /\ phase = "map" /\ st[it] = "upd" /\ Began(it) /\ Knows(it)
      /\ UNCHANGED <<synced, IDs, prevIDs>>
  BY UpdateFacts DEF ReadSource
<1>2. /\ Dst(it) \in V /\ Src(it) \in V
      /\ IDs[Src(it)] \in V /\ IDs[Src(it)] <= prevIDs[Src(it)] /\ IDs[Src(it)] \in Component[Dst(it)]
      /\ IDs[Dst(it)] \in V /\ IDs[Dst(it)] \in Component[Dst(it)]
      /\ prevIDs[Src(it)] \in V
  BY <1>1, UpdateFacts
<1>3. CASE Atomic \/ IDs[Src(it)] < local[it].orig
  <2> DEFINE rec == [local[it] EXCEPT !.id = IDs[Src(it)]]
  <2>1. SetLocal(it, rec) /\ UNCHANGED emVars
    BY <1>3 DEF ReadSource
  <2>2. Src(it)' = Src(it) /\ Dst(it)' = Dst(it) /\ mode' = mode
    BY <1>1, <2>1, MappedFrame DEF Mapped, emVars
  <2>3. local'[it] = rec
    BY <2>1 DEF SetLocal
  <2>4. /\ rec \in [orig : V, id : V \cup {NoID}]
        /\ rec.orig = local[it].orig /\ rec.id = IDs[Src(it)]
    BY <1>1, <1>2 DEF Knows
  <2> HIDE DEF rec
  <2>5. Knows(it)'
    BY <1>1, <1>2, <2>2, <2>3, <2>4 DEF Knows, Atomic
  <2> QED BY <1>1, <2>1, <2>5, ReadKeepsCCInv
<1>4. CASE ~(Atomic \/ IDs[Src(it)] < local[it].orig)
  <2>1. Finish(it, FALSE)
    BY <1>4 DEF ReadSource
  <2>2. local[it].orig = IDs[Dst(it)]
    BY <1>1, <1>4 DEF Knows
  <2>3. IDs[Dst(it)] <= prevIDs[Src(it)] /\ IDs[Dst(it)] <= IDs[Dst(it)]
    BY <1>1, <1>2, <1>4, <2>2, NamesAreNumbers DEF Knows
  <2>4. IDs' = [IDs EXCEPT ![Dst(it)] = IDs[Dst(it)]]
    BY <1>1, <1>2 DEF CCInv, Named
  <2> QED BY <1>1, <1>2, <2>1, <2>3, <2>4, FinishKeepsCCInv
<1> QED BY <1>3, <1>4

LEMMA WriteIDKeepsCCInv ==
  ASSUME CCInv, NEW it \in Items, WriteID(it)
  PROVE  CCInv'
<1> DEFINE d == Dst(it)
           read == local[it].id
           wasPrev == local[it].orig = prevIDs[d]
<1>1. /\ phase = "map" /\ Began(it) /\ Knows(it) /\ read # NoID
      /\ UNCHANGED <<synced, prevIDs>> /\ IDs \in [V -> V]
  BY UpdateFacts DEF WriteID, CCInv, Named
<1>2. /\ d \in V /\ Src(it) \in V /\ IDs[d] \in V /\ prevIDs[d] \in V /\ prevIDs[Src(it)] \in V
      /\ IDs[Src(it)] \in V /\ IDs[Src(it)] <= prevIDs[Src(it)] /\ IDs[Src(it)] \in Component[d]
      /\ IDs[d] \in Component[d] /\ IDs[d] <= prevIDs[d]
  BY <1>1, UpdateFacts
<1>3. /\ read \in V /\ read <= prevIDs[Src(it)] /\ read \in Component[d]
      /\ local[it].orig \in V /\ IDs[d] <= local[it].orig /\ local[it].orig <= prevIDs[d]
      /\ ~Atomic => local[it].orig = IDs[d]
  BY <1>1 DEF Knows
<1>4. /\ read \in Int /\ local[it].orig \in Int /\ IDs[d] \in Int /\ IDs[d] <= IDs[d]
      /\ prevIDs[d] \in Int /\ prevIDs[Src(it)] \in Int /\ IDs[Src(it)] \in Int
  BY <1>2, <1>3, NamesAreNumbers
<1>5. CASE Atomic /\ read < IDs[d]
  <2>1. IDs' = [IDs EXCEPT ![d] = read] /\ Finish(it, wasPrev)
    BY <1>5 DEF WriteID
  <2>2. read <= IDs[d] /\ (wasPrev \/ IDs[d] # prevIDs[d])
    BY <1>2, <1>3, <1>4, <1>5
  <2>3. wasPrev \in BOOLEAN
    OBVIOUS
  <2> HIDE DEF d, read, wasPrev
  <2> QED BY <1>1, <1>2, <1>3, <2>1, <2>2, <2>3, FinishKeepsCCInv DEF d
<1>6. CASE Atomic /\ ~(read < IDs[d])
  <2>1. IDs' = IDs /\ Finish(it, FALSE)
    BY <1>6 DEF WriteID
  <2>2. IDs' = [IDs EXCEPT ![d] = IDs[d]]
    BY <1>1, <1>2, <2>1
  <2>3. IDs[d] <= IDs[d] /\ IDs[d] <= prevIDs[Src(it)]
    BY <1>2, <1>3, <1>4, <1>6
  <2> HIDE DEF d, read, wasPrev
  <2> QED BY <1>1, <1>2, <2>1, <2>2, <2>3, FinishKeepsCCInv DEF d
<1>7. CASE ~Atomic
  <2>1. PICK id \in {read, IDs[Src(it)]} :
          /\ IDs' = [IDs EXCEPT ![d] = IF id < local[it].orig THEN id ELSE local[it].orig]
          /\ Finish(it, wasPrev)
    BY <1>7 DEF WriteID
  <2> DEFINE new == IF id < local[it].orig THEN id ELSE local[it].orig
  <2>2. /\ new \in V /\ new <= IDs[d] /\ new <= prevIDs[Src(it)] /\ new \in Component[d]
        /\ wasPrev \/ IDs[d] # prevIDs[d]
    BY <1>2, <1>3, <1>4, <1>7, <2>1
  <2>3. wasPrev \in BOOLEAN
    OBVIOUS
  <2>4. IDs' = [IDs EXCEPT ![d] = new] /\ Finish(it, wasPrev)
    BY <2>1
  <2> HIDE DEF d, read, wasPrev, new
  <2> QED BY <1>1, <2>2, <2>3, <2>4, FinishKeepsCCInv DEF d
<1> QED BY <1>5, <1>6, <1>7

-----------------------------------------------------------------------------
LEMMA NextKeepsCCInv ==
  ASSUME NullIsNoArray, CCInv, [Next]_vars
  PROVE  CCInv'
<1>1. CASE UNCHANGED vars
  <2>1. /\ UNCHANGED <<fl, vs, phase, mode, begun, st, outEdges, cts, next, res>>
        /\ UNCHANGED <<synced, IDs, prevIDs, local>>
    BY <1>1 DEF vars, emVars, ccVars
  <2>2. CASE phase = "map"
    <3>1. Mapped /\ CallInv /\ Working
      BY <2>1, <2>2 DEF Mapped, CCInv, CallInv
    <3>2. CallInv' /\ \A v : Found(v)' = Found(v)
      BY <2>1, <2>2, <3>1, QuietStep DEF Working
    <3> QED BY <2>1, <3>1, <3>2, ScanKeepsCCInv
  <2>3. CASE phase # "map"
    <3>1. CallInv' /\ WellShaped(res)' /\ Plain'
      BY <2>1, <2>3 DEF CCInv, CallInv, Mapping, Working, Output, WellShaped, Agrees, Plain
    <3>2. Members(vs)' = Members(vs)
      BY <2>1 DEF Members
    <3>3. Members(res)' = Members(res)
      BY <2>1 DEF Members
    <3>4. Locals' /\ Named' /\ Called' /\ Quiet' /\ Woken' /\ Told' /\ LoweredVertexIsOutput'
      BY <2>1, <2>3, <3>2, <3>3
         DEF CCInv, Locals, Named, Called, Quiet, Woken, Told, LoweredVertexIsOutput
    <3> QED BY <3>1, <3>4 DEF CCInv
  <2> QED BY <2>2, <2>3
<1>2. CASE Next
  <2>1. CASE SyncPrev \/ Enter \/ Leave \/ NextRound
    BY <2>1, SyncKeepsCCInv, EnterKeepsCCInv, LeaveKeepsCCInv, NextRoundKeepsCCInv
  <2>2. CASE phase = "map" /\ \E v \in V : Loop(v)
    BY <2>2, LoopsKeepCCInv
  <2>3. ASSUME phase = "map", NEW it \in Items,
               \/ ReadIn(it) \/ Break(it) \/ ReadOut(it)
               \/ ReadOrig(it) \/ ReadSource(it) \/ WriteID(it)
        PROVE  CCInv'
    BY <2>3, LoopsKeepCCInv, ReadOrigKeepsCCInv, ReadSourceKeepsCCInv, WriteIDKeepsCCInv
  <2> QED BY <1>2, <2>1, <2>2, <2>3 DEF Next
<1> QED BY <1>1, <1>2

LEMMA CCInvariant == ASSUME NullIsNoArray PROVE Spec => []CCInv
<1> QED BY InitCCInv, NextKeepsCCInv, PTL DEF Spec

\* No lost wake-up, on every symmetric graph and for every interleaving: a vertex whose
\* ID was lowered in a call is in the subset the call returns.  Of the writes to one ID
\* in a call the first that lowers it was made by an update that had read the ID the call
\* began with, so this one answers TRUE.
THEOREM LoweredVertexIsAlwaysOutput ==
  ASSUME NullIsNoArray
  PROVE  Spec => []LoweredVertexIsOutput
<1>1. CCInv => LoweredVertexIsOutput
  BY DEF CCInv
<1> QED BY <1>1, CCInvariant, PTL

LEMMA QuietIsMinimal == CCInv => IDsAreMinimal
<1> SUFFICES ASSUME CCInv, Done, NEW v \in V
             PROVE  IDs[v] \in Component[v] /\ \A u \in Component[v] : IDs[v] <= u
  BY DEF IDsAreMinimal
<1>1. phase = "call" /\ vs.m = 0 /\ WellShaped(vs)
  BY DEF Done, CCInv, CallInv
<1>2. Members(vs) = {}
  <2>1. Entries(vs.s, 0) = {}
    BY DEF Entries
  <2>2. vs.isDense => Trues(vs.d) = {}
    BY <1>1, NoMembers DEF WellShaped, IsSubset
  <2> QED BY <1>1, <2>1, <2>2 DEF Members
<1>3. \A e \in Edges : IDs[e[2]] <= IDs[e[1]]
  BY <1>1, <1>2 DEF CCInv, Quiet
<1>4. IDs \in [V -> V] /\ IDs[v] \in Component[v] /\ \A u \in V : IDs[u] <= u
  BY DEF CCInv, Named
<1>5. ASSUME NEW u \in Component[v] PROVE IDs[v] <= u
  <2>1. u \in V /\ IDs[u] = IDs[v]
    BY <1>3, <1>4, OneIDEach
  <2> QED BY <1>4, <2>1
<1> QED BY <1>4, <1>5

\* When Compute ends, every ID is the smallest vertex of its component: the empty frontier
\* leaves no edge that could lower an ID, and no ID was ever one of another component.
THEOREM IDsAreAlwaysMinimal ==
  ASSUME NullIsNoArray
  PROVE  Spec => []IDsAreMinimal
<1> QED BY CCInvariant, QuietIsMinimal, PTL
=============================================================================
