-------------------------------- MODULE BFS --------------------------------
(***************************************************************************)
(* apps/nvm/nvmBFS.C (apps/BFS.C is the same program on a DRAM graph):     *)
(* breadth-first search as a loop of edgeMaps with the default arguments.  *)
(* updateAtomic is one CAS; cond reads the same word before it, in a step  *)
(* of its own.  The plain update of the dense traversal is one step: only  *)
(* the worker that owns d reads or writes Parents[d] there.  The proofs of *)
(* its two safety properties follow the model.                             *)
(***************************************************************************)
EXTENDS EdgeMap_proofs

CONSTANT start  \* the -r option

StartInGraph == start \in V

VARIABLE Parents
vars == <<emVars, Parents>>

Unvisited(d) == Parents[d] = UINT_E_MAX

Init == /\ InitCall(OfIndices(1, [i \in {0} |-> start]), {}, -1)
        /\ Parents = [v \in V |-> IF v = start THEN start ELSE UINT_E_MAX]

Enter       == EnterCall /\ UNCHANGED Parents
Loop(v)     == DenseVertex(v, Unvisited(v)) /\ UNCHANGED Parents
ReadIn(it)  == InNgh(it) /\ UNCHANGED Parents
Break(it)   == BreakEarly(it, Unvisited(Dst(it))) /\ UNCHANGED Parents
ReadOut(it) == OutNgh(it, Unvisited(Dst(it))) /\ UNCHANGED Parents
Leave       == LeaveCall /\ UNCHANGED Parents

\* Mutant: the index in the frontier is stored, not the vertex.
UpdateStoresOwner(it) ==
  LET d == Dst(it) IN
  /\ Updated(it, Unvisited(d))
  /\ Parents' = IF Unvisited(d) THEN [Parents EXCEPT ![d] = it[1]] ELSE Parents

\* CAS(&Parents[d], UINT_E_MAX, s)
Update(it) ==
  LET d == Dst(it) IN
  /\ Updated(it, Unvisited(d))
  /\ Parents' = IF Unvisited(d) THEN [Parents EXCEPT ![d] = Src(it)] ELSE Parents

NextRound == phase = "ret" /\ NextCall(res) /\ UNCHANGED Parents

Done == phase = "call" /\ vs.m = 0

Next == /\ ~Done
        /\ \/ Enter \/ Leave \/ NextRound
           \/ phase = "map" /\ \/ \E v \in V : Loop(v)
                               \/ \E it \in Items : ReadIn(it) \/ Break(it) \/ ReadOut(it) \/ Update(it)

Spec == Init /\ [][Next]_vars /\ WF_vars(Next)

-----------------------------------------------------------------------------
\* Ball[k]: the vertices at distance at most k from start.
Ball[k \in 0 .. n] ==
  IF k = 0 THEN {start}
  ELSE LET near == Ball[k - 1] IN near \cup {e[2] : e \in {e \in Edges : e[1] \in near}}
Level(k) == IF k = 0 THEN Ball[0] ELSE Ball[k] \ Ball[k - 1]

Visited == {v \in V : ~Unvisited(v)}

\* Whatever the interleaving of the CASes and the mix of traversals, a parent is one
\* edge away and one level closer to the start.
ParentsAreShortest ==
  \A v \in Visited \ {start} :
    /\ <<Parents[v], v>> \in Edges
    /\ \E k \in 1 .. n : v \in Level(k) /\ Parents[v] \in Level(k - 1)

\* Between two rounds the frontier is exactly one level, each vertex of it once, and
\* the visited vertices are those up to this level: no stale cond loses a vertex.
FrontierIsLevel ==
  phase = "call" =>
    \E k \in 0 .. n : /\ Visited = Ball[k]
                      /\ Members(vs) = Level(k)
                      /\ Cardinality(Level(k)) = vs.m

\* Compute ends, if the workers keep running.
Terminates == <>Done

-----------------------------------------------------------------------------
(* Both properties hold on every graph.  In the call on the frontier       *)
(* Level(k) the visited vertices lie between two balls, a vertex visited   *)
(* in this call has one place in the output (NewAreFound), and an item     *)
(* that is done and came from the frontier has its target visited (Seen):  *)
(* by its own CAS, by the one that made it fail, or by the one cond saw.   *)

\* Without flags a call is dense or plain sparse, and has an output.
Plain == fl = {} /\ (phase = "map" => mode \in {"sparse", "dense"})

\* The frontier's representation does not matter once the call has begun.
Started(k) == /\ k \in 0 .. n
              /\ Parents \in [V -> V \cup {UINT_E_MAX}]
              /\ Members(vs) = Level(k)
              /\ phase = "call" => Visited = Ball[k] /\ vs.m = Cardinality(Level(k))
              /\ phase \in {"map", "ret"} => k < n

\* The balls grow with every round that has a frontier, so there are at most n of them.
Growing(k) == Level(k) # {} => k < Cardinality(Ball[k])

NewAreFound(k) ==
  \A v \in V : IF v \in Visited \ Ball[k] THEN \E x \in Found(v) : Found(v) = {x} ELSE Found(v) = {}

Seen == \A it \in Items :
          /\ st[it] = "upd" => Src(it) \in Members(vs)
          /\ st[it] \in {"chk", "done"} /\ Src(it) \in Members(vs) => Dst(it) \in Visited

Searching(k) == phase = "map" => /\ Ball[k] \subseteq Visited /\ Visited \subseteq Ball[k + 1]
                                 /\ NewAreFound(k) /\ Seen

Returned(k) == phase = "ret" => /\ Visited = Ball[k + 1]
                                /\ Members(res) = Level(k + 1) /\ res.m = Cardinality(Level(k + 1))

BFSInv(k) == /\ CallInv /\ WellShaped(res) /\ Plain
             /\ Started(k) /\ Growing(k) /\ Searching(k) /\ Returned(k)
             /\ ParentsAreShortest
-----------------------------------------------------------------------------
(* The balls *)

\* The recursive definition computes each ball from the one before.
LEMMA BallsGrow ==
  /\ Ball[0] = {start}
  /\ \A k \in 0 .. n - 1 : Ball[k + 1] = Ball[k] \cup {e[2] : e \in {e \in Edges : e[1] \in Ball[k]}}
<1> DEFINE Out(S) == S \cup {e[2] : e \in {e \in Edges : e[1] \in S}}
           Balls(g, k) == g = [i \in 0 .. k |-> IF i = 0 THEN {start} ELSE Out(g[i - 1])]
           Upto == {k \in Nat : \E g : Balls(g, k)}
<1>1. n \in Nat
  BY VertexSet
<1>2. 0 \in Upto
  <2>1. Balls([i \in 0 .. 0 |-> {start}], 0)
    OBVIOUS
  <2> QED BY <2>1
<1>3. ASSUME NEW k \in Nat, k \in Upto PROVE k + 1 \in Upto
  <2> SUFFICES \E g : Balls(g, k + 1)
    OBVIOUS
  <2>1. PICK g : Balls(g, k)
    BY <1>3
  <2> DEFINE h == [i \in 0 .. k + 1 |-> IF i = 0 THEN {start} ELSE Out(g[i - 1])]
  <2> HIDE DEF Out
  <2>2. ASSUME NEW i \in 0 .. k + 1, i # 0 PROVE h[i - 1] = g[i - 1]
    <3>1. i - 1 \in 0 .. k /\ i - 1 \in 0 .. k + 1
      BY <2>2
    <3> QED BY <2>1, <3>1
  <2>3. h = [i \in 0 .. k + 1 |-> IF i = 0 THEN {start} ELSE Out(h[i - 1])]
    BY <2>2
  <2> HIDE DEF h
  <2>4. Balls(h, k + 1)
    BY <2>3
  <2> QED BY <2>4
<1>4. \E g : Balls(g, n)
  <2> HIDE DEF Upto
  <2>1. n \in Upto
    BY <1>1, <1>2, <1>3, SetInduction
  <2> QED BY <2>1 DEF Upto
<1>5. Balls(Ball, n)
  BY <1>4 DEF Ball
<1> HIDE DEF Out
<1>6. \A i \in 0 .. n : Ball[i] = IF i = 0 THEN {start} ELSE Out(Ball[i - 1])
  BY <1>5
<1>7. ASSUME NEW k \in 0 .. n - 1 PROVE Ball[k + 1] = Out(Ball[k])
  <2>1. k + 1 \in 0 .. n /\ k + 1 # 0 /\ (k + 1) - 1 = k
    BY <1>1
  <2> QED BY <1>6, <2>1
<1>8. Ball[0] = {start}
  BY <1>1, <1>6
<1> QED BY <1>7, <1>8 DEF Out

\* Edges lead from a ball into the next one, and into its new vertices only from the
\* last level.
LEMMA LevelFacts ==
  ASSUME StartInGraph
  PROVE  /\ \A k \in 0 .. n : Ball[k] \subseteq V /\ Level(k) \subseteq Ball[k]
         /\ \A k \in 0 .. n - 1 :
              /\ Ball[k] \subseteq Ball[k + 1]
              /\ Level(k + 1) = Ball[k + 1] \ Ball[k]
              /\ \A e \in Edges : e[1] \in Level(k) => e[2] \in Ball[k + 1]
              /\ \A v \in Level(k + 1) : \E e \in Edges : e[1] \in Level(k) /\ e[2] = v
<1>1. n \in Nat /\ start \in V
  BY VertexSet DEF StartInGraph
<1>2. ASSUME NEW k \in 0 .. n - 1
      PROVE  Ball[k + 1] = Ball[k] \cup {e[2] : e \in {e \in Edges : e[1] \in Ball[k]}}
  BY BallsGrow
<1>3. \A e \in Edges : e[1] \in V /\ e[2] \in V
  BY DEF Edges
<1>4. \A k \in 0 .. n : Ball[k] \subseteq V
  <2> DEFINE In == {k \in Nat : k <= n => Ball[k] \subseteq V}
  <2>1. 0 \in In
    BY <1>1, BallsGrow
  <2>2. ASSUME NEW k \in Nat, k \in In PROVE k + 1 \in In
    <3> SUFFICES ASSUME k + 1 <= n PROVE Ball[k + 1] \subseteq V
      OBVIOUS
    <3>1. k \in 0 .. n - 1 /\ Ball[k] \subseteq V
      BY <1>1, <2>2
    <3> QED BY <1>2, <1>3, <3>1
  <2> HIDE DEF In
  <2>3. \A k \in Nat : k \in In
    BY <2>1, <2>2, SetInduction
  <2> QED BY <1>1, <2>3 DEF In
<1>5. ASSUME NEW k \in 0 .. n - 1
      PROVE  /\ Ball[k] \subseteq Ball[k + 1]
             /\ Level(k + 1) = Ball[k + 1] \ Ball[k]
             /\ \A e \in Edges : e[1] \in Ball[k] => e[2] \in Ball[k + 1]
  <2>1. k + 1 # 0 /\ (k + 1) - 1 = k
    BY <1>1
  <2>2. Level(k + 1) = Ball[k + 1] \ Ball[k]
    BY <2>1 DEF Level
  <2> QED BY <1>2, <2>2
<1>6. \A k \in 0 .. n : Level(k) \subseteq Ball[k]
  BY DEF Level
<1>7. ASSUME NEW k \in 0 .. n - 1, NEW v \in Level(k + 1)
      PROVE  \E e \in Edges : e[1] \in Level(k) /\ e[2] = v
  <2>1. v \in Ball[k + 1] /\ v \notin Ball[k]
    BY <1>5, <1>7
  <2>2. PICK e \in Edges : e[1] \in Ball[k] /\ e[2] = v
    BY <1>2, <2>1
  <2>3. e[1] \in Level(k)
    <3>1. CASE k = 0
      BY <2>2, <3>1 DEF Level
    <3>2. CASE k # 0
      <4>1. k - 1 \in 0 .. n - 1 /\ (k - 1) + 1 = k
        BY <1>1, <3>2
      <4>2. e[1] \notin Ball[k - 1]
        BY <1>5, <2>1, <2>2, <4>1
      <4> QED BY <2>2, <3>2, <4>2 DEF Level
    <3> QED BY <3>1, <3>2
  <2> QED BY <2>2, <2>3
<1>8. \A k \in 0 .. n - 1 : k \in 0 .. n
  BY <1>1
<1>9. \A k \in 0 .. n - 1 : \A e \in Edges : e[1] \in Level(k) => e[2] \in Ball[k + 1]
  BY <1>5, <1>6, <1>8
<1> QED BY <1>4, <1>5, <1>6, <1>7, <1>9

-----------------------------------------------------------------------------
\* What the work items of the traversals without flags stand for.
LEMMA ItemFacts ==
  ASSUME CallInv, Plain, phase = "map"
  PROVE  /\ Faithful /\ ShouldOutput
         /\ \A it \in Items : /\ Dst(it) \in V /\ <<Src(it), Dst(it)>> \in Edges
                              /\ mode # "dense" => Src(it) \in Members(vs)
<1>1. Faithful /\ ShouldOutput
  BY DEF Plain, Faithful, ShouldOutput
<1> QED BY <1>1, ItemVertices, ItemsAreEdges DEF CallInv

LEMMA InitBFSInv == StartInGraph /\ NullIsNoArray /\ Init => BFSInv(0)
<1> SUFFICES ASSUME StartInGraph, NullIsNoArray, Init PROVE BFSInv(0)
  OBVIOUS
<1> DEFINE arr == [i \in {0} |-> start]
<1>1. /\ vs = OfIndices(1, arr) /\ phase = "call" /\ fl = {} /\ res = EmptySubset
      /\ Parents = [v \in V |-> IF v = start THEN start ELSE UINT_E_MAX]
  BY DEF Init, InitCall
<1>2. start \in V /\ UINT_E_MAX \notin V /\ n \in Nat /\ 0 \in 0 .. n
  BY VertexSet, EdgeMapAssumption DEF StartInGraph
<1>3. Ball[0] = {start} /\ Level(0) = {start} /\ Cardinality({start}) = 1
  BY BallsGrow, FS_Singleton DEF Level
<1>4. vs.s = arr /\ vs.d = NULL /\ vs.m = 1 /\ vs.isDense = FALSE /\ DOMAIN vs = {"s", "d", "m", "isDense"}
  BY <1>1 DEF OfIndices
<1>5. arr \in [0 .. 1 - 1 -> V] /\ 0 .. 1 - 1 = {0}
  BY <1>2
<1>6. Members(vs) = {start}
  BY <1>4, <1>5 DEF Members, Entries
<1>7. WellShaped(vs)
  <2>1. vs.s \in [0 .. vs.m - 1 -> V]
    BY <1>4, <1>5
  <2>2. vs.m \in Nat /\ vs.isDense \in BOOLEAN /\ vs.isDense = FALSE /\ vs.d = NULL
    <3> HIDE DEF arr
    <3>1. vs.m \in Nat
      BY <1>4
    <3>2. vs.isDense \in BOOLEAN
      BY <1>4
    <3> QED BY <1>4, <3>1, <3>2
  <2>3. vs.m > 0 => vs.s # NULL \/ vs.d # NULL
    <3>1. NULL \notin [0 .. 1 - 1 -> V]
      BY DEF NullIsNoArray
    <3>2. arr # NULL
      BY <1>5, <3>1
    <3> HIDE DEF arr
    <3> QED BY <1>4, <3>2
  <2>4. IsSubset(vs, V)
    BY <1>4, <2>1, <2>2, <2>3 DEF IsSubset
  <2> QED BY <2>1, <2>2, <2>4 DEF WellShaped, Agrees
<1>8. Visited = {start}
  BY <1>1, <1>2 DEF Visited, Unvisited
<1>9. CallInv
  BY <1>1, <1>7 DEF CallInv, Mapping, Working, Output
<1>10. Parents \in [V -> V \cup {UINT_E_MAX}]
  BY <1>1, <1>2
<1>11. Started(0) /\ Growing(0)
  BY <1>1, <1>2, <1>3, <1>4, <1>6, <1>8, <1>10 DEF Started, Growing
<1>12. Plain /\ Searching(0) /\ Returned(0)
  BY <1>1 DEF Plain, Searching, Returned
<1>13. ParentsAreShortest
  BY <1>8 DEF ParentsAreShortest
<1> QED BY <1>1, <1>9, <1>11, <1>12, <1>13, EmptyIsWellShaped DEF BFSInv

\* A round with a frontier is one of the first n.
LEMMA RoundsAreFew ==
  ASSUME StartInGraph, NEW k, BFSInv(k), Level(k) # {}
  PROVE  k \in 0 .. n - 1
<1>1. k \in 0 .. n /\ k < Cardinality(Ball[k]) /\ n \in Nat
  BY VertexSet DEF BFSInv, Started, Growing
<1>2. Ball[k] \in SUBSET V
  BY <1>1, LevelFacts
<1>3. Cardinality(Ball[k]) <= n /\ Cardinality(Ball[k]) \in Nat
  BY <1>2, VertexSet, FS_Subset, FS_CardinalityType
<1> QED BY <1>1, <1>3

LEMMA EnterKeepsBFSInv ==
  ASSUME StartInGraph, NEW k, BFSInv(k), ~Done, Enter
  PROVE  BFSInv(k)'
<1>1. /\ CallInv /\ EnterCall /\ phase = "call" /\ fl = {} /\ fl' = fl /\ phase' # "call"
      /\ Parents' = Parents /\ phase' \in {"map", "ret", "crash", "abort"}
  BY DEF BFSInv, Plain, Enter, EnterCall, CallEmpty, CallDense, CallSparse, CallDies, Starts,
         Returning
<1>2. /\ CallInv' /\ Members(vs)' = Members(vs)
      /\ phase' = "map" => \A v \in V : Found(v)' = {}
      /\ res' = res \/ res' = EmptySubset
      /\ phase' = "ret" => res' = EmptySubset
  <2>1. ShouldOutput
    BY <1>1 DEF ShouldOutput
  <2>2. res' = res \/ res' = EmptySubset
    BY DEF Enter, EnterCall, CallEmpty, CallDense, CallSparse, CallDies, Returning
  <2> QED BY <1>1, <2>1, <2>2, EnterStep
<1>3. /\ Visited = Ball[k] /\ Visited' = Visited /\ Members(vs) = Level(k) /\ k \in 0 .. n
      /\ vs.m = Cardinality(Level(k)) /\ vs.m # 0 /\ n \in Nat
  BY <1>1, VertexSet DEF BFSInv, Started, Done, Visited, Unvisited
<1>4. k \in 0 .. n - 1
  <2>1. Level(k) # {}
    BY <1>3, FS_EmptySet
  <2> QED BY <2>1, RoundsAreFew
<1>5. WellShaped(res)'
  <2>1. WellShaped(res')
    BY <1>2, EmptyIsWellShaped DEF BFSInv
  <2> QED BY <2>1 DEF WellShaped, Agrees
<1>6. Plain'
  <2>1. phase' = "map" => mode' = ChosenMode
    BY <1>1 DEF EnterCall, CallEmpty, CallDense, CallSparse, CallDies, Returning
  <2>2. ChosenMode \in {"sparse", "dense"}
    BY <1>1 DEF ChosenMode
  <2> QED BY <1>1, <2>1, <2>2 DEF Plain
<1>7. Started(k)' /\ Growing(k)'
  BY <1>1, <1>2, <1>3, <1>4 DEF BFSInv, Started, Growing
<1>8. Searching(k)'
  <2> SUFFICES ASSUME phase' = "map"
               PROVE  /\ Ball[k] \subseteq Visited' /\ Visited' \subseteq Ball[k + 1]
                      /\ NewAreFound(k)' /\ Seen'
    BY DEF Searching
  <2>1. \A it \in Items' : st'[it] = "todo"
    BY <1>1 DEF EnterCall, CallEmpty, CallDense, CallSparse, CallDies, Items, Returning
  <2>2. NewAreFound(k)' /\ Seen'
    BY <1>2, <1>3, <2>1 DEF NewAreFound, Seen
  <2> QED BY <1>3, <1>4, <2>2, LevelFacts
<1>9. Returned(k)'
  <2> SUFFICES ASSUME phase' = "ret"
               PROVE  /\ Visited' = Ball[k + 1]
                      /\ Members(EmptySubset) = Level(k + 1) /\ EmptySubset.m = Cardinality(Level(k + 1))
    BY <1>2 DEF Returned, Members
  <2>1. CallEmpty
    BY <1>1 DEF EnterCall, CallDense, CallSparse, CallDies
  <2>2. \A e \in Edges : e[1] \notin Level(k)
    BY <1>1, <1>3, <2>1, EmptyCall DEF CallInv
  <2>3. Level(k + 1) = {} /\ Ball[k + 1] = Ball[k]
    <3>1. /\ Ball[k] \subseteq Ball[k + 1] /\ Level(k + 1) = Ball[k + 1] \ Ball[k]
          /\ \A v \in Level(k + 1) : \E e \in Edges : e[1] \in Level(k) /\ e[2] = v
      BY <1>4, LevelFacts
    <3>2. Level(k + 1) = {}
      BY <2>2, <3>1
    <3> QED BY <3>1, <3>2
  <2>4. Members(EmptySubset) = {} /\ EmptySubset.m = 0
    BY DEF Members, EmptySubset, Entries
  <2>5. Cardinality({}) = 0
    BY FS_EmptySet
  <2> QED BY <1>3, <2>3, <2>4, <2>5
<1>10. ParentsAreShortest'
  BY <1>1, <1>3 DEF BFSInv, ParentsAreShortest
<1> QED BY <1>2, <1>5, <1>6, <1>7, <1>8, <1>9, <1>10 DEF BFSInv

LEMMA LeaveKeepsBFSInv ==
  ASSUME StartInGraph, NullIsNoArray, NEW k, BFSInv(k), Leave
  PROVE  BFSInv(k)'
<1>1. CallInv /\ LeaveCall /\ fl = {} /\ ShouldOutput /\ Parents' = Parents
  BY DEF BFSInv, Plain, Leave, ShouldOutput
<1>2. /\ CallInv' /\ phase = "map" /\ phase' = "ret"
      /\ \A it \in Items : st[it] = "done"
      /\ fl' = fl /\ vs' = vs
      /\ Members(res') = {v \in V : Found(v) # {}}
      /\ WellShaped(res')
  BY <1>1, LeaveStep
<1>3. /\ k \in 0 .. n - 1 /\ Members(vs) = Level(k) /\ Visited' = Visited
      /\ Ball[k] \subseteq Visited /\ Visited \subseteq Ball[k + 1] /\ NewAreFound(k) /\ Seen
  BY <1>1, <1>2, VertexSet DEF BFSInv, Started, Searching, Visited, Unvisited
<1>4. Visited = Ball[k + 1]
  <2> SUFFICES ASSUME NEW v \in Ball[k + 1] \ Ball[k] PROVE v \in Visited
    BY <1>3
  <2>1. PICK e \in Edges : e[1] \in Level(k) /\ e[2] = v
    BY <1>3, LevelFacts
  <2>2. Faithful
    BY <1>2, ItemFacts DEF BFSInv
  <2>3. PICK it \in Items : Src(it) = e[1] /\ Dst(it) = e[2]
    BY <1>1, <1>2, <1>3, <2>1, <2>2, EdgesHaveItems DEF CallInv
  <2> QED BY <1>2, <1>3, <2>1, <2>3 DEF Seen
<1>5. Level(k + 1) = Ball[k + 1] \ Ball[k] /\ Visited \subseteq V
  BY <1>3, LevelFacts DEF Visited
<1>6. Members(res') = Level(k + 1)
  BY <1>2, <1>3, <1>4, <1>5 DEF NewAreFound
<1>7. res'.m = Cardinality(Members(res'))
  <2>1. \A v \in V : Found(v) = {} \/ \E x \in Found(v) : Found(v) = {x}
    BY <1>3 DEF NewAreFound
  <2> QED BY <1>1, <2>1, LeaveCounts
<1>8. Returned(k)'
  BY <1>3, <1>4, <1>6, <1>7 DEF Returned, Members
<1>9. Members(vs)' = Members(vs)
  BY <1>2 DEF Members
<1>10. Started(k)' /\ Growing(k)'
  BY <1>1, <1>2, <1>3, <1>9 DEF BFSInv, Started, Growing
<1>11. WellShaped(res)' /\ Plain' /\ Searching(k)'
  BY <1>1, <1>2 DEF WellShaped, Agrees, Plain, Searching
<1>12. ParentsAreShortest'
  BY <1>1, <1>3 DEF BFSInv, ParentsAreShortest
<1> QED BY <1>2, <1>8, <1>10, <1>11, <1>12 DEF BFSInv

LEMMA NextRoundKeepsBFSInv ==
  ASSUME StartInGraph, NEW k, BFSInv(k), NextRound
  PROVE  k + 1 \in 0 .. n /\ BFSInv(k + 1)'
<1>1. /\ phase = "ret" /\ phase' = "call" /\ vs' = res /\ res' = EmptySubset /\ fl' = fl
      /\ Parents' = Parents
  BY DEF NextRound, NextCall
<1>2. /\ k \in 0 .. n - 1 /\ k + 1 \in 0 .. n /\ n \in Nat /\ Visited' = Visited /\ Visited = Ball[k + 1]
      /\ Members(res) = Level(k + 1) /\ res.m = Cardinality(Level(k + 1))
  BY <1>1, VertexSet DEF BFSInv, Started, Returned, Visited, Unvisited
<1>3. Members(vs)' = Members(res)
  BY <1>1 DEF Members
<1>4. WellShaped(vs)' /\ WellShaped(res)'
  <2>1. WellShaped(vs') /\ WellShaped(res')
    BY <1>1, EmptyIsWellShaped DEF BFSInv
  <2> QED BY <2>1 DEF WellShaped, Agrees
<1>5. CallInv' /\ Plain' /\ Searching(k + 1)' /\ Returned(k + 1)'
  BY <1>1, <1>4 DEF BFSInv, CallInv, Mapping, Working, Output, Plain, Searching, Returned
<1>6. Started(k + 1)'
  BY <1>1, <1>2, <1>3 DEF BFSInv, Started
<1>7. Growing(k + 1)'
  <2> SUFFICES ASSUME Level(k + 1) # {} PROVE k + 1 < Cardinality(Ball[k + 1])
    BY DEF Growing
  <2>1. Level(k + 1) = Ball[k + 1] \ Ball[k] /\ Ball[k] \subseteq Ball[k + 1] /\ Ball[k + 1] \subseteq V
    BY <1>2, LevelFacts
  <2>2. IsFiniteSet(Ball[k + 1]) /\ Ball[k] \in SUBSET Ball[k + 1] /\ Ball[k] # Ball[k + 1]
    BY <2>1, VertexSet, FS_Subset
  <2>3. /\ Cardinality(Ball[k]) <= Cardinality(Ball[k + 1]) /\ Cardinality(Ball[k]) # Cardinality(Ball[k + 1])
        /\ Cardinality(Ball[k]) \in Nat /\ Cardinality(Ball[k + 1]) \in Nat
    BY <2>2, FS_Subset, FS_CardinalityType
  <2>4. Level(k) # {}
    <3>1. PICK v : v \in Level(k + 1)
      OBVIOUS
    <3> QED BY <1>2, <3>1, LevelFacts
  <2>5. k < Cardinality(Ball[k])
    BY <2>4 DEF BFSInv, Growing
  <2> QED BY <1>2, <2>3, <2>5
<1>8. ParentsAreShortest'
  BY <1>1, <1>2 DEF BFSInv, ParentsAreShortest
<1> QED BY <1>2, <1>4, <1>5, <1>6, <1>7, <1>8 DEF BFSInv


-----------------------------------------------------------------------------
(* The traversal *)

\* A step that visits no vertex: an item that has passed its update, or skips it, comes
\* from outside the frontier or has its target visited.
LEMMA ScanKeepsBFSInv ==
  ASSUME NEW k, BFSInv(k), Mapped, CallInv', UNCHANGED <<Parents, res>>,
         \A v \in V : Found(v)' = Found(v),
         \A x \in Items : \/ st'[x] = st[x]
                          \/ st'[x] = "upd" /\ Src(x) \in Members(vs)
                          \/ st'[x] # "upd" /\ Src(x) \notin Members(vs)
                          \/ st'[x] # "upd" /\ Dst(x) \in Visited
  PROVE  BFSInv(k)'
<1>1. /\ Items' = Items /\ Members(vs)' = Members(vs) /\ phase = "map" /\ phase' = "map"
      /\ \A it : Src(it)' = Src(it) /\ Dst(it)' = Dst(it)
      /\ fl' = fl /\ mode' = mode /\ Visited' = Visited
  BY MappedFrame DEF Mapped, Visited, Unvisited
<1>2. /\ Ball[k] \subseteq Visited /\ Visited \subseteq Ball[k + 1] /\ NewAreFound(k) /\ Seen
  BY <1>1 DEF BFSInv, Searching
<1>3. NewAreFound(k)'
  BY <1>1, <1>2 DEF NewAreFound
<1>4. Seen'
  <2>1. \A x \in Items : /\ st'[x] = "upd" => Src(x) \in Members(vs)
                         /\ st'[x] \in {"chk", "done"} /\ Src(x) \in Members(vs) => Dst(x) \in Visited
    BY <1>2 DEF Seen
  <2> QED BY <1>1, <2>1 DEF Seen
<1>5. Searching(k)' /\ Returned(k)'
  BY <1>1, <1>2, <1>3, <1>4 DEF Searching, Returned
<1>6. Started(k)' /\ Growing(k)' /\ Plain'
  BY <1>1 DEF BFSInv, Started, Growing, Plain
<1>7. ParentsAreShortest'
  BY <1>1 DEF BFSInv, ParentsAreShortest
<1>8. WellShaped(res)'
  BY DEF BFSInv, WellShaped, Agrees
<1> QED BY <1>5, <1>6, <1>7, <1>8 DEF BFSInv

\* cond answers for the moment it runs: when it is false, its vertex is visited for good.
LEMMA LoopsKeepBFSInv ==
  ASSUME NEW k, BFSInv(k), phase = "map",
         \/ \E v \in V : Loop(v)
         \/ \E it \in Items : ReadIn(it) \/ Break(it) \/ ReadOut(it)
  PROVE  BFSInv(k)'
<1>1. /\ CallInv /\ Mapping /\ st \in [Items -> {"todo", "upd", "chk", "done"}]
      /\ Seen /\ ShouldOutput /\ \A it \in Items : Dst(it) \in V
      /\ \A it \in Items : mode # "dense" => Src(it) \in Members(vs)
  BY ItemFacts DEF BFSInv, CallInv, Working, Searching
<1>2. \A v : Unvisited(v) \in BOOLEAN
  BY DEF Unvisited
<1>3. \A v \in V : ~Unvisited(v) => v \in Visited
  BY DEF Visited
<1>4. ASSUME NEW v \in V, Loop(v) PROVE BFSInv(k)'
  <2>1. /\ DenseVertex(v, Unvisited(v)) /\ UNCHANGED <<Parents, res>> /\ mode = "dense"
        /\ st' = [it \in Items |-> IF it[1] = v /\ ~Unvisited(v) THEN "done" ELSE st[it]]
    BY <1>4 DEF Loop, DenseVertex
  <2>2. Mapped /\ CallInv' /\ \A w \in V : Found(w)' = Found(w)
    BY <1>1, <1>2, <2>1, DenseVertexStep
  <2>3. \A x \in Items : x[1] = v => Dst(x) = v
    BY <2>1 DEF Dst
  <2>4. \A x \in Items : st'[x] = st[x] \/ (st'[x] # "upd" /\ Dst(x) \in Visited)
    BY <1>3, <2>1, <2>3
  <2> QED BY <2>1, <2>2, <2>4, ScanKeepsBFSInv
<1>5. ASSUME NEW it \in Items, ReadIn(it) PROVE BFSInv(k)'
  <2>1. /\ InNgh(it) /\ UNCHANGED <<Parents, res>> /\ mode = "dense"
        /\ \/ IsIn(vs, Src(it)) /\ st' = [st EXCEPT ![it] = "upd"]
           \/ ~IsIn(vs, Src(it)) /\ \E a \in {"chk", "done"} : st' = [st EXCEPT ![it] = a]
    BY <1>5 DEF ReadIn, InNgh, Ready
  <2>2. Mapped /\ CallInv' /\ \A w \in V : Found(w)' = Found(w)
    BY <1>1, <2>1, InNghStep
  <2>3. Src(it) \in V
    BY <2>1, ItemFacts DEF BFSInv, Edges
  <2>4. IsIn(vs, Src(it)) <=> Src(it) \in Members(vs)
    BY <1>1, <2>1, <2>3 DEF Mapping, IsSparse, Trues, IsIn
  <2>5. \A x \in Items : \/ st'[x] = st[x]
                         \/ st'[x] = "upd" /\ Src(x) \in Members(vs)
                         \/ st'[x] # "upd" /\ Src(x) \notin Members(vs)
    BY <1>1, <2>1, <2>4
  <2> QED BY <2>1, <2>2, <2>5, ScanKeepsBFSInv
<1>6. ASSUME NEW it \in Items, Break(it) PROVE BFSInv(k)'
  <2>1. /\ BreakEarly(it, Unvisited(Dst(it))) /\ UNCHANGED <<Parents, res>> /\ st[it] = "chk"
        /\ st' = [x \in Items |-> IF x = it \/ (~Unvisited(Dst(it)) /\ x[1] = it[1]) THEN "done" ELSE st[x]]
    BY <1>6 DEF Break, BreakEarly
  <2>2. Mapped /\ CallInv' /\ \A w \in V : Found(w)' = Found(w)
    BY <1>1, <1>2, <2>1, BreakEarlyStep
  <2>3. mode = "dense"
    BY <1>1, <2>1 DEF CallInv, Working
  <2>4. \A x \in Items : x[1] = it[1] => Dst(x) = Dst(it)
    BY <2>3 DEF Dst
  <2>5. Src(it) \in Members(vs) => Dst(it) \in Visited
    BY <1>1, <2>1 DEF Seen
  <2>6. ASSUME NEW x \in Items
        PROVE  \/ st'[x] = st[x]
               \/ st'[x] # "upd" /\ Src(x) \notin Members(vs)
               \/ st'[x] # "upd" /\ Dst(x) \in Visited
    BY <1>1, <1>3, <2>1, <2>4, <2>5
  <2> QED BY <2>1, <2>2, <2>6, ScanKeepsBFSInv
<1>7. ASSUME NEW it \in Items, ReadOut(it) PROVE BFSInv(k)'
  <2>1. /\ OutNgh(it, Unvisited(Dst(it))) /\ UNCHANGED <<Parents, res>> /\ mode # "dense"
        /\ st' = [st EXCEPT ![it] = IF Unvisited(Dst(it)) THEN "upd" ELSE "done"]
    BY <1>7 DEF ReadOut, OutNgh
  <2>2. Mapped /\ CallInv' /\ \A w \in V : Found(w)' = Found(w)
    BY <1>1, <1>2, <2>1, OutNghStep
  <2>3. \A x \in Items : \/ st'[x] = st[x]
                         \/ st'[x] = "upd" /\ Src(x) \in Members(vs)
                         \/ st'[x] # "upd" /\ Dst(x) \in Visited
    BY <1>1, <1>3, <2>1
  <2> QED BY <2>1, <2>2, <2>3, ScanKeepsBFSInv
<1> QED BY <1>4, <1>5, <1>6, <1>7

\* An update whose CAS fails finds its target visited; one whose CAS succeeds visits a
\* vertex of the next level, and is the only one that does.
LEMMA UpdateKeepsBFSInv ==
  ASSUME StartInGraph, NEW k, BFSInv(k), NEW it \in Items, Update(it)
  PROVE  BFSInv(k)'
<1> DEFINE d == Dst(it)
           s == Src(it)
<1>1. /\ phase = "map" /\ st[it] = "upd" /\ Updated(it, Unvisited(d)) /\ res' = res
      /\ Parents' = IF Unvisited(d) THEN [Parents EXCEPT ![d] = s] ELSE Parents
      /\ CallInv /\ ShouldOutput
  BY ItemFacts DEF Update, Updated, BFSInv
<1>2. /\ d \in V /\ s \in V /\ <<s, d>> \in Edges
      /\ st \in [Items -> {"todo", "upd", "chk", "done"}]
  BY <1>1, ItemFacts DEF BFSInv, CallInv, Working, Edges
<1>3. /\ Parents \in [V -> V \cup {UINT_E_MAX}] /\ UINT_E_MAX \notin V
      /\ Members(vs) = Level(k) /\ k \in 0 .. n - 1 /\ n \in Nat
      /\ Ball[k] \subseteq Visited /\ Visited \subseteq Ball[k + 1] /\ NewAreFound(k) /\ Seen
  BY <1>1, VertexSet, EdgeMapAssumption DEF BFSInv, Started, Searching
<1>4. s \in Level(k)
  BY <1>1, <1>3 DEF Seen
<1>5. Mapped /\ CallInv' /\ Adds(it, Unvisited(d))
  <2>1. Unvisited(d) \in BOOLEAN
    BY DEF Unvisited
  <2> QED BY <1>1, <2>1, UpdatedStep
<1>6. st'[it] \in {"chk", "done"} /\ \A x \in Items : x # it => st'[x] = st[x]
  BY <1>1, <1>2 DEF Updated
<1>7. CASE ~Unvisited(d)
  <2>1. Parents' = Parents /\ d \in Visited /\ \A v \in V : Found(v)' = Found(v)
    BY <1>1, <1>2, <1>5, <1>7 DEF Visited, Adds
  <2>2. \A x \in Items : st'[x] = st[x] \/ (st'[x] # "upd" /\ Dst(x) \in Visited)
    BY <1>6, <2>1
  <2> QED BY <1>1, <1>5, <2>1, <2>2, ScanKeepsBFSInv
<1>8. CASE Unvisited(d)
  <2>1. /\ Items' = Items /\ Members(vs)' = Members(vs) /\ phase' = "map"
        /\ \A x : Src(x)' = Src(x) /\ Dst(x)' = Dst(x)
        /\ fl' = fl /\ mode' = mode
    BY <1>5, MappedFrame DEF Mapped
  <2>2. /\ Parents' \in [V -> V \cup {UINT_E_MAX}] /\ Parents'[d] = s
        /\ \A v \in V : v # d => Parents'[v] = Parents[v]
    BY <1>1, <1>2, <1>3, <1>8
  <2>3. d \notin Visited /\ Visited' = Visited \cup {d}
    <3>1. Visited = {v \in V : Parents[v] # UINT_E_MAX} /\ Visited' = {v \in V : Parents'[v] # UINT_E_MAX}
      BY DEF Visited, Unvisited
    <3>2. Parents[d] = UINT_E_MAX /\ Parents'[d] # UINT_E_MAX
      BY <1>2, <1>3, <1>8, <2>2 DEF Unvisited
    <3> QED BY <1>2, <2>2, <3>1, <3>2
  <2>4. /\ d \in Ball[k + 1] /\ d \notin Ball[k] /\ d \in Level(k + 1)
    <3>1. /\ Level(k + 1) = Ball[k + 1] \ Ball[k]
          /\ \A e \in Edges : e[1] \in Level(k) => e[2] \in Ball[k + 1]
      BY <1>3, LevelFacts
    <3>2. d \in Ball[k + 1]
      BY <1>2, <1>4, <3>1
    <3> QED BY <1>3, <2>3, <3>1, <3>2
  <2>5. NewAreFound(k)'
    <3> SUFFICES ASSUME NEW v \in V
                 PROVE  IF v \in Visited' \ Ball[k] THEN \E x \in Found(v)' : Found(v)' = {x}
                                                    ELSE Found(v)' = {}
      BY DEF NewAreFound
    <3>1. CASE v = d
      <4>1. Found(v) = {}
        BY <1>2, <1>3, <2>3, <3>1 DEF NewAreFound
      <4>2. \E x : Found(v)' = Found(v) \cup {x}
        BY <1>5, <1>8, <3>1 DEF Adds
      <4>3. v \in Visited' \ Ball[k]
        BY <2>3, <2>4, <3>1
      <4> QED BY <4>1, <4>2, <4>3
    <3>2. CASE v # d
      <4>1. Found(v)' = Found(v)
        BY <1>5, <3>2 DEF Adds
      <4> QED BY <1>3, <2>3, <3>2, <4>1 DEF NewAreFound
    <3> QED BY <3>1, <3>2
  <2>6. Seen'
    <3>1. \A x \in Items : /\ st'[x] = "upd" => Src(x) \in Members(vs)
                           /\ st'[x] \in {"chk", "done"} /\ Src(x) \in Members(vs) => Dst(x) \in Visited'
      BY <1>3, <1>6, <2>3 DEF Seen
    <3> QED BY <2>1, <3>1 DEF Seen
  <2>7. Searching(k)' /\ Returned(k)'
    BY <1>3, <2>1, <2>3, <2>4, <2>5, <2>6 DEF Searching, Returned
  <2>8. Started(k)' /\ Growing(k)' /\ Plain'
    <3>1. k \in 0 .. n /\ k < n
      BY <1>3
    <3>2. Started(k)'
      BY <1>3, <2>1, <2>2, <3>1 DEF Started
    <3> QED BY <1>1, <2>1, <3>2 DEF BFSInv, Growing, Plain
  <2>9. ParentsAreShortest'
    <3> SUFFICES ASSUME NEW v \in Visited' \ {start}
                 PROVE  /\ <<Parents'[v], v>> \in Edges
                        /\ \E j \in 1 .. n : v \in Level(j) /\ Parents'[v] \in Level(j - 1)
      BY DEF ParentsAreShortest
    <3>1. CASE v = d
      <4>1. k + 1 \in 1 .. n /\ (k + 1) - 1 = k
        BY <1>3
      <4> QED BY <1>2, <1>4, <2>2, <2>4, <3>1, <4>1
    <3>2. CASE v # d
      <4>1. v \in Visited \ {start} /\ v \in V /\ Parents'[v] = Parents[v]
        BY <2>2, <2>3, <3>2 DEF Visited
      <4> QED BY <4>1 DEF BFSInv, ParentsAreShortest
    <3> QED BY <3>1, <3>2
  <2>10. WellShaped(res)'
    BY <1>1 DEF BFSInv, WellShaped, Agrees
  <2> QED BY <1>5, <2>7, <2>8, <2>9, <2>10 DEF BFSInv
<1> QED BY <1>7, <1>8

-----------------------------------------------------------------------------
\* The inductive invariant: some level is being searched.
Searches == \E k \in 0 .. n : BFSInv(k)

LEMMA NextKeepsSearches ==
  ASSUME StartInGraph, NullIsNoArray, Searches, [Next]_vars
  PROVE  Searches'
<1>1. PICK k \in 0 .. n : BFSInv(k)
  BY DEF Searches
<1>2. CASE UNCHANGED vars
  <2>1. UNCHANGED <<fl, vs, phase, mode, begun, st, outEdges, cts, next, res>> /\ Parents' = Parents
    BY <1>2 DEF vars, emVars
  <2>2. CASE phase = "map"
    <3>1. Mapped /\ CallInv /\ Working
      BY <1>1, <2>1, <2>2 DEF Mapped, BFSInv, CallInv
    <3>2. CallInv' /\ \A v : Found(v)' = Found(v)
      BY <2>1, <2>2, <3>1, QuietStep DEF Working
    <3>3. BFSInv(k)'
      BY <1>1, <2>1, <3>1, <3>2, ScanKeepsBFSInv
    <3> QED BY <3>3 DEF Searches
  <2>3. CASE phase # "map"
    <3>1. CallInv' /\ WellShaped(res)' /\ Plain'
      BY <1>1, <2>1, <2>3 DEF BFSInv, CallInv, Mapping, Working, Output, WellShaped, Agrees, Plain
    <3>2. Members(vs)' = Members(vs) /\ Members(res)' = Members(res) /\ Visited' = Visited
      BY <2>1 DEF Members, Visited, Unvisited
    <3>3. Started(k)' /\ Growing(k)' /\ Searching(k)' /\ Returned(k)' /\ ParentsAreShortest'
      BY <1>1, <2>1, <2>3, <3>2
         DEF BFSInv, Started, Growing, Searching, Returned, ParentsAreShortest
    <3>4. BFSInv(k)'
      BY <3>1, <3>3 DEF BFSInv
    <3> QED BY <3>4 DEF Searches
  <2> QED BY <2>2, <2>3
<1>3. CASE Next
  <2>1. CASE NextRound
    <3>1. k + 1 \in 0 .. n /\ BFSInv(k + 1)'
      BY <1>1, <2>1, NextRoundKeepsBFSInv
    <3> QED BY <3>1 DEF Searches
  <2>2. CASE Enter \/ Leave
    <3>1. BFSInv(k)'
      BY <1>1, <1>3, <2>2, EnterKeepsBFSInv, LeaveKeepsBFSInv DEF Next
    <3> QED BY <3>1 DEF Searches
  <2>3. CASE phase = "map" /\ \E v \in V : Loop(v)
    <3>1. BFSInv(k)'
      BY <1>1, <2>3, LoopsKeepBFSInv
    <3> QED BY <3>1 DEF Searches
  <2>4. ASSUME phase = "map", NEW it \in Items, ReadIn(it) \/ Break(it) \/ ReadOut(it) \/ Update(it)
        PROVE  Searches'
    <3>1. BFSInv(k)'
      BY <1>1, <2>4, LoopsKeepBFSInv, UpdateKeepsBFSInv
    <3> QED BY <3>1 DEF Searches
  <2> QED BY <1>3, <2>1, <2>2, <2>3, <2>4 DEF Next
<1> QED BY <1>2, <1>3

LEMMA SearchesInvariant ==
  ASSUME StartInGraph, NullIsNoArray
  PROVE  Init /\ [][Next]_vars => []Searches
<1>1. Init => Searches
  <2>1. Init => BFSInv(0) /\ 0 \in 0 .. n
    BY InitBFSInv, VertexSet
  <2> QED BY <2>1 DEF Searches
<1>2. Searches /\ [Next]_vars => Searches'
  BY NextKeepsSearches
<1> QED BY <1>1, <1>2, PTL

LEMMA SearchesSuffice == Searches => ParentsAreShortest /\ FrontierIsLevel
  BY DEF Searches, BFSInv, Started, FrontierIsLevel

\* On every graph, whatever the interleaving and the traversals chosen, the parent of a
\* visited vertex is a neighbour of it one level closer to the start: the CAS that visits
\* a vertex is made for an edge out of the frontier, and the frontier is one level.
THEOREM ParentsAreAlwaysShortest ==
  ASSUME StartInGraph, NullIsNoArray
  PROVE  Spec => []ParentsAreShortest
  BY SearchesInvariant, SearchesSuffice, PTL DEF Spec

\* On every graph the frontier between two rounds is exactly one level of the search, each
\* of its vertices once, and no vertex up to it is left unvisited: a cond that answers from
\* a value another worker replaces meanwhile drops no vertex and doubles none.
THEOREM FrontierIsAlwaysLevel ==
  ASSUME StartInGraph, NullIsNoArray
  PROVE  Spec => []FrontierIsLevel
  BY SearchesInvariant, SearchesSuffice, PTL DEF Spec
=============================================================================
