--------------------------- MODULE Callers_proofs ---------------------------
(***************************************************************************)
(* Proofs about two callers of edgeMap, which share nothing but its steps: *)
(* an arbitrary user, and MIS.                                             *)
(***************************************************************************)
EXTENDS EdgeMapUser, MIS, EdgeMap_proofs

-----------------------------------------------------------------------------
(* One call of edgeMap, on every graph, with every flag, threshold and     *)
(* frontier, and whatever the user's functions answer.                     *)
(*                                                                         *)
(* EMInv adds to the invariant of the call (CallInv) that the output holds *)
(* a vertex just as often as its updates have answered TRUE (Counted).     *)
(* DInv adds what is known of the edge of each work item, and PInv what    *)
(* the promise of the call keeps of the edges already taken: with it the   *)
(* call implements EdgeMapSpec.                                            *)

Fresh == phase = "call" => mode = "none" /\ called = {} /\ hits = [v \in V |-> 0]

\* A sparse output has an entry per hit, a dense one the bit of each vertex hit.
Counted ==
  /\ hits \in [V -> Nat]
  /\ phase = "map" /\ ShouldOutput =>
       \A v \in V : IF IsSparse THEN IsFiniteSet(Found(v)) /\ Cardinality(Found(v)) = hits[v]
                    ELSE Found(v) # {} <=> hits[v] > 0

EMInv == /\ CallInv /\ Fresh /\ Counted
         /\ Agrees(res) /\ ResultCountsHits /\ NoUninitializedOutput

-----------------------------------------------------------------------------
LEMMA InitEMInv == UserInit => EMInv
<1> SUFFICES ASSUME UserInit PROVE EMInv
  OBVIOUS
<1>1. PICK S \in Frontiers, c \in Calls : InitCall(S, c[1], c[2])
  BY DEF UserInit
<1>2. WellShaped(S)
  BY FrontiersAssumption DEF WellShaped, IsSubset, Agrees
<1>3. CallInv
  BY <1>1, <1>2 DEF InitCall, CallInv, Mapping, Working, Output
<1>4. Fresh /\ Counted
  BY <1>1 DEF UserInit, InitCall, Fresh, Counted
<1> QED BY <1>1, <1>3, <1>4, EmptySubsetAgrees
        DEF InitCall, EMInv, ResultCountsHits, NoUninitializedOutput

LEMMA EnterKeepsEMInv ==
  ASSUME EMInv, UserEnter
  PROVE  EMInv'
<1>1. /\ CallInv' /\ phase = "call" /\ phase' # "call"
      /\ phase' = "map" /\ ShouldOutput => \A v \in V : Found(v)' = {}
      /\ phase' \in {"map", "crash", "abort"} => res' = res
      /\ phase' = "ret" => res' = EmptySubset /\ mode' = mode
      /\ fl' = fl /\ hits' = hits
  <2>1. CallInv' /\ phase = "call" /\ phase' # "call" /\ fl' = fl /\ hits' = hits
    BY EnterStep DEF EMInv, UserEnter, userVars, EnterCall, CallEmpty, CallDense, CallSparse, CallDies,
                     Starts, Returning
  <2>2. phase' = "ret" => res' = EmptySubset /\ mode' = mode
    BY DEF EMInv, UserEnter, EnterCall, CallEmpty, CallDense, CallSparse, CallDies, Returning
  <2>3. phase' \in {"map", "crash", "abort"} => res' = res
    BY DEF EMInv, UserEnter, EnterCall, CallEmpty, CallDense, CallSparse, CallDies, Returning
  <2> QED BY <2>1, <2>2, <2>3, EnterStep DEF EMInv, UserEnter
<1>2. mode = "none" /\ hits = [v \in V |-> 0] /\ Agrees(res)
  BY <1>1 DEF EMInv, Fresh
<1>3. Counted'
  <2>1. hits' \in [V -> Nat]
    BY <1>1, <1>2
  <2>2. ShouldOutput' = ShouldOutput
    BY <1>1 DEF ShouldOutput
  <2> QED BY <1>1, <1>2, <2>1, <2>2, FS_EmptySet DEF Counted
<1>4. ResultCountsHits'
  <2> SUFFICES ASSUME phase' = "ret", NEW v \in V
               PROVE  /\ Occurrences(EmptySubset, v) = 0
                      /\ hits'[v] = 0
    BY <1>1 DEF ResultCountsHits
  <2>1. {i \in 0 .. 0 - 1 : NULL[i] = v} = {}
    OBVIOUS
  <2> QED BY <1>1, <1>2, <2>1, FS_EmptySet DEF Occurrences, EmptySubset
<1>5. NoUninitializedOutput'
  BY <1>1, <1>2 DEF NoUninitializedOutput
<1>6. Agrees(res')
  BY <1>1, <1>2, EmptySubsetAgrees DEF CallInv, EMInv, UserEnter, EnterCall, CallEmpty, CallDense,
                                       CallSparse, CallDies, Returning
<1> QED BY <1>1, <1>3, <1>4, <1>5, <1>6 DEF EMInv, Fresh, Agrees

LEMMA LeaveKeepsEMInv ==
  ASSUME EMInv, UserLeave
  PROVE  EMInv'
<1>1. CallInv /\ LeaveCall /\ hits' = hits
  BY DEF EMInv, UserLeave, userVars
<1>2. /\ CallInv' /\ phase = "map" /\ phase' = "ret"
      /\ \A it \in Items : st[it] = "done"
      /\ UNCHANGED <<fl, vs, mode, begun, st, outEdges, cts, next>>
  BY <1>1, LeaveStep
<1>3. ASSUME ShouldOutput, NEW v \in V
      PROVE  Occurrences(res', v) =
               IF (IsSparse /\ "remove_duplicates" \notin fl) \/ hits[v] = 0 THEN hits[v] ELSE 1
  <2>1. hits[v] \in Nat
    BY DEF EMInv, Counted
  <2>2. CASE ReturnSparse
    <3>1. PICK l \in Nat : \E arr \in [0 .. l - 1 -> V] :
            /\ res' = OfArray(arr)
            /\ \A x \in V : Count(arr, x) = IF "remove_duplicates" \notin fl \/ Found(x) = {}
                                            THEN Cardinality(Found(x)) ELSE 1
      BY <1>1, <1>3, <2>2, SparseDelivers
    <3>2. PICK arr \in [0 .. l - 1 -> V] :
            /\ res' = OfArray(arr)
            /\ \A x \in V : Count(arr, x) = IF "remove_duplicates" \notin fl \/ Found(x) = {}
                                            THEN Cardinality(Found(x)) ELSE 1
      BY <3>1
    <3>3. ~res'.isDense /\ res'.m = l /\ res'.s = arr
      BY <3>2, OfArrayCounts
    <3>4. Occurrences(res', v) = Count(arr, v)
      BY <3>3 DEF Occurrences, Count, CountAt
    <3>5. IsSparse /\ IsFiniteSet(Found(v)) /\ Cardinality(Found(v)) = hits[v]
      BY <1>2, <1>3, <2>2 DEF EMInv, Counted, ReturnSparse
    <3>6. Found(v) = {} <=> hits[v] = 0
      BY <3>5, FS_EmptySet
    <3> QED BY <3>2, <3>4, <3>5, <3>6
  <2>3. CASE ReturnDense
    <3>1. PICK bits \in [V -> BOOLEAN] :
            res' = OfBits(bits) /\ \A x \in V : bits[x] <=> Found(x) # {}
      BY <1>1, <1>3, <2>3, DenseDelivers
    <3>2. ~IsSparse
      BY <2>3 DEF ReturnDense, IsSparse
    <3>3. Found(v) # {} <=> hits[v] > 0
      BY <1>2, <1>3, <3>2 DEF EMInv, Counted
    <3>4. Occurrences(res', v) = IF bits[v] THEN 1 ELSE 0
      BY <3>1 DEF Occurrences, OfBits
    <3> QED BY <2>1, <3>1, <3>2, <3>3, <3>4
  <2> QED BY <1>1, <2>2, <2>3 DEF LeaveCall
<1>4. ResultCountsHits'
  BY <1>1, <1>2, <1>3 DEF ResultCountsHits, ShouldOutput, IsSparse
<1>5. NoUninitializedOutput'
  <2> SUFFICES ASSUME ShouldOutput, mode = "sparse" PROVE \A i \in DOMAIN outEdges : outEdges[i] # UNINIT
    BY <1>2 DEF NoUninitializedOutput, ShouldOutput
  <2>1. Filled /\ SparseCall
    BY <1>1, <1>2, ItemVertices DEF CallInv, Output, IsSparse
  <2> QED BY <1>2, <2>1, PlacesAreSlots DEF Filled
<1>6. Agrees(res')
  <2>1. \A bits : Agrees(OfBits(bits))
    BY DEF Agrees, OfBits
  <2>2. \A arr : Agrees(OfArray(arr))
    BY DEF Agrees, OfArray, OfIndices
  <2> QED BY <2>1, <2>2, EmptySubsetAgrees DEF UserLeave, LeaveCall, ReturnDense, ReturnSparse, Returning
<1> QED BY <1>1, <1>2, <1>4, <1>5, <1>6 DEF EMInv, Fresh, Counted, Agrees

\* A step of the traversal keeps the count if it keeps the output.
LEMMA CountedStays ==
  ASSUME EMInv, Mapped, CallInv', res' = res, hits' = hits,
         ShouldOutput => \A v \in V : Found(v)' = Found(v)
  PROVE  EMInv'
<1>1. ShouldOutput' = ShouldOutput /\ IsSparse' = IsSparse
  BY MappedFrame
<1>2. Counted /\ phase = "map"
  BY DEF EMInv, Mapped
<1>3. ASSUME ShouldOutput, NEW v \in V
      PROVE  IF IsSparse THEN IsFiniteSet(Found(v)') /\ Cardinality(Found(v)') = hits'[v]
             ELSE Found(v)' # {} <=> hits'[v] > 0
  <2>1. Found(v)' = Found(v)
    BY <1>3
  <2> QED BY <1>2, <1>3, <2>1 DEF Counted
<1>4. Counted'
  BY <1>1, <1>2, <1>3 DEF Counted
<1> QED BY <1>4 DEF EMInv, Mapped, Fresh, ResultCountsHits, NoUninitializedOutput, Agrees

LEMMA UpdateKeepsEMInv ==
  ASSUME EMInv, NEW it \in Items, NEW r \in BOOLEAN, Update(it, r)
  PROVE  EMInv'
<1>1. /\ Mapped /\ CallInv' /\ (ShouldOutput => Adds(it, r)) /\ res' = res
      /\ hits' = IF r THEN [hits EXCEPT ![Dst(it)] = @ + 1] ELSE hits
  BY UpdatedStep DEF EMInv, Update, Updated
<1>2. ShouldOutput' = ShouldOutput /\ IsSparse' = IsSparse /\ phase = "map"
  BY <1>1, MappedFrame DEF Mapped
<1>3. hits \in [V -> Nat] /\ hits' \in [V -> Nat]
  <2>1. hits \in [V -> Nat]
    BY DEF EMInv, Counted
  <2>2. Dst(it) \in V
    BY <1>2, ItemVertices DEF EMInv, CallInv
  <2>3. CASE r
    <3>1. hits' = [hits EXCEPT ![Dst(it)] = hits[Dst(it)] + 1] /\ hits[Dst(it)] + 1 \in Nat
      BY <1>1, <2>1, <2>2, <2>3
    <3> QED BY <2>1, <3>1
  <2> QED BY <1>1, <2>1, <2>3
<1>4. ASSUME ShouldOutput, NEW v \in V
      PROVE  IF IsSparse THEN IsFiniteSet(Found(v)') /\ Cardinality(Found(v)') = hits'[v]
             ELSE Found(v)' # {} <=> hits'[v] > 0
  <2>1. IF IsSparse THEN IsFiniteSet(Found(v)) /\ Cardinality(Found(v)) = hits[v]
        ELSE Found(v) # {} <=> hits[v] > 0
    BY <1>2, <1>4 DEF EMInv, Counted
  <2>2. CASE r /\ v = Dst(it)
    <3>1. PICK x : Found(v)' = Found(v) \cup {x} /\ (IsSparse => x \notin Found(v))
      BY <1>1, <1>4, <2>2 DEF Adds
    <3>2. hits'[v] = hits[v] + 1 /\ hits[v] \in Nat
      BY <1>1, <1>3, <2>2
    <3> QED BY <2>1, <3>1, <3>2, FS_AddElement
  <2>3. CASE ~(r /\ v = Dst(it))
    <3>1. Found(v)' = Found(v)
      BY <1>1, <1>4, <2>3 DEF Adds
    <3>2. hits'[v] = hits[v]
      BY <1>1, <1>3, <2>3
    <3> QED BY <2>1, <3>1, <3>2
  <2> QED BY <2>2, <2>3
<1>5. Counted'
  BY <1>2, <1>3, <1>4 DEF Counted
<1> QED BY <1>1, <1>5 DEF EMInv, Mapped, Fresh, ResultCountsHits, NoUninitializedOutput, Agrees

LEMMA StepKeepsEMInv ==
  ASSUME EMInv, phase = "map",
         \/ \E v \in V : UserLoop(v)
         \/ \E it \in Items : \/ UserReadIn(it) \/ UserBreak(it) \/ UserReadOut(it)
                             \/ \E r \in BOOLEAN : Update(it, r)
  PROVE  EMInv'
<1>1. CallInv
  BY DEF EMInv
<1>2. ASSUME NEW v \in V, UserLoop(v) PROVE EMInv'
  <2>1. (v \in open) \in BOOLEAN /\ DenseVertex(v, v \in open) /\ res' = res /\ hits' = hits
    BY <1>2 DEF UserLoop, userVars, DenseVertex
  <2>2. Mapped /\ CallInv' /\ (ShouldOutput => \A w \in V : Found(w)' = Found(w))
    BY <1>1, <2>1, DenseVertexStep
  <2> QED BY <2>1, <2>2, CountedStays
<1>3. ASSUME NEW it \in Items, UserReadIn(it) PROVE EMInv'
  <2>1. InNgh(it) /\ res' = res /\ hits' = hits
    BY <1>3 DEF UserReadIn, userVars, InNgh
  <2>2. Mapped /\ CallInv' /\ (ShouldOutput => \A w \in V : Found(w)' = Found(w))
    BY <1>1, <2>1, InNghStep
  <2> QED BY <2>1, <2>2, CountedStays
<1>4. ASSUME NEW it \in Items, UserBreak(it) PROVE EMInv'
  <2>1. (Dst(it) \in open) \in BOOLEAN /\ BreakEarly(it, Dst(it) \in open) /\ res' = res /\ hits' = hits
    BY <1>4 DEF UserBreak, userVars, BreakEarly
  <2>2. Mapped /\ CallInv' /\ (ShouldOutput => \A w \in V : Found(w)' = Found(w))
    BY <1>1, <2>1, BreakEarlyStep
  <2> QED BY <2>1, <2>2, CountedStays
<1>5. ASSUME NEW it \in Items, UserReadOut(it) PROVE EMInv'
  <2>1. OutNgh(it, Dst(it) \in open) /\ hits' = hits
    BY <1>5 DEF UserReadOut, userVars
  <2>3. res' = res
    BY <2>1 DEF OutNgh
  <2>2. Mapped /\ CallInv' /\ (ShouldOutput => \A w \in V : Found(w)' = Found(w))
    <3>1. CASE Dst(it) \in open
      <4>1. OutNgh(it, TRUE)
        BY <2>1, <3>1 DEF OutNgh
      <4> QED BY <1>1, <4>1, OutNghStep
    <3>2. CASE Dst(it) \notin open
      <4>1. OutNgh(it, FALSE)
        BY <2>1, <3>2 DEF OutNgh
      <4> QED BY <1>1, <4>1, OutNghStep
    <3> QED BY <3>1, <3>2
  <2> QED BY <2>1, <2>2, <2>3, CountedStays
<1> QED BY <1>2, <1>3, <1>4, <1>5, UpdateKeepsEMInv

LEMMA NextKeepsEMInv == EMInv /\ [UserNext]_callVars => EMInv'
<1> SUFFICES ASSUME EMInv, [UserNext]_callVars PROVE EMInv'
  OBVIOUS
<1>1. CASE UNCHANGED callVars
  <2>1. UNCHANGED <<fl, vs, phase, mode, begun, st, outEdges, cts, next, res, called, hits>>
    BY <1>1 DEF callVars, emVars, userVars
  <2>2. CASE phase = "map"
    <3>1. Mapped
      BY <2>1, <2>2 DEF Mapped
    <3>2. Working
      BY DEF EMInv, CallInv
    <3>3. CallInv' /\ \A v : Found(v)' = Found(v)
      BY <2>1, <2>2, <3>1, <3>2, QuietStep DEF EMInv, Working
    <3> QED BY <2>1, <3>1, <3>3, CountedStays
  <2>3. CASE phase # "map"
    <3>1. CallInv' /\ Counted'
      BY <2>1, <2>3 DEF EMInv, CallInv, Counted, Mapping, Working, Output, WellShaped, Agrees
    <3>2. ResultCountsHits' /\ NoUninitializedOutput' /\ Agrees(res')
      BY <2>1 DEF EMInv, ResultCountsHits, NoUninitializedOutput, ShouldOutput, IsSparse
    <3> QED BY <2>1, <3>1, <3>2 DEF EMInv, Fresh, Agrees
  <2> QED BY <2>2, <2>3
<1> QED BY <1>1, EnterKeepsEMInv, LeaveKeepsEMInv, StepKeepsEMInv DEF UserNext

LEMMA EMInvariant == UserSpec => []EMInv
<1> QED BY InitEMInv, NextKeepsEMInv, PTL DEF UserSpec

-----------------------------------------------------------------------------
\* Two items of one sequential loop are not both in their update or its break test.
LEMMA OrderedIsExclusive == EMInv => PlainUpdateIsExclusive
<1> SUFFICES ASSUME EMInv, phase = "map", mode = "dense",
                    NEW x \in Items, NEW y \in Items, x # y,
                    st[x] \in {"upd", "chk"}, st[y] \in {"upd", "chk"}, Dst(x) = Dst(y),
                    ~RunsParallel(x[1])
             PROVE  FALSE
  BY DEF PlainUpdateIsExclusive
<1>1. x[1] = y[1]
  BY DEF Dst
<1>2. /\ x[2] \in 0 .. m - 1 /\ y[2] \in 0 .. m - 1
      /\ x = <<x[1], x[2]>> /\ y = <<y[1], y[2]>>
  BY DEF Items, ItemsOf
<1>3. x[2] < y[2] \/ y[2] < x[2]
  BY <1>1, <1>2, VertexSet
<1>4. x \in Before(y) \/ y \in Before(x)
  BY <1>1, <1>3 DEF Before
<1> QED BY <1>4 DEF EMInv, CallInv, Working

\* The update without atomics that decodeInNghBreakEarly calls never runs in two
\* workers for one destination, on any graph and whatever cond and update answer.
THEOREM PlainUpdateIsExclusiveAlways == UserSpec => []PlainUpdateIsExclusive
<1> QED BY EMInvariant, OrderedIsExclusive, PTL

\* toSparse never aborts on its stored m, and the two representations of the frontier
\* and of the result never disagree.
THEOREM RepresentationsAlwaysAgree == UserSpec => []RepresentationsAgree
<1>1. EMInv => RepresentationsAgree
  BY DEF EMInv, CallInv, WellShaped, RepresentationsAgree
<1> QED BY <1>1, EMInvariant, PTL

\* No hit is lost, overwritten or invented: the array of the sparse traversals has room
\* for each edge out of the frontier, no two workers share an entry of it, the blocks of
\* sparse_no_filter stay apart while each packs what it finds, the filter drops empty
\* entries alone and remDuplicates all but one.
THEOREM ResultAlwaysCountsHits == UserSpec => []ResultCountsHits
<1>1. EMInv => ResultCountsHits
  BY DEF EMInv
<1> QED BY <1>1, EMInvariant, PTL

\* The array malloc'ed for the sparse traversal is written everywhere before filterf
\* reads it.
THEOREM OutputIsAlwaysWritten == UserSpec => []NoUninitializedOutput
<1>1. EMInv => NoUninitializedOutput
  BY DEF EMInv
<1> QED BY <1>1, EMInvariant, PTL

-----------------------------------------------------------------------------
(* Every edge out of the frontier is delivered.  An item that is done has  *)
(* had its update, or cond fails for its target (and stays false), or, in  *)
(* the dense traversal, its source is not in the frontier; and every edge  *)
(* has an item, in the dense traversal because the in-edges mirror the     *)
(* out-edges.                                                              *)

Reached(it) == \/ <<Src(it), Dst(it)>> \in called
               \/ Dst(it) \notin open
               \/ mode = "dense" /\ Src(it) \notin Members(vs)

Taken ==
  phase = "map" /\ Faithful =>
    \A it \in Items : /\ st[it] \in {"chk", "done"} => Reached(it)
                      /\ st[it] = "upd" => Src(it) \in Members(vs)
                      /\ st[it] = "chk" => mode = "dense"

\* update is called along edges out of the frontier alone.
CalledEdges == Faithful => \A e \in called : e \in Edges /\ e[1] \in Members(vs)

DInv == EMInv /\ Taken /\ CalledEdges /\ FrontierIsDelivered

LEMMA InitDInv == UserInit => DInv
<1> SUFFICES ASSUME UserInit PROVE DInv
  OBVIOUS
<1>1. phase = "call" /\ mode = "none" /\ called = {}
  BY DEF UserInit, InitCall
<1> QED BY <1>1, InitEMInv DEF DInv, Taken, CalledEdges, FrontierIsDelivered

LEMMA EnterKeepsDInv ==
  ASSUME DInv, UserEnter
  PROVE  DInv'
<1>1. /\ EMInv' /\ CallInv /\ EnterCall /\ called' = called /\ open' = open
      /\ called = {} /\ phase = "call"
  BY EnterKeepsEMInv DEF DInv, EMInv, Fresh, UserEnter, userVars, EnterCall, CallEmpty, CallDense,
                         Starts, CallSparse, CallDies
<1>2. Members(vs)' = Members(vs)
  BY <1>1, EnterStep
<1>3. CalledEdges'
  BY <1>1 DEF CalledEdges
<1>4. Taken'
  <2>1. phase' = "map" => st' = [it \in Items' |-> "todo"]
    BY <1>1 DEF EnterCall, CallEmpty, CallDense, CallSparse, CallDies, Items, Returning
  <2> QED BY <2>1 DEF Taken
<1>5. FrontierIsDelivered'
  <2> SUFFICES ASSUME phase' = "ret"
               PROVE  \A e \in Edges : e[1] \notin Members(vs)
    BY <1>1, <1>2 DEF FrontierIsDelivered
  <2>1. CallEmpty
    BY <1>1 DEF EnterCall, CallDense, CallSparse, CallDies
  <2> QED BY <1>1, <2>1, EmptyCall DEF CallInv
<1> QED BY <1>1, <1>3, <1>4, <1>5 DEF DInv

LEMMA LeaveKeepsDInv ==
  ASSUME DInv, UserLeave
  PROVE  DInv'
<1>1. /\ EMInv' /\ CallInv /\ LeaveCall /\ called' = called /\ open' = open
  BY LeaveKeepsEMInv DEF DInv, EMInv, UserLeave, userVars
<1>2. /\ phase = "map" /\ phase' = "ret" /\ \A it \in Items : st[it] = "done"
      /\ vs' = vs /\ mode' = mode /\ fl' = fl
  BY <1>1, LeaveStep
<1>3. Members(vs)' = Members(vs)
  BY <1>2, CallFrame
<1>4. CalledEdges'
  BY <1>1, <1>2, <1>3 DEF DInv, CalledEdges, Faithful
<1>5. ASSUME Faithful, NEW e \in Edges, e[1] \in Members(vs)
      PROVE  e \in called \/ e[2] \notin open
  <2>1. PICK it \in Items : Src(it) = e[1] /\ Dst(it) = e[2]
    BY <1>1, <1>2, <1>5, EdgesHaveItems DEF CallInv
  <2>2. Reached(it)
    BY <1>2, <1>5 DEF DInv, Taken
  <2>3. e = <<e[1], e[2]>>
    BY DEF Edges
  <2> QED BY <1>5, <2>1, <2>2, <2>3 DEF Reached
<1>6. FrontierIsDelivered'
  BY <1>1, <1>2, <1>3, <1>4, <1>5 DEF FrontierIsDelivered, CalledEdges, Faithful
<1> QED BY <1>1, <1>2, <1>4, <1>6 DEF DInv, Taken

\* A step of the traversal keeps DInv if every item it changes is as Taken says.
LEMMA TraversalKeepsDInv ==
  ASSUME DInv, EMInv', Mapped, open' \subseteq open,
         \/ called' = called
         \/ \E it \in Items : /\ st[it] = "upd"
                              /\ called' = called \cup {<<Src(it), Dst(it)>>},
         Faithful => \A x \in Items :
                       \/ st'[x] = st[x]
                       \/ st'[x] = "upd" /\ Src(x) \in Members(vs)
                       \/ /\ st'[x] = "done" \/ (st'[x] = "chk" /\ mode = "dense")
                          /\ Reached(x)'
  PROVE  DInv'
<1>1. /\ Items' = Items /\ Members(vs)' = Members(vs)
      /\ \A it : Src(it)' = Src(it) /\ Dst(it)' = Dst(it)
  BY MappedFrame
<1>2. CallInv
  BY DEF DInv, EMInv
<1>3. called \subseteq called'
  OBVIOUS
<1>4. \A x \in Items : Reached(x) => Reached(x)'
  BY <1>1, <1>3 DEF Reached, Mapped
<1>5. Taken'
  BY <1>1, <1>4 DEF DInv, Taken, Mapped, Faithful
<1>6. ASSUME Faithful, NEW it \in Items, st[it] = "upd"
      PROVE  <<Src(it), Dst(it)>> \in Edges /\ Src(it) \in Members(vs)
  BY <1>2, <1>6, ItemsAreEdges DEF DInv, CallInv, Mapped, Taken
<1>7. CalledEdges'
  BY <1>1, <1>6 DEF DInv, CalledEdges, Mapped, Faithful
<1> QED BY <1>5, <1>7 DEF DInv, Mapped, FrontierIsDelivered

LEMMA StepKeepsDInv ==
  ASSUME DInv, phase = "map",
         \/ \E v \in V : UserLoop(v)
         \/ \E it \in Items : \/ UserReadIn(it) \/ UserBreak(it) \/ UserReadOut(it)
                             \/ \E r \in BOOLEAN : Update(it, r)
  PROVE  DInv'
<1>1. /\ EMInv' /\ CallInv /\ WellShaped(vs) /\ Mapping
      /\ st \in [Items -> {"todo", "upd", "chk", "done"}]
  BY StepKeepsEMInv DEF DInv, EMInv, CallInv, Working
<1>2. ASSUME NEW v \in V, UserLoop(v) PROVE DInv'
  <2>1. /\ Mapped /\ mode = "dense" /\ called' = called /\ open' = open
        /\ st' = [it \in Items |-> IF it[1] = v /\ ~(v \in open) THEN "done" ELSE st[it]]
    BY <1>2 DEF UserLoop, DenseVertex, Mapped, userVars
  <2>2. ASSUME NEW x \in Items, x[1] = v, v \notin open PROVE Reached(x)'
    BY <2>1, <2>2 DEF Reached, Dst, Mapped
  <2> QED BY <1>1, <2>1, <2>2, TraversalKeepsDInv
<1>3. ASSUME NEW it \in Items, UserReadIn(it) PROVE DInv'
  <2>1. /\ Mapped /\ mode = "dense" /\ called' = called /\ open' = open
        /\ \/ st' = [st EXCEPT ![it] = "upd"] /\ IsIn(vs, Src(it))
           \/ /\ ~IsIn(vs, Src(it))
              /\ \E a \in {"chk", "done"} : st' = [st EXCEPT ![it] = a]
    BY <1>3 DEF UserReadIn, InNgh, Mapped, userVars
  <2>2. CASE st' = [st EXCEPT ![it] = "upd"] /\ IsIn(vs, Src(it))
    <3>1. Faithful => Src(it) \in V
      BY <1>1, <1>3, <2>1, ItemsAreEdges DEF Edges, Mapped
    <3>2. Faithful => Src(it) \in Members(vs)
      BY <1>1, <2>1, <2>2, <3>1 DEF Mapping, Mapped, IsSparse, Trues, IsIn
    <3> QED BY <1>1, <2>1, <2>2, <3>2, TraversalKeepsDInv
  <2>3. CASE /\ ~IsIn(vs, Src(it))
             /\ \E a \in {"chk", "done"} : st' = [st EXCEPT ![it] = a]
    <3>1. Src(it) \notin Members(vs)
      BY <1>1, <2>1, <2>3 DEF Mapping, Mapped, IsSparse, Trues, IsIn
    <3>2. Reached(it)'
      BY <2>1, <3>1, MappedFrame DEF Reached, Mapped
    <3> QED BY <1>1, <2>1, <2>3, <3>2, TraversalKeepsDInv
  <2> QED BY <2>1, <2>2, <2>3
<1>4. ASSUME NEW it \in Items, UserBreak(it) PROVE DInv'
  <2>1. st' = [x \in Items |-> IF x = it \/ (Dst(it) \notin open /\ x[1] = it[1])
                               THEN "done" ELSE st[x]]
    BY <1>4 DEF UserBreak, BreakEarly
  <2>2. Mapped /\ called' = called /\ open' = open /\ st[it] = "chk"
    BY <1>4 DEF UserBreak, BreakEarly, Mapped, userVars
  <2>3. Faithful => Reached(it) /\ mode = "dense"
    BY <2>2 DEF DInv, Taken, Mapped
  <2>4. Faithful => \A x \in Items : x = it \/ (Dst(it) \notin open /\ x[1] = it[1]) => Reached(x)'
    <3> SUFFICES ASSUME Faithful, NEW x \in Items,
                        x = it \/ (Dst(it) \notin open /\ x[1] = it[1])
                 PROVE  Reached(x)
      BY <2>2, MappedFrame DEF Reached, Mapped
    <3> QED BY <2>1, <2>3 DEF Reached, Dst
  <2> QED BY <1>1, <2>1, <2>2, <2>4, TraversalKeepsDInv
<1>5. ASSUME NEW it \in Items, UserReadOut(it) PROVE DInv'
  <2>1. /\ Mapped /\ mode # "dense" /\ called' = called /\ open' = open
        /\ \/ st' = [st EXCEPT ![it] = "upd"]
           \/ st' = [st EXCEPT ![it] = "done"] /\ Dst(it) \notin open
    BY <1>5 DEF UserReadOut, OutNgh, Mapped, userVars
  <2>2. Faithful => Src(it) \in Members(vs)
    BY <1>1, <2>1, ItemsAreEdges DEF Mapped
  <2>3. Dst(it) \notin open => Reached(it)'
    BY <2>1, MappedFrame DEF Reached, Mapped
  <2> QED BY <1>1, <2>1, <2>2, <2>3, TraversalKeepsDInv
<1>6. ASSUME NEW it \in Items, NEW r \in BOOLEAN, Update(it, r) PROVE DInv'
  <2>1. /\ Mapped /\ st[it] = "upd"
        /\ called' = called \cup {<<Src(it), Dst(it)>>} /\ open' \subseteq open
        /\ st' = [st EXCEPT ![it] = IF mode = "dense" /\ ~RunsParallel(it[1]) THEN "chk" ELSE "done"]
    BY <1>6 DEF Update, Updated, Mapped
  <2>2. Reached(it)'
    BY <2>1, MappedFrame DEF Reached, Mapped
  <2> QED BY <1>1, <2>1, <2>2, TraversalKeepsDInv
<1> QED BY <1>2, <1>3, <1>4, <1>5, <1>6

LEMMA NextKeepsDInv == DInv /\ [UserNext]_callVars => DInv'
<1> SUFFICES ASSUME DInv, [UserNext]_callVars PROVE DInv'
  OBVIOUS
<1>1. CASE UNCHANGED callVars
  <2>1. UNCHANGED <<fl, vs, phase, mode, st, called, open>>
    BY <1>1 DEF callVars, emVars, userVars
  <2>2. /\ EMInv' /\ Items' = Items /\ Members(vs)' = Members(vs)
        /\ \A it : Src(it)' = Src(it) /\ Dst(it)' = Dst(it)
    BY <2>1, CallFrame, NextKeepsEMInv DEF DInv
  <2>3. Taken'
    BY <2>1, <2>2 DEF DInv, Taken, Reached, Faithful
  <2>4. CalledEdges'
    BY <2>1, <2>2 DEF DInv, CalledEdges, Faithful
  <2>5. FrontierIsDelivered'
    BY <2>1, <2>2 DEF DInv, FrontierIsDelivered
  <2> QED BY <2>2, <2>3, <2>4, <2>5 DEF DInv
<1> QED BY <1>1, EnterKeepsDInv, LeaveKeepsDInv, StepKeepsDInv DEF UserNext

LEMMA DInvariant == UserSpec => []DInv
<1> QED BY InitDInv, NextKeepsDInv, PTL DEF UserSpec

\* A call of edgeMap that returns has delivered the whole frontier, on every graph and
\* in every traversal but decode_nvm's dense-forward one, and has called update along
\* no other edge: the part of EdgeMapSpec's promise that the programs rely on first.
THEOREM FrontierIsAlwaysDelivered == UserSpec => []FrontierIsDelivered
<1>1. DInv => FrontierIsDelivered
  BY DEF DInv
<1> QED BY <1>1, DInvariant, PTL

-----------------------------------------------------------------------------
(* Each step of a call is a step that EdgeMapSpec promises.  The promise   *)
(* takes each edge once, so the lists must name no neighbour twice and the *)
(* arrays of the frontiers no vertex; decode_nvm's dense-forward traversal *)
(* is excepted here too.                                                   *)

NoneTwice(f, k) == \A i, j \in 0 .. k - 1 : f[i] = f[j] => i = j

SimpleLists ==
  \A v \in V : /\ \A i, j \in 0 .. OutDegree(v) - 1 : OutNeighbor(v, i) = OutNeighbor(v, j) => i = j
               /\ \A i, j \in 0 .. InDegree(v) - 1 : InNeighbor(v, i) = InNeighbor(v, j) => i = j

Promisable == /\ SimpleLists
              /\ \A S \in Frontiers : S.s # NULL => NoneTwice(S.s, S.m)
              /\ Nvm => \A c \in Calls : "dense_forward" \notin c[1]

\* What is known of the arguments while the call runs.
Arguments == /\ threshold \in Int
             /\ Nvm => "dense_forward" \notin fl
             /\ Faithful
             /\ phase = "call" /\ vs.s # NULL => NoneTwice(vs.s, vs.m)
             /\ phase = "map" /\ IsSparse => NoneTwice(vs.s, vs.m)

PInv == DInv /\ Arguments

LEMMA InitPInv == Promisable /\ UserInit => PInv
<1> SUFFICES ASSUME Promisable, UserInit PROVE PInv
  OBVIOUS
<1>1. PICK S \in Frontiers, c \in Calls : InitCall(S, c[1], c[2])
  BY DEF UserInit
<1>2. c[2] \in Int
  BY CallsAssumption
<1>3. vs = S /\ fl = c[1] /\ threshold = c[2] /\ phase = "call" /\ mode = "none"
  BY <1>1 DEF InitCall
<1>4. Arguments
  BY <1>2, <1>3 DEF Promisable, Arguments, Faithful
<1> QED BY <1>4, InitDInv DEF PInv

\* pack_index names no vertex twice.
LEMMA PackedOnce ==
  ASSUME WellShaped(vs), vs.s # NULL => NoneTwice(vs.s, vs.m)
  PROVE  NoneTwice(ToSparse(vs).s, vs.m)
<1>1. ~BadM(vs)
  BY ToSparseKeepsMembers
<1>2. CASE PacksBits(vs)
  <2>1. ToSparse(vs).s = PackIndex(vs.d) /\ Cardinality(Trues(vs.d)) = vs.m
    BY <1>1, <1>2 DEF ToSparse, BadM, WellShaped, IsSubset
  <2>2. vs.d \in [V -> BOOLEAN]
    BY <1>2 DEF PacksBits, WellShaped, IsSubset
  <2>3. Trues(vs.d) \in SUBSET Int /\ IsFiniteSet(Trues(vs.d))
    BY <2>2, VertexSet, FS_Subset DEF Trues
  <2>4. \A i, j \in 0 .. vs.m - 1 : Nth(Trues(vs.d), i) = Nth(Trues(vs.d), j) => i = j
    BY <2>1, <2>3, NthIsBijection
  <2> QED BY <2>1, <2>4 DEF NoneTwice, PackIndex
<1>3. CASE ~PacksBits(vs)
  <2>1. ToSparse(vs).s = vs.s
    BY <1>3 DEF ToSparse, WellShaped, IsSubset
  <2>2. CASE vs.m = 0
    BY <2>2 DEF NoneTwice
  <2>3. CASE vs.m # 0
    <3>1. vs.s # NULL
      BY <1>3, <2>3 DEF PacksBits, WellShaped, IsSubset
    <3> QED BY <2>1, <3>1
  <2> QED BY <2>2, <2>3
<1> QED BY <1>2, <1>3

LEMMA NextKeepsPInv == PInv /\ [UserNext]_callVars => PInv'
<1> SUFFICES ASSUME PInv, [UserNext]_callVars PROVE PInv'
  OBVIOUS
<1>1. DInv'
  BY NextKeepsDInv DEF PInv
<1>2. /\ fl' = fl /\ threshold' = threshold
      /\ \/ vs' = vs /\ phase' = phase /\ mode' = mode
         \/ UserEnter
         \/ phase' = "ret" /\ mode' = mode
  BY DEF UserNext, UserEnter, UserLeave, LeaveCall, ReturnDense, ReturnSparse, Returning, UserLoop, DenseVertex, UserReadIn,
         InNgh, UserBreak, BreakEarly, UserReadOut, OutNgh, Update, Updated, EnterCall, CallEmpty, CallDense,
         CallSparse, CallDies, callVars, emVars
<1>3. CASE UserEnter
  <2>1. phase = "call" /\ WellShaped(vs) /\ mode = "none"
    BY <1>3 DEF UserEnter, EnterCall, CallEmpty, CallDense, CallSparse, CallDies, Starts, PInv, DInv,
                EMInv, CallInv, Fresh
  <2>2. NoneTwice(ToSparse(vs).s, vs.m)
    BY <2>1, PackedOnce DEF PInv, Arguments
  <2>3. mode' \in {"none", "dense", "sparse", "nofilter"} \/ (mode' = "forward" /\ "dense_forward" \in fl)
    BY <1>3, <2>1 DEF UserEnter, EnterCall, CallEmpty, CallDense, CallSparse, CallDies, ChosenMode
  <2>4. Faithful'
    BY <1>2, <2>3 DEF PInv, Arguments, Faithful
  <2>5. phase' # "call"
    BY <1>3 DEF UserEnter, EnterCall, CallEmpty, CallDense, CallSparse, CallDies, Returning
  <2>6. phase' = "map" /\ IsSparse' => vs' = ToSparse(vs) /\ vs'.m = vs.m
    <3> SUFFICES ASSUME phase' = "map", IsSparse' PROVE vs' = ToSparse(vs)
      BY <2>1, ToSparseKeepsMembers
    <3>1. CallSparse
      BY <1>3 DEF UserEnter, EnterCall, CallEmpty, CallDense, CallSparse, CallDies, Returning, ChosenMode,
                  IsSparse
    <3> QED BY <3>1 DEF CallSparse
  <2> QED BY <1>1, <1>2, <2>2, <2>4, <2>5, <2>6 DEF PInv, Arguments
<1>4. CASE ~UserEnter
  BY <1>1, <1>2, <1>4 DEF PInv, Arguments, Faithful, IsSparse
<1> QED BY <1>3, <1>4

\* No two items stand for one edge.
LEMMA EdgesOnce ==
  ASSUME PInv, SimpleLists, phase = "map", NEW x \in Items, NEW y \in Items,
         Src(x) = Src(y), Dst(x) = Dst(y)
  PROVE  x = y
<1>1. /\ x[1] \in OwnersOf(vs, mode) /\ y[1] \in OwnersOf(vs, mode)
      /\ x[2] \in 0 .. m - 1 /\ x[2] < DegreeIn(vs, mode, x[1]) /\ x = <<x[1], x[2]>>
      /\ y[2] \in 0 .. m - 1 /\ y[2] < DegreeIn(vs, mode, y[1]) /\ y = <<y[1], y[2]>>
  BY DEF Items, ItemsOf
<1>2. m \in Nat /\ WellShaped(vs) /\ Mapping
  BY VertexSet DEF PInv, DInv, EMInv, CallInv
<1>3. mode \in {"sparse", "nofilter", "dense", "forward"}
  BY <1>2 DEF Mapping
<1>4. \A v \in V : OutDegree(v) \in Nat /\ InDegree(v) \in Nat
  BY DegreeBounds
<1>5. CASE IsSparse
  <2>1. /\ x[1] \in 0 .. vs.m - 1 /\ y[1] \in 0 .. vs.m - 1
        /\ vs.s[x[1]] \in V /\ vs.s[x[1]] = vs.s[y[1]]
    BY <1>1, <1>2, <1>5 DEF OwnersOf, Src, Vertex, IsSparse, Mapping
  <2>2. x[1] = y[1]
    BY <1>5, <2>1 DEF PInv, Arguments, NoneTwice
  <2>3. /\ x[2] < OutDegree(vs.s[x[1]]) /\ y[2] < OutDegree(vs.s[x[1]])
        /\ OutNeighbor(vs.s[x[1]], x[2]) = OutNeighbor(vs.s[x[1]], y[2])
    BY <1>1, <1>5, <2>2 DEF DegreeIn, Dst, Vertex, IsSparse
  <2> QED BY <1>1, <1>2, <1>4, <2>1, <2>2, <2>3 DEF SimpleLists
<1>6. CASE mode = "dense"
  <2>1. /\ x[1] \in V /\ x[1] = y[1]
        /\ x[2] < InDegree(x[1]) /\ y[2] < InDegree(x[1])
        /\ InNeighbor(x[1], x[2]) = InNeighbor(x[1], y[2])
    BY <1>1, <1>6 DEF OwnersOf, DegreeIn, Src, Dst
  <2> QED BY <1>1, <1>2, <1>4, <2>1 DEF SimpleLists
<1>7. CASE mode = "forward"
  <2>1. x[1] \in V /\ x[1] = y[1] /\ x[2] < OutDegree(x[1]) /\ y[2] < OutDegree(x[1])
    BY <1>1, <1>7 DEF OwnersOf, DegreeIn, Src, Vertex, IsSparse
  <2>2. OutNeighbor(x[1], x[2]) = OutNeighbor(x[1], y[2])
    BY <1>7, <2>1 DEF PInv, Arguments, Faithful, Dst, ForwardNeighbor
  <2> QED BY <1>1, <1>2, <1>4, <2>1, <2>2 DEF SimpleLists
<1> QED BY <1>3, <1>5, <1>6, <1>7 DEF IsSparse

-----------------------------------------------------------------------------
\* An item whose edge EdgeMapSpec still has to take.
Pends(it) == st[it] \in {"todo", "upd"} /\ (mode = "dense" => IsIn(vs, Src(it)))

\* Before the first step of a traversal the items stand for the edges out of the frontier.
Fetched == phase = "map" /\ CallInv /\ Faithful /\ st = [it \in Items |-> "todo"]
AllPend == Pending = {e \in Edges : e[1] \in Members(vs)}
LEMMA FetchedAllPend == Fetched => AllPend
<1> SUFFICES ASSUME Fetched PROVE AllPend
  OBVIOUS
<1>1. phase = "map" /\ WellShaped(vs) /\ Mapping /\ Faithful
  BY DEF Fetched, CallInv
<1>2. ASSUME NEW it \in Items
      PROVE  <<Src(it), Dst(it)>> \in Edges /\ (mode # "dense" => Src(it) \in Members(vs))
  BY <1>1, ItemsAreEdges
<1>3. ASSUME NEW it \in Items, Pends(it) PROVE Src(it) \in Members(vs)
  <2>1. CASE mode = "dense"
    <3>1. vs.d[Src(it)] /\ Members(vs) = Trues(vs.d) /\ vs.d \in [V -> BOOLEAN] /\ Src(it) \in V
      BY <1>1, <1>2, <1>3, <2>1 DEF Pends, IsIn, Mapping, IsSparse, Edges
    <3> QED BY <3>1 DEF Trues
  <2> QED BY <1>2, <2>1
<1>4. ASSUME NEW it \in Items, Src(it) \in Members(vs) PROVE Pends(it)
  <2>1. st[it] = "todo"
    BY DEF Fetched
  <2>2. mode = "dense" => IsIn(vs, Src(it))
    BY <1>1, <1>4 DEF Mapping, IsSparse, Trues, IsIn
  <2> QED BY <2>1, <2>2 DEF Pends
<1>5. Pending = {<<Src(it), Dst(it)>> : it \in {it \in Items : Pends(it)}}
  BY <1>1 DEF Pending, Pends
<1>6. ASSUME NEW e \in Edges, e[1] \in Members(vs)
      PROVE  \E it \in Items : Pends(it) /\ e = <<Src(it), Dst(it)>>
  <2>1. PICK it \in Items : Src(it) = e[1] /\ Dst(it) = e[2]
    BY <1>1, <1>6, EdgesHaveItems
  <2>2. e = <<e[1], e[2]>>
    BY DEF Edges
  <2> QED BY <1>4, <1>6, <2>1, <2>2
<1>7. ASSUME NEW it \in Items, Pends(it)
      PROVE  LET e == <<Src(it), Dst(it)>> IN e \in Edges /\ e[1] \in Members(vs)
  BY <1>2, <1>3, <1>7
<1> QED BY <1>5, <1>6, <1>7 DEF AllPend

LEMMA FetchedAllPendNext == Fetched' => AllPend'
<1> QED BY FetchedAllPend, PTL

LEMMA EnterIsPromised ==
  ASSUME PInv, PInv', UserEnter
  PROVE  Promise!Call \/ Promise!CallNothing \/ Promise!Die
<1>1. /\ CallInv /\ CallInv' /\ Faithful' /\ EnterCall /\ phase = "call" /\ threshold \in Int
      /\ called' = called /\ open' = open /\ fl' = fl /\ threshold' = threshold
  BY DEF PInv, DInv, EMInv, Arguments, UserEnter, userVars, EnterCall, CallEmpty, CallDense, Starts,
         CallSparse, CallDies
<1>2. /\ Members(vs)' = Members(vs) /\ ShouldOutput' = ShouldOutput
      /\ DegreesFilled' = DegreesFilled
  BY <1>1, EnterStep DEF ShouldOutput, DegreesFilled, T
<1>3. Pending = {} /\ Gathered = {}
  BY <1>1 DEF Pending, Gathered
<1>4. CASE CallEmpty
  <2>1. phase' = "ret" /\ res' = EmptySubset
    BY <1>4 DEF CallEmpty, Returning
  <2>2. Promise!OutEdges = {}
    BY <1>1, <1>4, EmptyCall DEF CallInv, Promise!OutEdges
  <2>3. Gathered' = {} /\ Pending' = {}
    BY <2>1 DEF Gathered, Pending, EmptySubset, Members, Entries
  <2> QED BY <1>1, <1>2, <1>3, <2>1, <2>2, <2>3 DEF Promise!CallNothing
<1>5. CASE CallDense \/ CallSparse
  <2>1. phase' = "map" /\ st' = [it \in Items' |-> "todo"]
    BY <1>5 DEF CallDense, CallSparse, Items
  <2>2. Fetched'
    BY <1>1, <2>1 DEF Fetched
  <2>3. Pending' = Promise!OutEdges
    BY <1>2, <2>2, FetchedAllPendNext DEF AllPend, Promise!OutEdges
  <2>4. Gathered' = {}
    <3>1. CASE ~ShouldOutput
      BY <1>2, <2>1, <3>1 DEF Gathered
    <3>2. CASE ShouldOutput
      <4>1. \A v \in V : Found(v)' = {}
        BY <1>1, <2>1, <3>2, EnterStep
      <4> QED BY <1>2, <2>1, <3>2, <4>1 DEF Gathered, Found
    <3> QED BY <3>1, <3>2
  <2> QED BY <1>1, <1>2, <1>3, <2>1, <2>3, <2>4 DEF Promise!Call
<1>6. CASE CallDies
  <2>1. ~BadM(vs) /\ vs.m \in Nat
    BY <1>1, ToSparseKeepsMembers DEF CallInv, WellShaped, IsSubset
  <2>2. T <= 0 /\ ~UseDense /\ vs.m > 0 /\ phase' = "crash"
    BY <1>6, <2>1 DEF CallDies
  <2>3. T \in Int
    <3>1. m \in Nat /\ Div \in Nat \ {0}
      BY VertexSet, EdgeMapAssumption
    <3>2. \A a \in Nat, d \in Nat \ {0} : (a \div d) \in Int
      OBVIOUS
    <3> QED BY <1>1, <3>1, <3>2 DEF T
  <2>4. ~DegreesFilled
    BY <2>1, <2>2, <2>3 DEF DegreesFilled, UseDense, OutDegrees
  <2>5. Pending' = {} /\ Gathered' = {}
    BY <2>2 DEF Pending, Gathered
  <2> QED BY <1>1, <1>2, <1>3, <2>2, <2>4, <2>5 DEF Promise!Die
<1> QED BY <1>1, <1>4, <1>5, <1>6 DEF EnterCall

LEMMA LeaveIsPromised ==
  ASSUME PInv, UserLeave
  PROVE  Promise!Return
<1>1. /\ CallInv /\ LeaveCall /\ called' = called /\ open' = open /\ threshold' = threshold
  BY DEF PInv, DInv, EMInv, UserLeave, userVars, LeaveCall, ReturnDense, ReturnSparse
<1>2. /\ phase = "map" /\ phase' = "ret" /\ \A it \in Items : st[it] = "done"
      /\ vs' = vs /\ mode' = mode /\ fl' = fl
  BY <1>1, LeaveStep
<1>3. /\ Members(vs)' = Members(vs) /\ ShouldOutput' = ShouldOutput
      /\ DegreesFilled' = DegreesFilled
  BY <1>1, <1>2, CallFrame DEF DegreesFilled, T
<1>4. Pending = {} /\ Pending' = {}
  BY <1>2 DEF Pending
<1>5. Gathered' = Gathered
  <2>1. Gathered' = Members(res')
    BY <1>2 DEF Gathered, Members
  <2>2. CASE ~ShouldOutput
    <3>1. res' = EmptySubset
      BY <1>1, <2>2, LeaveStep
    <3> QED BY <1>2, <2>1, <2>2, <3>1 DEF Gathered, EmptySubset, Members, Entries
  <2>3. CASE ShouldOutput
    <3>1. Members(res') = {v \in V : Found(v) # {}}
      BY <1>1, <2>3, LeaveStep
    <3>2. Gathered = {v \in V : Found(v) # {}}
      BY <1>2, <2>3 DEF Gathered, Found
    <3> QED BY <2>1, <3>1, <3>2
  <2> QED BY <2>2, <2>3
<1> QED BY <1>1, <1>2, <1>3, <1>4, <1>5 DEF Promise!Return

-----------------------------------------------------------------------------
\* What all steps of the traversal leave alone, as EdgeMapSpec sees it.
LEMMA PromiseFrame ==
  ASSUME Mapped, threshold' = threshold
  PROVE  /\ phase = "map" /\ phase' = phase /\ Members(vs)' = Members(vs) /\ ShouldOutput' = ShouldOutput
         /\ DegreesFilled' = DegreesFilled
         /\ Pending = {<<Src(it), Dst(it)>> : it \in {it \in Items : Pends(it)}}
         /\ Pending' = {<<Src(it), Dst(it)>> : it \in {it \in Items : Pends(it)'}}
         /\ ShouldOutput => /\ Gathered = {v \in V : Found(v) # {}}
                            /\ Gathered' = {v \in V : Found(v)' # {}}
         /\ ~ShouldOutput => Gathered = {} /\ Gathered' = {}
<1>1. /\ Items' = Items /\ IsSparse' = IsSparse /\ ShouldOutput' = ShouldOutput
      /\ Members(vs)' = Members(vs)
      /\ \A it : Src(it)' = Src(it) /\ Dst(it)' = Dst(it)
  BY MappedFrame
<1>2. phase = "map" /\ phase' = "map" /\ fl' = fl /\ mode' = mode /\ vs' = vs
  BY DEF Mapped
<1>3. DegreesFilled' = DegreesFilled
  BY <1>2 DEF DegreesFilled, T
<1>4. Pending = {<<Src(it), Dst(it)>> : it \in {it \in Items : Pends(it)}}
  BY <1>2 DEF Pending, Pends
<1>5. Pending' = {<<Src(it), Dst(it)>> : it \in {it \in Items : Pends(it)'}}
  BY <1>1, <1>2 DEF Pending, Pends
<1>6. ShouldOutput => /\ Gathered = {v \in V : Found(v) # {}}
                      /\ Gathered' = {v \in V : Found(v)' # {}}
  BY <1>1, <1>2 DEF Gathered, Found
<1>7. ~ShouldOutput => Gathered = {} /\ Gathered' = {}
  BY <1>1, <1>2 DEF Gathered
<1> QED BY <1>1, <1>2, <1>3, <1>4, <1>5, <1>6, <1>7

\* A step that drops edges into a vertex that fails cond is a skip, or no step at all.
LEMMA SkipIsPromised ==
  ASSUME Mapped, threshold' = threshold, open' = open, called' = called,
         ShouldOutput => \A v \in V : Found(v)' = Found(v),
         NEW d \in V,
         \A x \in Items : Pends(x)' => Pends(x),
         \A x \in Items : Pends(x) => Pends(x)' \/ (Dst(x) = d /\ d \notin open)
  PROVE  Promise!Skip(d) \/ UNCHANGED Promise!vars
<1>1. Gathered' = Gathered
  BY PromiseFrame
<1> DEFINE skipped == Pending \ Pending'
<1>2. Pending' \subseteq Pending
  BY PromiseFrame
<1>3. \A e \in skipped : e[2] = d /\ d \notin open
  BY PromiseFrame
<1>4. CASE d \notin open
  <2>1. skipped \in SUBSET {e \in Pending : e[2] = d} /\ Pending' = Pending \ skipped
    BY <1>2, <1>3
  <2> HIDE DEF skipped
  <2> QED BY <1>1, <1>4, <2>1, PromiseFrame DEF Promise!Skip
<1>5. CASE d \in open
  <2>1. Pending' = Pending
    BY <1>2, <1>3, <1>5
  <2> QED BY <1>1, <2>1, PromiseFrame DEF Promise!vars
<1> QED BY <1>4, <1>5

LEMMA UpdateIsPromised ==
  ASSUME PInv, SimpleLists, NEW it \in Items, NEW r \in BOOLEAN, Update(it, r)
  PROVE  <<Src(it), Dst(it)>> \in Pending /\ Promise!Apply(<<Src(it), Dst(it)>>, r)
<1>1. CallInv /\ Faithful
  BY DEF PInv, DInv, EMInv, Arguments
<1>2. /\ Mapped /\ threshold' = threshold /\ (ShouldOutput => Adds(it, r))
      /\ called' = called \cup {<<Src(it), Dst(it)>>}
      /\ open' \in {open, open \ {Dst(it)}}
      /\ st' = [st EXCEPT ![it] = IF mode = "dense" /\ ~RunsParallel(it[1]) THEN "chk" ELSE "done"]
      /\ st \in [Items -> {"todo", "upd", "chk", "done"}]
      /\ st[it] = "upd"
  BY <1>1, UpdatedStep DEF Update, Updated, CallInv, Working
<1> DEFINE e == <<Src(it), Dst(it)>>
<1>3. Pends(it)
  <2>1. Src(it) \in Members(vs)
    BY <1>1, <1>2 DEF PInv, DInv, Taken, Mapped
  <2>2. mode = "dense" => IsIn(vs, Src(it))
    BY <1>1, <1>2, <2>1 DEF CallInv, Mapping, Mapped, IsSparse, Trues, IsIn
  <2> QED BY <1>2, <2>2 DEF Pends
<1>4. \A x \in Items : Pends(x)' <=> Pends(x) /\ x # it
  BY <1>2, MappedFrame DEF Pends, Mapped, IsIn
<1>5. \A x \in Items : x # it => <<Src(x), Dst(x)>> # e
  <2> TAKE x \in Items
  <2> SUFFICES ASSUME Src(x) = Src(it), Dst(x) = Dst(it) PROVE x = it
    OBVIOUS
  <2> QED BY <1>2, EdgesOnce DEF Mapped
<1>6. e \in Pending /\ Pending' = Pending \ {e}
  BY <1>2, <1>3, <1>4, <1>5, PromiseFrame
<1>7. Gathered' = IF r /\ ShouldOutput THEN Gathered \cup {Dst(it)} ELSE Gathered
  <2>1. Dst(it) \in V
    BY <1>1, <1>2, ItemVertices DEF CallInv, Mapped
  <2>2. CASE ~ShouldOutput
    BY <1>2, <2>2, PromiseFrame
  <2>3. CASE ShouldOutput
    <3>1. Gathered = {v \in V : Found(v) # {}} /\ Gathered' = {v \in V : Found(v)' # {}}
      BY <1>2, <2>3, PromiseFrame
    <3>2. ASSUME NEW v \in V
          PROVE  Found(v)' # {} <=> Found(v) # {} \/ (r /\ v = Dst(it))
      BY <1>2, <2>3 DEF Adds
    <3> QED BY <2>1, <2>3, <3>1, <3>2
  <2> QED BY <2>2, <2>3
<1>8. e[2] = Dst(it)
  OBVIOUS
<1> HIDE DEF e
<1>9. Promise!Apply(e, r)
  BY <1>2, <1>6, <1>7, <1>8, PromiseFrame DEF Promise!Apply, Promise!UserMayClose, e
<1> QED BY <1>6, <1>9 DEF e

LEMMA StepIsPromised ==
  ASSUME PInv, SimpleLists, phase = "map",
         \/ \E v \in V : UserLoop(v)
         \/ \E it \in Items : \/ UserReadIn(it) \/ UserBreak(it) \/ UserReadOut(it)
                             \/ \E r \in BOOLEAN : Update(it, r)
  PROVE  Promise!Next \/ UNCHANGED Promise!vars
<1>1. /\ CallInv /\ st \in [Items -> {"todo", "upd", "chk", "done"}]
      /\ \A it \in Items : Dst(it) \in V
  BY ItemVertices DEF PInv, DInv, EMInv, CallInv, Working
<1>2. ASSUME NEW v \in V, UserLoop(v) PROVE Promise!Next \/ UNCHANGED Promise!vars
  <2>1. /\ (v \in open) \in BOOLEAN /\ DenseVertex(v, v \in open)
        /\ threshold' = threshold /\ open' = open /\ called' = called
    BY <1>2 DEF UserLoop, userVars, DenseVertex
  <2>2. Mapped /\ (ShouldOutput => \A w \in V : Found(w)' = Found(w))
    BY <1>1, <2>1, DenseVertexStep
  <2>3. /\ mode = "dense"
        /\ st' = [it \in Items |-> IF it[1] = v /\ ~(v \in open) THEN "done" ELSE st[it]]
    BY <1>2 DEF UserLoop, DenseVertex
  <2>4. \A x \in Items : /\ Pends(x)' => Pends(x)
                         /\ Pends(x) => Pends(x)' \/ (Dst(x) = v /\ v \notin open)
    BY <2>2, <2>3, MappedFrame DEF Pends, Dst, IsIn, Mapped
  <2> QED BY <2>1, <2>2, <2>4, SkipIsPromised DEF Promise!Next
<1>3. ASSUME NEW it \in Items, UserReadIn(it) PROVE Promise!Next \/ UNCHANGED Promise!vars
  <2>1. InNgh(it) /\ threshold' = threshold /\ open' = open /\ called' = called
    BY <1>3 DEF UserReadIn, userVars, InNgh
  <2>2. Mapped /\ (ShouldOutput => \A w \in V : Found(w)' = Found(w))
    BY <1>1, <2>1, InNghStep
  <2>3. /\ mode = "dense" /\ st[it] = "todo"
        /\ st' = [st EXCEPT ![it] = IF IsIn(vs, Src(it)) THEN "upd"
                                    ELSE IF RunsParallel(it[1]) THEN "done" ELSE "chk"]
    BY <2>1 DEF InNgh, Ready
  <2>4. \A x \in Items : Pends(x)' <=> Pends(x)
    BY <1>1, <2>2, <2>3, MappedFrame DEF Pends, IsIn, Mapped
  <2> QED BY <1>1, <2>1, <2>2, <2>4, SkipIsPromised DEF Promise!Next
<1>4. ASSUME NEW it \in Items, UserBreak(it) PROVE Promise!Next \/ UNCHANGED Promise!vars
  <2>1. /\ (Dst(it) \in open) \in BOOLEAN /\ BreakEarly(it, Dst(it) \in open)
        /\ threshold' = threshold /\ open' = open /\ called' = called
    BY <1>4 DEF UserBreak, userVars, BreakEarly
  <2>2. Mapped /\ (ShouldOutput => \A w \in V : Found(w)' = Found(w))
    BY <1>1, <2>1, BreakEarlyStep
  <2>3. /\ st[it] = "chk" /\ mode = "dense"
        /\ st' = [x \in Items |-> IF x = it \/ (Dst(it) \notin open /\ x[1] = it[1])
                                  THEN "done" ELSE st[x]]
    BY <1>1, <1>4, <2>2 DEF UserBreak, BreakEarly, CallInv, Working, Mapped
  <2>4. \A x \in Items : /\ Pends(x)' => Pends(x)
                         /\ Pends(x) => Pends(x)' \/ (Dst(x) = Dst(it) /\ Dst(it) \notin open)
    BY <2>2, <2>3, MappedFrame DEF Pends, Dst, IsIn, Mapped
  <2> QED BY <1>1, <2>1, <2>2, <2>4, SkipIsPromised DEF Promise!Next
<1>5. ASSUME NEW it \in Items, UserReadOut(it) PROVE Promise!Next \/ UNCHANGED Promise!vars
  <2>1. OutNgh(it, Dst(it) \in open) /\ open' = open /\ called' = called
    BY <1>5 DEF UserReadOut, userVars
  <2>2. /\ threshold' = threshold /\ mode # "dense" /\ st[it] = "todo"
        /\ st' = [st EXCEPT ![it] = IF Dst(it) \in open THEN "upd" ELSE "done"]
    BY <2>1 DEF OutNgh, Ready
  <2>3. Mapped /\ (ShouldOutput => \A w \in V : Found(w)' = Found(w))
    <3>1. CASE Dst(it) \in open
      <4>1. OutNgh(it, TRUE)
        BY <2>1, <3>1 DEF OutNgh
      <4> QED BY <1>1, <4>1, OutNghStep
    <3>2. CASE Dst(it) \notin open
      <4>1. OutNgh(it, FALSE)
        BY <2>1, <3>2 DEF OutNgh
      <4> QED BY <1>1, <4>1, OutNghStep
    <3> QED BY <3>1, <3>2
  <2>4. \A x \in Items : /\ Pends(x)' => Pends(x)
                         /\ Pends(x) => Pends(x)' \/ (Dst(x) = Dst(it) /\ Dst(it) \notin open)
    BY <1>1, <2>2, <2>3, MappedFrame DEF Pends, Mapped
  <2> QED BY <1>1, <2>1, <2>2, <2>3, <2>4, SkipIsPromised DEF Promise!Next
<1>6. ASSUME NEW it \in Items, NEW r \in BOOLEAN, Update(it, r) PROVE Promise!Next
  BY <1>6, UpdateIsPromised DEF Promise!Next
<1> QED BY <1>2, <1>3, <1>4, <1>5, <1>6

LEMMA NextIsPromised ==
  ASSUME PInv, PInv', SimpleLists, [UserNext]_callVars
  PROVE  [Promise!Next]_(Promise!vars)
<1>1. CASE UNCHANGED callVars
  <2>1. UNCHANGED <<fl, threshold, vs, phase, mode, st, outEdges, next, res, open, called>>
    BY <1>1 DEF callVars, emVars, userVars
  <2>2. /\ Items' = Items /\ Members(vs)' = Members(vs) /\ ShouldOutput' = ShouldOutput
        /\ \A it : Src(it)' = Src(it) /\ Dst(it)' = Dst(it)
        /\ IsSparse' = IsSparse /\ DegreesFilled' = DegreesFilled
    BY <2>1, CallFrame DEF DegreesFilled, T
  <2>3. Pending' = Pending
    BY <2>1, <2>2 DEF Pending, IsIn
  <2>4. Gathered' = Gathered
    BY <2>1, <2>2 DEF Gathered, Members
  <2> QED BY <2>1, <2>2, <2>3, <2>4 DEF Promise!vars
<1>2. CASE UserEnter
  BY <1>2, EnterIsPromised DEF Promise!Next
<1>3. CASE UserLeave
  BY <1>3, LeaveIsPromised DEF Promise!Next
<1> QED BY <1>1, <1>2, <1>3, StepIsPromised DEF UserNext

LEMMA InitIsPromised == UserInit => Promise!Init
<1> SUFFICES ASSUME UserInit PROVE Promise!Init
  OBVIOUS
<1>1. WellShaped(vs) /\ phase = "call" /\ open \subseteq V /\ called = {}
  BY InitEMInv DEF EMInv, CallInv, UserInit, InitCall
<1>2. Pending = {} /\ Gathered = {}
  BY <1>1 DEF Pending, Gathered
<1>3. Members(vs) \subseteq V
  <2>1. CASE vs.isDense
    BY <1>1, <2>1 DEF Members, Trues, WellShaped, IsSubset
  <2>2. CASE ~vs.isDense /\ vs.m > 0
    BY <1>1, <2>2 DEF Members, Entries, WellShaped
  <2>3. CASE ~vs.isDense /\ vs.m = 0
    BY <2>3 DEF Members, Entries
  <2> QED BY <1>1, <2>1, <2>2, <2>3 DEF WellShaped, IsSubset
<1>4. ShouldOutput \in BOOLEAN /\ DegreesFilled \in BOOLEAN
  BY DEF ShouldOutput, DegreesFilled
<1> QED BY <1>1, <1>2, <1>3, <1>4 DEF Promise!Init

\* Whatever traversal nvmEdgeMapData chooses, a call does what EdgeMapSpec promises: every
\* step of its loops takes one edge out of the frontier with one call of update, drops
\* edges into a vertex that fails cond, or is invisible; it returns when no edge is
\* left, with the targets whose update answered TRUE.  On lists that name no neighbour
\* twice, for frontiers whose arrays name no vertex twice.
THEOREM CallKeepsPromise ==
  ASSUME Promisable
  PROVE  UserSpec => Promise!Init /\ [][Promise!Next]_(Promise!vars)
<1>1. SimpleLists
  BY DEF Promisable
<1>2. UserInit => PInv
  BY InitPInv
<1>3. PInv /\ [UserNext]_callVars => PInv'
  BY NextKeepsPInv
<1>4. PInv /\ PInv' /\ [UserNext]_callVars => [Promise!Next]_(Promise!vars)
  BY <1>1, NextIsPromised
<1> QED BY <1>2, <1>3, <1>4, InitIsPromised, PTL DEF UserSpec

-----------------------------------------------------------------------------
(* The set MIS computes is independent at every moment, on every symmetric *)
(* graph, for every interleaving of the racy accesses to flags.            *)
(*                                                                         *)
(* A vertex enters the set when the filter finds it CONDITIONALLY_IN, so   *)
(* the edgeMap before must have left no such vertex with a neighbour that  *)
(* is IN, or CONDITIONALLY_IN with a smaller ID.  This is what Settled     *)
(* says of one edge; a work item establishes it for its edge, and nothing  *)
(* can undo it before the filter because edgeMap never writes IN or        *)
(* CONDITIONALLY_IN.                                                       *)

AtValues == {"read_d", "out_s", "write_out", "read_s", "reread_d", "write_undecided"}
StValues == {"todo", "upd", "chk", "done"}

\* The frontier of MIS always has its bits, so vs.d is the set it stands for.
MISType ==
  /\ pc \in {"edgemap", "filter", "end"}
  /\ flags \in [V -> Status]
  /\ at \in [AllItems -> AtValues]
  /\ low \in [AllItems -> BOOLEAN]
  /\ filtered \subseteq V
  /\ dOut \in [V -> BOOLEAN]
  /\ fl = {"no_output"} /\ threshold = -1
  /\ phase \in {"call", "map", "ret"}
  /\ pc = "filter" => phase = "ret"
  /\ pc = "end" => phase = "call"
  /\ IsSubset(vs, V) /\ Agrees(vs) /\ vs.d \in [V -> BOOLEAN] /\ vs.m <= n
  /\ mode \in {"none", "sparse", "dense"}
  /\ phase = "call" => vs.isDense
  /\ phase = "map" =>
       /\ mode # "none"
       /\ mode = "sparse" => /\ vs.s \in [0 .. vs.m - 1 -> V]
                             /\ Entries(vs.s, vs.m) = Trues(vs.d)
       /\ begun \subseteq OwnersOf(vs, mode)
       /\ st \in [Items -> StValues]
  /\ res = EmptySubset

Settled(s, d) ==
  s # d /\ flags[s] = "CONDITIONALLY_IN" =>
    /\ flags[d] # "IN"
    /\ d < s => flags[d] # "CONDITIONALLY_IN"

\* What a work item knows at each point of its update, and has ensured after it.
ItemInv(it) ==
  /\ st[it] # "upd" => at[it] = "read_d"
  /\ st[it] = "upd" => vs.d[Src(it)]
  /\ st[it] \in {"chk", "done"} /\ vs.d[Src(it)] => Settled(Src(it), Dst(it))
  /\ st[it] = "upd" /\ at[it] \in {"out_s", "write_out"} => flags[Dst(it)] = "IN"
  /\ st[it] = "upd" /\ at[it] \in {"read_s", "reread_d", "write_undecided"} =>
       /\ Dst(it) < Src(it)
       /\ flags[Dst(it)] # "IN"
  /\ st[it] = "upd" /\ at[it] \in {"read_s", "reread_d"} =>
       (flags[Dst(it)] = "CONDITIONALLY_IN" => low[it])

FrontierUndecided == pc = "edgemap" => \A v \in V : vs.d[v] => flags[v] # "IN"

MapInv == pc = "edgemap" /\ phase = "map" => \A it \in Items : ItemInv(it)

AtRest == \A it \in AllItems : ~(phase = "map" /\ it \in Items) => at[it] = "read_d"

RetInv == pc = "edgemap" /\ phase = "ret" =>
            \A e \in Edges : vs.d[e[1]] => Settled(e[1], e[2])

Unfiltered(v) == vs.d[v] /\ v \notin filtered

FilterInv == pc = "filter" =>
  /\ \A v \in V : dOut[v] => v \in filtered /\ flags[v] = "CONDITIONALLY_IN"
  /\ \A e \in Edges :
       Unfiltered(e[1]) /\ e[1] # e[2] /\ flags[e[1]] = "CONDITIONALLY_IN" =>
         /\ flags[e[2]] # "IN"
         /\ Unfiltered(e[2]) => flags[e[2]] # "CONDITIONALLY_IN"

IInv == /\ MISType /\ Independent
        /\ FrontierUndecided /\ MapInv /\ AtRest /\ RetInv /\ FilterInv

-----------------------------------------------------------------------------
(* The work items *)

\* What a work item of the traversals MIS uses stands for.
LEMMA ItemFacts ==
  ASSUME MISType, phase = "map", NEW it \in Items
  PROVE  /\ it \in AllItems
         /\ Src(it) \in V /\ Dst(it) \in V
         /\ mode = "sparse" => vs.d[Src(it)]
<1>1. /\ n \in Nat /\ m \in Nat /\ vs.m \in Nat /\ vs.m <= n
      /\ vs.d \in [V -> BOOLEAN]
  BY VertexSet DEF MISType, IsSubset
<1>2. /\ it[1] \in OwnersOf(vs, mode) /\ it[2] \in 0 .. m - 1 /\ it = <<it[1], it[2]>>
      /\ it[2] < DegreeIn(vs, mode, it[1])
  BY DEF Items, ItemsOf
<1>3. CASE mode = "sparse"
  <2>1. /\ it[1] \in 0 .. vs.m - 1 /\ it[2] < OutDegree(vs.s[it[1]])
        /\ Src(it) = vs.s[it[1]] /\ Dst(it) = OutNeighbor(vs.s[it[1]], it[2])
    BY <1>2, <1>3 DEF OwnersOf, DegreeIn, Src, Dst, Vertex, IsSparse
  <2>2. vs.s[it[1]] \in V /\ vs.s[it[1]] \in Trues(vs.d)
    BY <1>3, <2>1 DEF MISType, Entries
  <2>3. Dst(it) \in V
    BY <1>1, <1>2, <2>1, <2>2, DegreeBounds
  <2> QED BY <1>1, <1>2, <2>1, <2>2, <2>3 DEF AllItems, V, Trues
<1>4. CASE mode = "dense"
  <2>1. /\ it[1] \in V /\ it[2] < InDegree(it[1])
        /\ Src(it) = InNeighbor(it[1], it[2]) /\ Dst(it) = it[1]
    BY <1>2, <1>4 DEF OwnersOf, DegreeIn, Src, Dst
  <2>2. Src(it) \in V
    BY <1>1, <1>2, <2>1, DegreeBounds
  <2> QED BY <1>2, <1>4, <2>1, <2>2 DEF AllItems
<1> QED BY <1>3, <1>4 DEF MISType

\* Every edge out of the frontier has a work item, whichever traversal runs.
LEMMA EdgeHasItem ==
  ASSUME MISType, phase = "map", NEW e \in Edges, vs.d[e[1]]
  PROVE  \E it \in Items : Src(it) = e[1] /\ Dst(it) = e[2]
<1>1. /\ e[1] \in V /\ e[2] \in V /\ m \in Nat /\ vs.m \in Nat
  BY VertexSet DEF Edges, MISType, IsSubset
<1>2. PICK j \in 0 .. OutDegree(e[1]) - 1 : OutNeighbor(e[1], j) = e[2]
  BY DEF Edges
<1>3. CASE mode = "sparse"
  <2>1. PICK o \in 0 .. vs.m - 1 : vs.s[o] = e[1]
    BY <1>1, <1>3 DEF MISType, Entries, Trues
  <2>2. j \in 0 .. m - 1 /\ j < OutDegree(e[1])
    BY <1>1, <1>2, DegreeBounds
  <2>3. <<o, j>> \in Items
    BY <1>3, <2>1, <2>2 DEF Items, ItemsOf, OwnersOf, DegreeIn
  <2>4. Src(<<o, j>>) = e[1] /\ Dst(<<o, j>>) = e[2]
    BY <1>2, <1>3, <2>1 DEF Src, Dst, Vertex, IsSparse
  <2> QED BY <2>3, <2>4
<1>4. CASE mode = "dense"
  <2>1. PICK k \in 0 .. InDegree(e[2]) - 1 : InNeighbor(e[2], k) = e[1]
    BY <1>1, <1>2, GraphAssumption DEF IsTranspose
  <2>2. k \in 0 .. m - 1 /\ k < InDegree(e[2])
    BY <1>1, <2>1, DegreeBounds
  <2>3. <<e[2], k>> \in Items
    BY <1>1, <1>4, <2>2 DEF Items, ItemsOf, OwnersOf, DegreeIn
  <2>4. Src(<<e[2], k>>) = e[1] /\ Dst(<<e[2], k>>) = e[2]
    BY <1>4, <2>1 DEF Src, Dst
  <2> QED BY <2>3, <2>4
<1> QED BY <1>3, <1>4 DEF MISType

\* A step inside the traversal changes neither the items nor what they stand for.
LEMMA ItemsFrame ==
  ASSUME vs' = vs, mode' = mode
  PROVE  /\ Items' = Items
         /\ \A it : Src(it)' = Src(it) /\ Dst(it)' = Dst(it)
<1>1. Items' = Items
  BY DEF Items, ItemsOf, OwnersOf, DegreeIn, IsIn
<1>2. \A it : Src(it)' = Src(it) /\ Dst(it)' = Dst(it)
  BY DEF Src, Dst, Vertex, IsSparse
<1> QED BY <1>1, <1>2

-----------------------------------------------------------------------------
(* Entering the edgeMap of a round *)

\* The conversions nvmEdgeMapData makes leave the bits and the count alone.
LEMMA ConversionsKeepFrontier ==
  ASSUME MISType
  PROVE  /\ ~BadM(vs)
         /\ LET S == ToSparse(vs) IN
              /\ IsSubset(S, V) /\ Agrees(S) /\ S.d = vs.d /\ S.m = vs.m
              /\ S.m > 0 => /\ S.s \in [0 .. S.m - 1 -> V]
                            /\ Entries(S.s, S.m) = Trues(S.d)
         /\ \A S \in {vs, ToSparse(vs)} : LET D == ToDense(S, V) IN
              IsSubset(D, V) /\ Agrees(D) /\ D.d = vs.d /\ D.m = vs.m
<1>1. V \in SUBSET Int /\ IsFiniteSet(V) /\ NULL \notin [V -> BOOLEAN]
  BY VertexSet, EdgeMapAssumption
<1>2. IsSubset(vs, V) /\ Agrees(vs) /\ vs.d # NULL
  BY <1>1 DEF MISType
<1> DEFINE S == ToSparse(vs)
<1>3. /\ ~BadM(vs) /\ IsSubset(S, V) /\ Agrees(S) /\ S.d = vs.d /\ S.m = vs.m
      /\ vs.m > 0 => S.s \in [0 .. vs.m - 1 -> V] /\ Entries(S.s, vs.m) = Trues(vs.d)
  BY <1>1, <1>2, ToSparseKeepsSubset
<1> HIDE DEF S
<1>4. /\ IsSubset(ToDense(S, V), V) /\ Agrees(ToDense(S, V))
      /\ ToDense(S, V).d = S.d /\ ToDense(S, V).m = S.m
  BY <1>1, <1>2, <1>3, ToDenseKeepsSubset
<1>5. /\ IsSubset(ToDense(vs, V), V) /\ Agrees(ToDense(vs, V))
      /\ ToDense(vs, V).d = vs.d /\ ToDense(vs, V).m = vs.m
  BY <1>1, <1>2, ToDenseKeepsSubset
<1> QED BY <1>3, <1>4, <1>5 DEF S

\* With the arguments MIS passes, the call is dense or plain sparse.
LEMMA ModesOfMIS ==
  ASSUME MISType
  PROVE  /\ UseDense => ChosenMode = "dense"
         /\ ~UseDense => ChosenMode = "sparse"
         /\ vs.m > 0 /\ ~(T > 0) => UseDense
         /\ T \in Int
<1>1. vs.m \in Nat /\ m \in Nat /\ Div \in Nat \ {0}
  BY VertexSet, EdgeMapAssumption DEF MISType, IsSubset
<1>2. "dense_forward" \notin fl /\ "no_dense" \notin fl /\ ~ShouldOutput /\ threshold = -1
  BY DEF MISType, ShouldOutput
<1>3. T \in Int
  BY <1>1, <1>2 DEF T
<1>4. ~(T > 0) => OutDegrees = 0
  BY DEF OutDegrees
<1>5. vs.m > 0 /\ ~(T > 0) => UseDense
  BY <1>1, <1>2, <1>3, <1>4 DEF UseDense
<1> QED BY <1>2, <1>3, <1>5 DEF ChosenMode

LEMMA EmptyFrontier ==
  ASSUME MISType, vs.m = 0
  PROVE  \A v \in V : ~vs.d[v]
<1>1. vs.d \in [V -> BOOLEAN] /\ vs.d # NULL /\ Agrees(vs)
  BY EdgeMapAssumption DEF MISType
<1>2. IsFiniteSet(Trues(vs.d))
  BY <1>1, VertexSet, FS_Subset DEF Trues
<1>3. Entries(vs.s, 0) = {}
  BY DEF Entries
<1>4. Trues(vs.d) = {}
  BY <1>1, <1>2, <1>3, FS_EmptySet DEF Agrees
<1> QED BY <1>1, <1>4 DEF Trues

\* A call that returns at once has no edge out of the frontier.
LEMMA NothingToTraverse ==
  ASSUME MISType, CallEmpty
  PROVE  \A e \in Edges : ~vs.d[e[1]]
<1>1. CASE vs.m = 0
  BY <1>1, EmptyFrontier DEF Edges
<1>2. CASE NoOutEdges
  <2>1. Members(vs) = Trues(vs.d)
    BY DEF CallEmpty, MISType, Members
  <2>2. \A e \in Edges : e[1] \in V /\ OutDegree(e[1]) # 0
    BY DegreeBounds DEF Edges
  <2>3. \A v \in V : vs.d[v] => OutDegree(v) = 0
    BY <1>2, <2>1 DEF NoOutEdges, Trues, MISType
  <2> QED BY <2>2, <2>3
<1> QED BY <1>1, <1>2 DEF CallEmpty

LEMMA EnterKeepsIInv ==
  ASSUME IInv, pc = "edgemap", Enter
  PROVE  IInv'
<1>1. /\ pc' = pc /\ flags' = flags /\ at' = at /\ low' = low
      /\ filtered' = filtered /\ dOut' = dOut
      /\ fl' = fl /\ threshold' = threshold
  BY DEF Enter, misVars, EnterCall, CallEmpty, CallDense, CallSparse, CallDies
<1>2. Independent' /\ FilterInv'
  BY <1>1 DEF IInv, Independent, FilterInv
<1>3. MISType
  BY DEF IInv
<1>4. phase = "call"
  BY DEF Enter, EnterCall, CallEmpty, CallDense, Starts, CallSparse, CallDies
<1>at. \A it \in AllItems : at[it] = "read_d"
  BY <1>4 DEF IInv, AtRest
<1>5. CASE CallEmpty
  <2>1. /\ vs' = vs \/ vs' = ToSparse(vs)
        /\ phase' = "ret" /\ res' = EmptySubset /\ mode' = mode
    BY <1>5 DEF CallEmpty, Returning
  <2>2. IsSubset(vs', V) /\ Agrees(vs') /\ vs'.d = vs.d /\ vs'.m = vs.m
    BY <1>3, <2>1, ConversionsKeepFrontier DEF MISType
  <2>3. MISType'
    BY <1>1, <1>3, <2>1, <2>2 DEF MISType
  <2>4. \A e \in Edges : ~vs.d[e[1]]
    BY <1>3, <1>5, NothingToTraverse
  <2>5. RetInv' /\ MapInv' /\ FrontierUndecided' /\ AtRest'
    BY <1>1, <1>at, <2>1, <2>2, <2>4
       DEF RetInv, MapInv, FrontierUndecided, AtRest, IInv, AllItems, V
  <2> QED BY <1>2, <2>3, <2>5 DEF IInv
<1>6. CASE CallDense
  <2>1. /\ vs' \in {ToDense(vs, V), ToDense(ToSparse(vs), V)}
        /\ mode' = "dense" /\ phase' = "map" /\ res' = res /\ begun' = {}
        /\ st' = [it \in ItemsOf(vs', mode') |-> "todo"]
    BY <1>3, <1>6, ModesOfMIS DEF CallDense
  <2>2. IsSubset(vs', V) /\ Agrees(vs') /\ vs'.d = vs.d /\ vs'.m = vs.m
    BY <1>3, <2>1, ConversionsKeepFrontier
  <2>3. st' = [it \in Items' |-> "todo"]
    BY <2>1 DEF Items
  <2>4. MISType'
    BY <1>1, <1>3, <1>4, <2>1, <2>2, <2>3 DEF MISType, StValues
  <2>5. RetInv' /\ FrontierUndecided' /\ AtRest'
    BY <1>1, <1>at, <2>1, <2>2 DEF RetInv, FrontierUndecided, AtRest, IInv, AllItems, V
  <2>6. Items' \subseteq AllItems
    BY VertexSet, <1>3, <2>1, <2>2 DEF MISType, IsSubset, Items, ItemsOf, OwnersOf, AllItems, V
  <2>7. \A it \in Items' : ItemInv(it)'
    BY <1>1, <1>at, <2>3, <2>6 DEF ItemInv
  <2>8. MapInv'
    BY <2>7 DEF MapInv
  <2> QED BY <1>2, <2>4, <2>5, <2>8 DEF IInv
<1>7. CASE CallSparse
  <2>1. /\ vs' = ToSparse(vs) /\ vs.m > 0
        /\ mode' = "sparse" /\ phase' = "map" /\ res' = res
        /\ begun' = OwnersOf(vs', mode')
        /\ st' = [it \in ItemsOf(vs', mode') |-> "todo"]
    BY <1>3, <1>7, ModesOfMIS DEF CallSparse, Starts
  <2>2. /\ IsSubset(vs', V) /\ Agrees(vs') /\ vs'.d = vs.d /\ vs'.m = vs.m
        /\ vs'.s \in [0 .. vs'.m - 1 -> V] /\ Entries(vs'.s, vs'.m) = Trues(vs'.d)
    BY <1>3, <2>1, ConversionsKeepFrontier
  <2>3. st' = [it \in Items' |-> "todo"]
    BY <2>1 DEF Items
  <2>4. MISType'
    BY <1>1, <1>3, <1>4, <2>1, <2>2, <2>3 DEF MISType, StValues
  <2>5. RetInv' /\ FrontierUndecided' /\ AtRest'
    BY <1>1, <1>at, <2>1, <2>2 DEF RetInv, FrontierUndecided, AtRest, IInv, AllItems, V
  <2>6. Items' \subseteq AllItems
    BY VertexSet, <1>3, <2>1, <2>2 DEF MISType, IsSubset, Items, ItemsOf, OwnersOf, AllItems, V
  <2>7. \A it \in Items' : ItemInv(it)'
    BY <1>1, <1>at, <2>3, <2>6 DEF ItemInv
  <2>8. MapInv'
    BY <2>7 DEF MapInv
  <2> QED BY <1>2, <2>4, <2>5, <2>8 DEF IInv
<1>8. CASE CallDies
  <2>1. T \in Int /\ ~BadM(vs)
    BY <1>3, ModesOfMIS, ConversionsKeepFrontier
  <2>2. vs.m > 0 /\ T <= 0 /\ ~UseDense
    BY <1>8, <2>1 DEF CallDies
  <2> QED BY <1>3, <2>1, <2>2, ModesOfMIS
<1> QED BY <1>5, <1>6, <1>7, <1>8 DEF Enter, EnterCall

-----------------------------------------------------------------------------
(* The steps of the traversal *)

\* What every step of the traversal leaves alone.
Traversal ==
  /\ pc = "edgemap" /\ phase = "map"
  /\ pc' = pc /\ phase' = phase /\ vs' = vs /\ mode' = mode
  /\ fl' = fl /\ threshold' = threshold /\ res' = res
  /\ filtered' = filtered /\ dOut' = dOut

\* Nothing enters the set, and nothing becomes CONDITIONALLY_IN.
Weakens ==
  \A v \in V : /\ flags'[v] = "IN" <=> flags[v] = "IN"
               /\ flags'[v] = "CONDITIONALLY_IN" => flags[v] = "CONDITIONALLY_IN"

LEMMA TraversalStep ==
  ASSUME IInv, Traversal, Weakens,
         flags' \in [V -> Status], at' \in [AllItems -> AtValues],
         low' \in [AllItems -> BOOLEAN],
         begun' \subseteq OwnersOf(vs, mode), st' \in [Items -> StValues],
         \A x \in AllItems \ Items : at'[x] = at[x],
         \A it \in Items : ItemInv(it)'
  PROVE  IInv'
<1>1. Items' = Items
  BY ItemsFrame DEF Traversal
<1>2. OwnersOf(vs', mode') = OwnersOf(vs, mode)
  BY DEF Traversal
<1>3. MISType'
  BY <1>1, <1>2 DEF IInv, MISType, Traversal
<1>4. Independent'
  BY DEF IInv, Independent, Weakens, Edges
<1>5. FrontierUndecided'
  BY DEF IInv, FrontierUndecided, Weakens, Traversal
<1>6. MapInv' /\ RetInv' /\ FilterInv'
  BY <1>1 DEF MapInv, RetInv, FilterInv, Traversal
<1>7. AtRest'
  BY <1>1 DEF IInv, AtRest, Traversal, AllItems, V
<1> QED BY <1>3, <1>4, <1>5, <1>6, <1>7 DEF IInv

\* An item that a step does not touch keeps what it knows.
LEMMA UntouchedItem ==
  ASSUME IInv, Traversal, Weakens, NEW x \in Items,
         st'[x] = st[x], at'[x] = at[x], low'[x] = low[x]
  PROVE  ItemInv(x)'
<1>1. Src(x)' = Src(x) /\ Dst(x)' = Dst(x) /\ Src(x) \in V /\ Dst(x) \in V
  BY ItemsFrame, ItemFacts DEF Traversal, IInv
<1>2. ItemInv(x)
  BY DEF IInv, MapInv, Traversal
<1>3. Settled(Src(x), Dst(x)) => Settled(Src(x), Dst(x))'
  BY <1>1 DEF Settled, Weakens
<1>4. vs'.d[Src(x)] = vs.d[Src(x)]
  BY DEF Traversal
<1> QED BY <1>1, <1>2, <1>3, <1>4 DEF ItemInv, Weakens

\* A step of one item keeps the invariant if the item's own part holds after it.
LEMMA ItemStep ==
  ASSUME IInv, Traversal, Weakens, NEW it \in Items,
         flags' \in [V -> Status], begun' = begun,
         st' \in [Items -> StValues], at' \in [AllItems -> AtValues],
         low' \in [AllItems -> BOOLEAN],
         \A x \in Items \ {it} : st'[x] = st[x] /\ low'[x] = low[x],
         \A x \in AllItems \ {it} : at'[x] = at[x],
         ItemInv(it)'
  PROVE  IInv'
<1>1. \A x \in Items : ItemInv(x)'
  <2> TAKE x \in Items
  <2>1. CASE x # it
    <3>1. x \in AllItems
      BY ItemFacts DEF IInv, Traversal
    <3> QED BY <2>1, <3>1, UntouchedItem
  <2> QED BY <2>1
<1>2. begun' \subseteq OwnersOf(vs, mode)
  BY DEF IInv, MISType, Traversal
<1> QED BY <1>1, <1>2, TraversalStep

LEMMA LoopKeepsIInv ==
  ASSUME IInv, pc = "edgemap", phase = "map", NEW v \in V, Loop(v)
  PROVE  IInv'
<1>1. /\ Traversal /\ flags' = flags /\ at' = at /\ low' = low
      /\ begun' = begun \cup {v} /\ mode = "dense"
      /\ st' = [x \in Items |-> st[x]]
  BY DEF Loop, DenseVertex, misVars, Traversal
<1>2. MISType
  BY DEF IInv
<1>3. /\ st' = st /\ st' \in [Items -> StValues]
      /\ begun' \subseteq OwnersOf(vs, mode)
  BY <1>1, <1>2 DEF MISType, OwnersOf
<1>4. Weakens
  BY <1>1 DEF Weakens
<1>5. \A x \in Items : ItemInv(x)'
  BY <1>1, <1>3, <1>4, UntouchedItem
<1>6. flags' \in [V -> Status] /\ at' \in [AllItems -> AtValues] /\ low' \in [AllItems -> BOOLEAN]
  BY <1>1, <1>2 DEF MISType
<1> QED BY <1>1, <1>3, <1>4, <1>5, <1>6, TraversalStep

\* The steps of the loops between two updates write no flags.
LEMMA ScanFrame ==
  ASSUME IInv, pc = "edgemap", phase = "map", NEW it \in Items,
         ReadIn(it) \/ Break(it) \/ ReadOut(it)
  PROVE  /\ Traversal /\ flags' = flags /\ at' = at /\ low' = low /\ begun' = begun
         /\ st' \in [Items -> StValues]
         /\ \A x \in Items \ {it} : st'[x] = st[x]
         /\ \/ st[it] # "upd" /\ st'[it] = "upd" /\ (mode = "dense" => vs.d[Src(it)])
            \/ st[it] # "upd" /\ ~vs.d[Src(it)] /\ st'[it] \in {"chk", "done"}
            \/ st[it] = "chk" /\ st'[it] = "done"
<1>1. /\ Traversal /\ flags' = flags /\ at' = at /\ low' = low /\ begun' = begun
  BY DEF ReadIn, InNgh, Break, BreakEarly, ReadOut, OutNgh, misVars, Traversal
<1>2. st \in [Items -> StValues]
  BY DEF IInv, MISType
<1>3. CASE ReadIn(it)
  BY <1>1, <1>2, <1>3 DEF ReadIn, InNgh, Ready, IsIn, StValues
<1>4. CASE Break(it)
  BY <1>1, <1>2, <1>4 DEF Break, BreakEarly, StValues
<1>5. CASE ReadOut(it)
  BY <1>1, <1>2, <1>5 DEF ReadOut, OutNgh, Ready, StValues
<1> QED BY <1>3, <1>4, <1>5

LEMMA ScanKeepsIInv ==
  ASSUME IInv, pc = "edgemap", phase = "map", NEW it \in Items,
         ReadIn(it) \/ Break(it) \/ ReadOut(it)
  PROVE  IInv'
<1>1. MISType /\ ItemInv(it)
  BY DEF IInv, MapInv
<1>2. /\ Traversal /\ flags' = flags /\ at' = at /\ low' = low /\ begun' = begun
  BY ScanFrame
<1>3. Weakens
  BY <1>2 DEF Weakens
<1>5. /\ st' \in [Items -> StValues]
      /\ \A x \in Items \ {it} : st'[x] = st[x]
      /\ \/ st[it] # "upd" /\ st'[it] = "upd" /\ (mode = "dense" => vs.d[Src(it)])
         \/ st[it] # "upd" /\ ~vs.d[Src(it)] /\ st'[it] \in {"chk", "done"}
         \/ st[it] = "chk" /\ st'[it] = "done"
  BY ScanFrame
<1>6. /\ Src(it)' = Src(it) /\ Dst(it)' = Dst(it) /\ Src(it) \in V /\ Dst(it) \in V
      /\ mode = "sparse" => vs.d[Src(it)]
      /\ mode \in {"sparse", "dense"}
  BY <1>1, <1>2, ItemsFrame, ItemFacts DEF Traversal, MISType
<1>7. Settled(Src(it), Dst(it))' <=> Settled(Src(it), Dst(it))
  BY <1>2, <1>6 DEF Settled
<1>8. vs'.d[Src(it)] = vs.d[Src(it)]
  BY <1>2 DEF Traversal
<1>9. ItemInv(it)'
  BY <1>1, <1>2, <1>5, <1>6, <1>7, <1>8 DEF ItemInv
<1>10. flags' \in [V -> Status] /\ at' \in [AllItems -> AtValues] /\ low' \in [AllItems -> BOOLEAN]
  BY <1>1, <1>2 DEF MISType
<1> QED BY <1>2, <1>3, <1>5, <1>9, <1>10, ItemStep
-----------------------------------------------------------------------------
(* The steps of MIS_Update *)

\* The frame of Goto and Finish.
LEMMA UpdateFrame ==
  ASSUME IInv, pc = "edgemap", phase = "map", NEW it \in Items, UpdateStep(it)
  PROVE  /\ Traversal /\ begun' = begun
         /\ st[it] = "upd" /\ it \in AllItems
         /\ \/ st' = st /\ \E w \in AtValues : at' = [at EXCEPT ![it] = w]
            \/ \E r \in {"chk", "done"} : /\ st' = [st EXCEPT ![it] = r]
                                        /\ at' = [at EXCEPT ![it] = "read_d"]
         /\ st' \in [Items -> StValues] /\ at' \in [AllItems -> AtValues]
         /\ \A x \in Items \ {it} : st'[x] = st[x]
         /\ \A x \in AllItems \ {it} : at'[x] = at[x]
<1>1. it \in AllItems /\ st \in [Items -> StValues] /\ at \in [AllItems -> AtValues]
  BY ItemFacts DEF IInv, MISType
<1>2. st[it] = "upd" /\ pc' = pc /\ filtered' = filtered /\ dOut' = dOut
  BY DEF UpdateStep, ReadD, ReadSOut, WriteOut, ReadS, RereadD, WriteUndecided, Updating
<1>3. \/ \E w \in AtValues : Goto(it, w)
      \/ Finish(it)
  BY DEF UpdateStep, ReadD, ReadSOut, WriteOut, ReadS, RereadD, WriteUndecided, AtValues
<1>4. CASE \E w \in AtValues : Goto(it, w)
  <2>1. Traversal /\ begun' = begun /\ st' = st
    BY <1>2, <1>4 DEF Goto, emVars, Traversal
  <2>2. PICK w \in AtValues : at' = [at EXCEPT ![it] = w]
    BY <1>4 DEF Goto
  <2> QED BY <1>1, <1>2, <2>1, <2>2
<1>5. CASE Finish(it)
  <2>1. Traversal /\ begun' = begun
    BY <1>2, <1>5 DEF Finish, Updated, Traversal
  <2>2. at' = [at EXCEPT ![it] = "read_d"]
    BY <1>5 DEF Finish
  <2>3. PICK r \in {"chk", "done"} : st' = [st EXCEPT ![it] = r]
    BY <1>5 DEF Finish, Updated
  <2> QED BY <1>1, <1>2, <2>1, <2>2, <2>3 DEF AtValues, StValues
<1> QED BY <1>3, <1>4, <1>5

\* What an item must have ensured when its update returns.
LEMMA FinishedItem ==
  ASSUME IInv, pc = "edgemap", phase = "map", NEW it \in Items, UpdateStep(it),
         Finish(it), Settled(Src(it), Dst(it))'
  PROVE  ItemInv(it)'
<1>1. st'[it] \in {"chk", "done"} /\ at'[it] = "read_d"
  BY UpdateFrame, ItemFacts DEF Finish, Updated, IInv, MISType
<1> QED BY <1>1 DEF ItemInv

LEMMA UpdateKeepsIInv ==
  ASSUME IInv, pc = "edgemap", phase = "map", NEW it \in Items, UpdateStep(it)
  PROVE  IInv'
<1> DEFINE s == Src(it)
           d == Dst(it)
<1>1. MISType /\ ItemInv(it) /\ FrontierUndecided
  BY DEF IInv, MapInv
<1>2. /\ Traversal /\ begun' = begun /\ st[it] = "upd" /\ it \in AllItems
      /\ st' \in [Items -> StValues] /\ at' \in [AllItems -> AtValues]
      /\ \A x \in Items \ {it} : st'[x] = st[x]
      /\ \A x \in AllItems \ {it} : at'[x] = at[x]
  BY UpdateFrame
<1>3. /\ s \in V /\ d \in V /\ Src(it)' = s /\ Dst(it)' = d
      /\ V \in SUBSET Int /\ flags \in [V -> Status]
      /\ low \in [AllItems -> BOOLEAN] /\ at \in [AllItems -> AtValues]
      /\ st \in [Items -> StValues]
  BY <1>1, <1>2, ItemFacts, ItemsFrame, VertexSet DEF Traversal, MISType
<1>4. vs.d[s] /\ vs'.d[s] = vs.d[s] /\ flags[s] # "IN"
  BY <1>1, <1>2, <1>3 DEF ItemInv, FrontierUndecided, Traversal
<1> HIDE DEF s, d
<1>5. ASSUME flags' = flags PROVE Weakens /\ flags' \in [V -> Status]
  BY <1>3, <1>5 DEF Weakens
<1>6. ASSUME NEW f \in {"OUT", "UNDECIDED"}, flags' = [flags EXCEPT ![s] = f]
      PROVE  Weakens /\ flags' \in [V -> Status] /\ flags'[s] = f
  BY <1>3, <1>4, <1>6 DEF Weakens, Status
<1>7. ASSUME low' = low PROVE low' \in [AllItems -> BOOLEAN] /\ \A x \in Items : low'[x] = low[x]
  BY <1>3, <1>7
<1>8. ASSUME Finish(it),
             s # d /\ flags'[s] = "CONDITIONALLY_IN" =>
               flags'[d] # "IN" /\ (d < s => flags'[d] # "CONDITIONALLY_IN")
      PROVE  ItemInv(it)'
  <2>1. Settled(Src(it), Dst(it))'
    BY <1>3, <1>8 DEF Settled
  <2> QED BY <1>8, <2>1, FinishedItem
<1>9. ASSUME NEW w \in AtValues, Goto(it, w) PROVE st'[it] = "upd" /\ at'[it] = w
  BY <1>2, <1>3, <1>9 DEF Goto, emVars
<1>10. CASE ReadD(it)
  <2>1. /\ flags' = flags
        /\ low' = [low EXCEPT ![it] = BelowOut(flags[d])]
    BY <1>10 DEF ReadD, d
  <2>2. low' \in [AllItems -> BOOLEAN] /\ \A x \in Items \ {it} : low'[x] = low[x]
    <3>1. BelowOut(flags[d]) \in BOOLEAN
      BY DEF BelowOut
    <3>2. Items \subseteq AllItems
      BY <1>1, <1>2, ItemFacts DEF Traversal
    <3> QED BY <1>3, <2>1, <3>1, <3>2
  <2>3. ItemInv(it)'
    <3>1. CASE flags[d] = "IN" /\ Goto(it, "out_s")
      <4>1. st'[it] = "upd" /\ at'[it] = "out_s"
        BY <1>9, <3>1 DEF AtValues
      <4> QED BY <1>3, <1>4, <2>1, <3>1, <4>1 DEF ItemInv, s, d
    <3>2. CASE flags[d] # "IN" /\ d < s /\ Goto(it, "read_s")
      <4>1. st'[it] = "upd" /\ at'[it] = "read_s"
        BY <1>9, <3>2 DEF AtValues
      <4>2. flags[d] = "CONDITIONALLY_IN" => low'[it]
        BY <1>2, <1>3, <2>1 DEF BelowOut
      <4> QED BY <1>3, <1>4, <2>1, <3>2, <4>1, <4>2 DEF ItemInv, s, d
    <3>3. CASE flags[d] # "IN" /\ ~(d < s) /\ Finish(it)
      BY <1>3, <1>8, <2>1, <3>3
    <3> QED BY <1>10, <3>1, <3>2, <3>3 DEF ReadD, s, d
  <2> QED BY <1>2, <1>5, <2>1, <2>2, <2>3, ItemStep
<1>11. CASE ReadSOut(it)
  <2>1. flags' = flags /\ low' = low /\ at[it] = "out_s" /\ flags[d] = "IN"
    BY <1>1, <1>2, <1>11 DEF ReadSOut, Updating, ItemInv, d
  <2>2. ItemInv(it)'
    <3>1. CASE Goto(it, "write_out")
      <4>1. st'[it] = "upd" /\ at'[it] = "write_out"
        BY <1>9, <3>1 DEF AtValues
      <4> QED BY <1>3, <1>4, <2>1, <4>1 DEF ItemInv, s, d
    <3>2. CASE flags[s] = "OUT" /\ Finish(it)
      BY <1>8, <2>1, <3>2
    <3> QED BY <1>11, <3>1, <3>2 DEF ReadSOut, s
  <2> QED BY <1>2, <1>5, <1>7, <2>1, <2>2, ItemStep
<1>12. CASE WriteOut(it)
  <2>1. flags' = [flags EXCEPT ![s] = "OUT"] /\ low' = low /\ Finish(it)
    BY <1>12 DEF WriteOut, s
  <2>2. ItemInv(it)'
    BY <1>6, <1>8, <2>1
  <2> QED BY <1>2, <1>6, <1>7, <2>1, <2>2, ItemStep
<1>13. CASE ReadS(it)
  <2>1. /\ flags' = flags /\ low' = low /\ d < s /\ flags[d] # "IN"
        /\ flags[d] = "CONDITIONALLY_IN" => low[it]
    BY <1>1, <1>2, <1>13 DEF ReadS, Updating, ItemInv, s, d
  <2>2. ItemInv(it)'
    <3>1. CASE Goto(it, "reread_d")
      <4>1. st'[it] = "upd" /\ at'[it] = "reread_d"
        BY <1>9, <3>1 DEF AtValues
      <4> QED BY <1>3, <1>4, <2>1, <4>1 DEF ItemInv, s, d
    <3>2. CASE flags[s] # "CONDITIONALLY_IN" /\ Finish(it)
      BY <1>8, <2>1, <3>2
    <3> QED BY <1>13, <3>1, <3>2 DEF ReadS, s
  <2> QED BY <1>2, <1>5, <1>7, <2>1, <2>2, ItemStep
<1>14. CASE RereadD(it)
  <2>1. /\ flags' = flags /\ low' = low /\ d < s /\ flags[d] # "IN"
        /\ flags[d] = "CONDITIONALLY_IN" => low[it]
    BY <1>1, <1>2, <1>14 DEF RereadD, Updating, ItemInv, s, d
  <2>2. ItemInv(it)'
    <3>1. CASE Goto(it, "write_undecided")
      <4>1. st'[it] = "upd" /\ at'[it] = "write_undecided"
        BY <1>9, <3>1 DEF AtValues
      <4> QED BY <1>3, <1>4, <2>1, <4>1 DEF ItemInv, s, d
    <3>2. CASE Finish(it) /\ \E isLow \in {BelowOut(flags[d]), low[it]} : ~isLow
      <4>1. flags[d] # "CONDITIONALLY_IN"
        BY <2>1, <3>2 DEF BelowOut
      <4> QED BY <1>8, <2>1, <3>2, <4>1
    <3> QED BY <1>14, <3>1, <3>2 DEF RereadD, d
  <2> QED BY <1>2, <1>5, <1>7, <2>1, <2>2, ItemStep
<1>15. CASE WriteUndecided(it)
  <2>1. flags' = [flags EXCEPT ![s] = "UNDECIDED"] /\ low' = low /\ Finish(it)
    BY <1>15 DEF WriteUndecided, s
  <2>2. ItemInv(it)'
    BY <1>6, <1>8, <2>1
  <2> QED BY <1>2, <1>6, <1>7, <2>1, <2>2, ItemStep
<1> QED BY <1>10, <1>11, <1>12, <1>13, <1>14, <1>15 DEF UpdateStep
-----------------------------------------------------------------------------
(* The end of the edgeMap, the filter, the next round *)

LEMMA LeaveKeepsIInv ==
  ASSUME IInv, pc = "edgemap", Leave
  PROVE  IInv'
<1>1. MISType /\ MapInv /\ AtRest
  BY DEF IInv
<1>2. /\ phase = "map" /\ phase' = "ret" /\ res' = EmptySubset
      /\ pc' = pc /\ flags' = flags /\ at' = at /\ low' = low
      /\ filtered' = filtered /\ dOut' = dOut
      /\ fl' = fl /\ threshold' = threshold /\ vs' = vs /\ mode' = mode
      /\ \A it \in Items : st[it] = "done"
  BY <1>1 DEF Leave, LeaveCall, ReturnDense, ReturnSparse, Joined, Returning, misVars,
              MISType, ShouldOutput
<1>3. MISType'
  BY <1>1, <1>2 DEF MISType
<1>4. RetInv'
  <2> SUFFICES ASSUME NEW e \in Edges, vs.d[e[1]]
               PROVE  Settled(e[1], e[2])'
    BY <1>2 DEF RetInv
  <2>1. PICK it \in Items : Src(it) = e[1] /\ Dst(it) = e[2]
    BY <1>1, <1>2, EdgeHasItem
  <2>2. Settled(Src(it), Dst(it))
    BY <1>1, <1>2, <2>1 DEF MapInv, ItemInv
  <2> QED BY <1>2, <2>1, <2>2 DEF Settled
<1>5. AtRest'
  <2>1. \A it \in AllItems : at[it] = "read_d"
    BY <1>1, <1>2 DEF AtRest, MapInv, ItemInv
  <2> QED BY <1>2, <2>1 DEF AtRest, AllItems, V
<1>6. Independent' /\ FrontierUndecided' /\ FilterInv' /\ MapInv'
  BY <1>2 DEF IInv, Independent, FrontierUndecided, FilterInv, MapInv
<1> QED BY <1>3, <1>4, <1>5, <1>6 DEF IInv

LEMMA StartFilterKeepsIInv ==
  ASSUME Symmetric, IInv, StartFilter
  PROVE  IInv'
<1>1. MISType /\ AtRest /\ RetInv /\ FrontierUndecided
  BY DEF IInv
<1>2. /\ pc = "edgemap" /\ phase = "ret" /\ pc' = "filter" /\ phase' = phase
      /\ vs' = ToDense(vs, V) /\ filtered' = {} /\ dOut' = [v \in V |-> FALSE]
      /\ flags' = flags /\ at' = at /\ low' = low /\ mode' = mode
      /\ fl' = fl /\ threshold' = threshold /\ res' = res
  BY DEF StartFilter
<1>3. IsSubset(vs', V) /\ Agrees(vs') /\ vs'.d = vs.d /\ vs'.m = vs.m
  BY <1>1, <1>2, ConversionsKeepFrontier
<1>4. MISType'
  BY <1>1, <1>2, <1>3 DEF MISType
<1>5. AtRest'
  BY <1>1, <1>2 DEF AtRest, AllItems, V
<1>6. FilterInv'
  <2>1. \A v \in V : ~dOut'[v]
    BY <1>2
  <2>2. ASSUME NEW e \in Edges, vs.d[e[1]], e[1] # e[2], flags[e[1]] = "CONDITIONALLY_IN"
        PROVE  /\ flags[e[2]] # "IN"
               /\ vs.d[e[2]] => flags[e[2]] # "CONDITIONALLY_IN"
    <3>1. e[1] \in V /\ e[2] \in V /\ e[1] \in Int /\ e[2] \in Int
      BY VertexSet DEF Edges
    <3>2. Settled(e[1], e[2])
      BY <1>1, <1>2, <2>2 DEF RetInv
    <3>3. <<e[2], e[1]>> \in Edges
      BY DEF Symmetric
    <3>4. vs.d[e[2]] => Settled(e[2], e[1])
      <4> DEFINE b == <<e[2], e[1]>>
      <4>1. vs.d[b[1]] => Settled(b[1], b[2])
        BY <1>1, <1>2, <3>3 DEF RetInv
      <4> QED BY <4>1
    <3>5. e[1] < e[2] \/ e[2] < e[1]
      BY <2>2, <3>1
    <3> QED BY <2>2, <3>2, <3>4, <3>5 DEF Settled
  <2>3. \A v : Unfiltered(v)' <=> vs.d[v]
    BY <1>2, <1>3 DEF Unfiltered
  <2> QED BY <1>2, <2>1, <2>2, <2>3 DEF FilterInv
<1>7. Independent' /\ FrontierUndecided' /\ MapInv' /\ RetInv'
  BY <1>2 DEF IInv, Independent, FrontierUndecided, MapInv, RetInv
<1> QED BY <1>4, <1>5, <1>6, <1>7 DEF IInv

LEMMA FilterKeepsIInv ==
  ASSUME Symmetric, IInv, NEW v \in V, Filter(v)
  PROVE  IInv'
<1>1. MISType /\ AtRest /\ FilterInv /\ Independent
  BY DEF IInv
<1>2. /\ pc = "filter" /\ pc' = pc /\ Unfiltered(v)
      /\ filtered' = filtered \cup {v}
      /\ at' = at /\ low' = low /\ phase' = phase /\ vs' = vs /\ mode' = mode
      /\ fl' = fl /\ threshold' = threshold /\ res' = res
      /\ dOut' = [dOut EXCEPT ![v] = flags[v] \notin {"CONDITIONALLY_IN", "OUT"}]
  BY DEF Filter, emVars, IsIn, Unfiltered
<1>3. PICK f \in Status :
        /\ flags' = [flags EXCEPT ![v] = f]
        /\ f = "IN" <=> flags[v] = "CONDITIONALLY_IN"
        /\ dOut'[v] <=> f = "CONDITIONALLY_IN"
        /\ dOut'[v] => flags[v] # "CONDITIONALLY_IN"
  <2> DEFINE f == CASE flags[v] = "CONDITIONALLY_IN" -> "IN"
                    [] flags[v] = "OUT"              -> "OUT"
                    [] OTHER                         -> "CONDITIONALLY_IN"
  <2>1. flags' = [flags EXCEPT ![v] = f]
    BY DEF Filter
  <2>2. flags[v] \in Status /\ dOut \in [V -> BOOLEAN]
    BY <1>1 DEF MISType
  <2>3. dOut'[v] <=> flags[v] \notin {"CONDITIONALLY_IN", "OUT"}
    BY <1>2, <2>2
  <2>4. /\ f \in Status
        /\ f = "IN" <=> flags[v] = "CONDITIONALLY_IN"
        /\ f = "CONDITIONALLY_IN" <=> flags[v] \notin {"CONDITIONALLY_IN", "OUT"}
    BY <2>2 DEF Status
  <2> QED BY <2>1, <2>3, <2>4
<1>4. \A u \in V : u # v => flags'[u] = flags[u] /\ (dOut'[u] <=> dOut[u])
  BY <1>1, <1>2, <1>3 DEF MISType
<1>5. flags'[v] = f /\ flags' \in [V -> Status] /\ dOut' \in [V -> BOOLEAN]
  <2>1. (flags[v] \notin {"CONDITIONALLY_IN", "OUT"}) \in BOOLEAN
    OBVIOUS
  <2> QED BY <1>1, <1>2, <1>3, <2>1 DEF MISType
<1>6. MISType'
  BY <1>1, <1>2, <1>5 DEF MISType
<1>7. Independent'
  \* v enters the set only if no neighbour is in it
  <2> SUFFICES ASSUME NEW e \in Edges, e[1] # e[2], flags'[e[1]] = "IN", flags'[e[2]] = "IN"
               PROVE  FALSE
    BY DEF Independent
  <2>1. e[1] \in V /\ e[2] \in V
    BY DEF Edges
  <2>2. CASE e[1] = v
    BY <1>1, <1>2, <1>3, <1>4, <1>5, <2>1, <2>2 DEF FilterInv
  <2>3. CASE e[2] = v
    <3> DEFINE b == <<e[2], e[1]>>
    <3>1. b \in Edges /\ b[1] = e[2] /\ b[2] = e[1]
      BY DEF Symmetric
    <3> QED BY <1>1, <1>2, <1>3, <1>4, <1>5, <2>1, <2>3, <3>1 DEF FilterInv
  <2>4. CASE e[1] # v /\ e[2] # v
    BY <1>1, <1>4, <2>1, <2>4 DEF Independent
  <2> QED BY <2>2, <2>3, <2>4
<1>8. FilterInv'
  <2>1. \A u \in V : dOut'[u] => u \in filtered' /\ flags'[u] = "CONDITIONALLY_IN"
    BY <1>1, <1>2, <1>3, <1>4, <1>5 DEF FilterInv
  <2>2. ASSUME NEW e \in Edges, Unfiltered(e[1])', e[1] # e[2],
               flags'[e[1]] = "CONDITIONALLY_IN"
        PROVE  /\ flags'[e[2]] # "IN"
               /\ Unfiltered(e[2])' => flags'[e[2]] # "CONDITIONALLY_IN"
    <3>1. e[1] \in V /\ e[2] \in V
      BY DEF Edges
    <3>2. /\ e[1] # v /\ Unfiltered(e[1]) /\ flags[e[1]] = "CONDITIONALLY_IN"
          /\ Unfiltered(e[2])' => e[2] # v /\ Unfiltered(e[2])
      BY <1>2, <1>4, <2>2, <3>1 DEF Unfiltered
    <3>3. /\ flags[e[2]] # "IN"
          /\ Unfiltered(e[2]) => flags[e[2]] # "CONDITIONALLY_IN"
      BY <1>1, <1>2, <2>2, <3>2 DEF FilterInv
    <3>4. CASE e[2] = v
      BY <1>2, <1>3, <1>5, <3>2, <3>3, <3>4
    <3>5. CASE e[2] # v
      BY <1>4, <3>1, <3>2, <3>3, <3>5
    <3> QED BY <3>4, <3>5
  <2> QED BY <1>2, <2>1, <2>2 DEF FilterInv
<1>9. AtRest'
  BY <1>1, <1>2 DEF AtRest, MISType, AllItems, V
<1>10. FrontierUndecided' /\ MapInv' /\ RetInv'
  BY <1>2 DEF FrontierUndecided, MapInv, RetInv
<1> QED BY <1>6, <1>7, <1>8, <1>9, <1>10 DEF IInv

\* A frontier built from bits.
LEMMA FromBits ==
  ASSUME NEW bits \in [V -> BOOLEAN]
  PROVE  /\ IsSubset(OfBits(bits), V) /\ Agrees(OfBits(bits))
         /\ OfBits(bits).d = bits /\ OfBits(bits).m <= n /\ OfBits(bits).isDense
<1>1. Trues(bits) \subseteq V
  BY DEF Trues
<1>2. IsFiniteSet(Trues(bits)) /\ Cardinality(Trues(bits)) <= n
      /\ Cardinality(Trues(bits)) \in Nat
  BY <1>1, VertexSet, FS_Subset, FS_CardinalityType
<1>3. bits # NULL
  BY EdgeMapAssumption
<1> QED BY <1>2, <1>3 DEF OfBits, IsSubset, Agrees

LEMMA EndRoundKeepsIInv ==
  ASSUME IInv, EndRound
  PROVE  IInv'
<1>1. MISType /\ AtRest /\ FilterInv
  BY DEF IInv
<1>2. /\ pc = "filter" /\ pc' \in {"edgemap", "end"}
      /\ vs' = OfBits(dOut) /\ phase' = "call" /\ mode' = "none" /\ res' = EmptySubset
      /\ filtered' = {} /\ dOut' = dOut /\ flags' = flags /\ at' = at /\ low' = low
      /\ fl' = fl /\ threshold' = threshold
  BY DEF EndRound, NextCall
<1>3. MISType'
  BY <1>1, <1>2, FromBits DEF MISType
<1>4. FrontierUndecided'
  BY <1>1, <1>2, FromBits DEF FrontierUndecided, FilterInv, MISType
<1>5. AtRest'
  BY <1>1, <1>2 DEF AtRest, MISType, AllItems, V
<1>6. Independent' /\ MapInv' /\ RetInv' /\ FilterInv'
  BY <1>2 DEF IInv, Independent, MapInv, RetInv, FilterInv
<1> QED BY <1>3, <1>4, <1>5, <1>6 DEF IInv

LEMMA InitIInv == Init => IInv
<1> SUFFICES ASSUME Init PROVE IInv
  OBVIOUS
<1>1. /\ [v \in V |-> TRUE] \in [V -> BOOLEAN] /\ [v \in V |-> FALSE] \in [V -> BOOLEAN]
      /\ [it \in AllItems |-> FALSE] \in [AllItems -> BOOLEAN]
  OBVIOUS
<1>2. /\ fl = {"no_output"} /\ threshold = -1 /\ vs = OfBits([v \in V |-> TRUE])
      /\ phase = "call" /\ mode = "none" /\ res = EmptySubset
  BY DEF Init, InitCall
<1>3. MISType
  BY <1>1, <1>2, FromBits DEF Init, MISType, Status, AtValues
<1>4. Independent /\ FrontierUndecided /\ MapInv /\ AtRest /\ RetInv /\ FilterInv
  BY <1>2 DEF Init, Independent, FrontierUndecided, MapInv, AtRest, RetInv, FilterInv, Edges
<1> QED BY <1>3, <1>4 DEF IInv

-----------------------------------------------------------------------------
LEMMA NextKeepsIInv == ASSUME Symmetric PROVE IInv /\ [Next]_vars => IInv'
<1> SUFFICES ASSUME IInv, [Next]_vars PROVE IInv'
  OBVIOUS
<1>1. CASE pc = "edgemap" /\ EdgeMapStep
  BY <1>1, EnterKeepsIInv, LeaveKeepsIInv, LoopKeepsIInv, ScanKeepsIInv, UpdateKeepsIInv
     DEF EdgeMapStep
<1>2. CASE StartFilter
  BY <1>2, StartFilterKeepsIInv
<1>3. CASE \E v \in V : Filter(v)
  BY <1>3, FilterKeepsIInv
<1>4. CASE EndRound
  BY <1>4, EndRoundKeepsIInv
<1>5. CASE UNCHANGED vars
  <2>1. MISType' /\ Independent' /\ RetInv' /\ FilterInv' /\ FrontierUndecided'
    BY <1>5 DEF vars, emVars, misVars, IInv, MISType, Independent, RetInv, FilterInv,
                FrontierUndecided, Items, ItemsOf, OwnersOf, DegreeIn, IsIn, Settled, Unfiltered
  <2>2. Items' = Items /\ \A it : Src(it)' = Src(it) /\ Dst(it)' = Dst(it)
    BY <1>5, ItemsFrame DEF vars, emVars
  <2>3. AtRest'
    BY <1>5, <2>2 DEF vars, emVars, misVars, IInv, AtRest, AllItems, V
  <2>4. \A it \in Items : ItemInv(it) => ItemInv(it)'
    BY <1>5, <2>2 DEF vars, emVars, misVars, ItemInv, Settled
  <2>5. MapInv'
    BY <1>5, <2>2, <2>4 DEF vars, emVars, misVars, IInv, MapInv
  <2> QED BY <2>1, <2>3, <2>5 DEF IInv
<1> QED BY <1>1, <1>2, <1>3, <1>4, <1>5 DEF Next

\* The inductive invariant holds of every behaviour of Compute.
THEOREM MISInvariant == ASSUME Symmetric PROVE Spec => []IInv
<1>1. Init => IInv
  BY InitIInv
<1>2. IInv /\ [Next]_vars => IInv'
  BY NextKeepsIInv
<1> QED BY <1>1, <1>2, PTL DEF Spec

\* checkMis never finds a conflict: whatever the graph, the threshold and the order
\* of the racy accesses, no two neighbours are ever both IN.
THEOREM MISIndependent == ASSUME Symmetric PROVE Spec => []Independent
<1>1. IInv => Independent
  BY DEF IInv
<1> QED BY <1>1, MISInvariant, PTL

\* The state of Compute and of its edge maps keeps its type.
THEOREM MISTypeCorrect == ASSUME Symmetric PROVE Spec => []TypeOK
<1>1. IInv => TypeOK
  <2> SUFFICES ASSUME IInv PROVE TypeOK
    OBVIOUS
  <2>1. MISType
    BY DEF IInv
  <2>2. IsSubset(EmptySubset, V)
    BY DEF IsSubset, EmptySubset
  <2>3. EdgeMapTypeOK
    BY <2>1, <2>2 DEF MISType, EdgeMapTypeOK, StValues, Modes, Flags
  <2> QED BY <2>1, <2>3 DEF MISType, TypeOK, AtValues
<1> QED BY <1>1, MISInvariant, PTL

-----------------------------------------------------------------------------
(* The set is the greedy one.  A vertex that went OUT may be taken back to *)
(* UNDECIDED by a racing write, and a neighbour that saw it OUT goes IN in *)
(* the same round, so "a vertex is IN when its smaller neighbours are OUT" *)
(* is not invariant.  What is: they are doomed, that is have a smaller     *)
(* neighbour that is IN, which nothing takes back.                         *)

Doomed(v) == \E u \in V : <<v, u>> \in Edges /\ u < v /\ flags[u] = "IN"

Known(s, d) == flags[s] = "CONDITIONALLY_IN" /\ d < s => Doomed(d)

ItemKnows(it) ==
  /\ st[it] \in {"chk", "done"} /\ vs.d[Src(it)] => Known(Src(it), Dst(it))
  /\ st[it] = "upd" /\ at[it] \in {"read_s", "reread_d"} /\ ~low[it] => Doomed(Dst(it))

Decided == \A v \in V : \/ flags[v] \in {"IN", "OUT"}
                        \/ pc = "edgemap" /\ vs.d[v]
                        \/ pc = "filter" /\ (Unfiltered(v) \/ dOut[v])
OutIsDoomed == \A v \in V : flags[v] = "OUT" => Doomed(v)
InDooms == \A e \in Edges : flags[e[1]] = "IN" /\ e[2] < e[1] => Doomed(e[2])
MapKnows == pc = "edgemap" /\ phase = "map" => \A it \in Items : ItemKnows(it)
RetKnows == pc = "edgemap" /\ phase = "ret" => \A e \in Edges : vs.d[e[1]] => Known(e[1], e[2])
FilterKnows == pc = "filter" => /\ \A v \in V : Unfiltered(v) => flags[v] # "IN"
                               /\ \A e \in Edges : Unfiltered(e[1]) => Known(e[1], e[2])

GInv == Decided /\ OutIsDoomed /\ InDooms /\ MapKnows /\ RetKnows /\ FilterKnows

LEMMA ItemIsEdge ==
  ASSUME Symmetric, MISType, phase = "map", NEW it \in Items
  PROVE  <<Src(it), Dst(it)>> \in Edges /\ <<Dst(it), Src(it)>> \in Edges
<1>1. /\ Src(it) \in V /\ Dst(it) \in V
      /\ it[1] \in OwnersOf(vs, mode) /\ it[2] \in 0 .. m - 1 /\ m \in Nat
      /\ it[2] < DegreeIn(vs, mode, it[1]) /\ mode \in {"sparse", "dense"}
  BY ItemFacts, VertexSet DEF Items, ItemsOf, MISType
<1>2. CASE mode = "sparse"
  <2>1. Src(it) = vs.s[it[1]] /\ Dst(it) = OutNeighbor(Src(it), it[2]) /\ it[2] < OutDegree(Src(it))
    BY <1>1, <1>2 DEF DegreeIn, Src, Dst, Vertex, IsSparse
  <2>2. it[2] \in 0 .. OutDegree(Src(it)) - 1
    BY <1>1, <2>1, DegreeBounds
  <2>3. <<Src(it), Dst(it)>> \in Edges
    BY <1>1, <2>1, <2>2 DEF Edges
  <2> QED BY <2>3 DEF Symmetric
<1>3. CASE mode = "dense"
  <2>1. Src(it) = InNeighbor(Dst(it), it[2]) /\ it[2] < InDegree(Dst(it))
    BY <1>1, <1>3 DEF DegreeIn, Src, Dst
  <2>2. it[2] \in 0 .. InDegree(Dst(it)) - 1
    BY <1>1, <2>1, DegreeBounds
  <2>3. \E j \in 0 .. OutDegree(Src(it)) - 1 : OutNeighbor(Src(it), j) = Dst(it)
    BY <1>1, <2>1, <2>2, GraphAssumption DEF IsTranspose
  <2>4. <<Src(it), Dst(it)>> \in Edges
    BY <1>1, <2>3 DEF Edges
  <2> QED BY <2>4 DEF Symmetric
<1> QED BY <1>1, <1>2, <1>3

\* Nothing leaves the set, so the doomed stay doomed.
LEMMA DoomedStays ==
  ASSUME \A v \in V : flags[v] = "IN" => flags'[v] = "IN"
  PROVE  \A v : Doomed(v) => Doomed(v)'
  BY DEF Doomed

LEMMA InitGInv == Init => GInv
  BY DEF Init, InitCall, OfBits, GInv, Decided, OutIsDoomed, InDooms, MapKnows, RetKnows, FilterKnows, Edges

\* Entering a call keeps the frontier and the flags, and nobody dies there.
LEMMA EnterFrame ==
  ASSUME IInv, pc = "edgemap", Enter
  PROVE  /\ pc' = pc /\ flags' = flags /\ at' = at /\ low' = low
         /\ phase = "call" /\ ~CallDies /\ vs'.d = vs.d
         /\ phase' = "map" => st' = [it \in Items' |-> "todo"]
<1>1. /\ pc' = pc /\ flags' = flags /\ at' = at /\ low' = low
  BY DEF Enter, misVars, EnterCall, CallEmpty, CallDense, CallSparse, CallDies
<1>2. MISType /\ phase = "call"
  BY DEF IInv, Enter, EnterCall, CallEmpty, CallDense, Starts, CallSparse, CallDies
<1>3. ~CallDies
  <2>1. T \in Int /\ ~BadM(vs) /\ (vs.m > 0 /\ ~(T > 0) => UseDense)
    BY <1>2, ModesOfMIS, ConversionsKeepFrontier
  <2> QED BY <2>1 DEF CallDies
<1>4. vs'.d = vs.d
  <2>1. vs' \in {vs, ToSparse(vs), ToDense(vs, V), ToDense(ToSparse(vs), V)}
    BY <1>3 DEF Enter, EnterCall, CallEmpty, CallDense, CallSparse
  <2> QED BY <1>2, <2>1, ConversionsKeepFrontier
<1>5. phase' = "map" => st' = [it \in Items' |-> "todo"]
  BY <1>3 DEF Enter, EnterCall, CallEmpty, Returning, CallDense, CallSparse, Items
<1> QED BY <1>1, <1>2, <1>3, <1>4, <1>5

LEMMA EnterKeepsGInv ==
  ASSUME IInv, IInv', GInv, pc = "edgemap", Enter
  PROVE  GInv'
<1>1. /\ pc' = pc /\ flags' = flags /\ at' = at /\ low' = low
  BY EnterFrame
<1>2. MISType /\ phase = "call"
  BY EnterFrame DEF IInv
<1>3. \A v \in V : Doomed(v)' <=> Doomed(v)
  BY <1>1 DEF Doomed
<1>4. ~CallDies
  BY EnterFrame
<1>5. vs'.d = vs.d
  BY EnterFrame
<1>6. Decided' /\ OutIsDoomed' /\ InDooms' /\ FilterKnows'
  <2>1. \A e \in Edges : e[1] \in V /\ e[2] \in V
    BY DEF Edges
  <2> QED BY <1>1, <1>3, <1>5, <2>1 DEF GInv, Decided, OutIsDoomed, InDooms, FilterKnows
<1>7. CASE CallEmpty
  <2>1. phase' = "ret" /\ \A e \in Edges : ~vs.d[e[1]]
    BY <1>2, <1>7, NothingToTraverse DEF CallEmpty, Returning
  <2> QED BY <1>5, <1>6, <2>1 DEF GInv, MapKnows, RetKnows
<1>8. CASE CallDense \/ CallSparse
  <2>1. phase' = "map" /\ st' = [it \in Items' |-> "todo"]
    BY <1>8 DEF CallDense, CallSparse, Items
  <2> QED BY <1>6, <2>1 DEF GInv, MapKnows, RetKnows, ItemKnows
<1> QED BY <1>4, <1>7, <1>8 DEF Enter, EnterCall

LEMMA UntouchedKnows ==
  ASSUME IInv, GInv, Traversal, Weakens, NEW x \in Items,
         st'[x] = st[x], at'[x] = at[x], low'[x] = low[x]
  PROVE  ItemKnows(x)'
<1>1. Src(x)' = Src(x) /\ Dst(x)' = Dst(x) /\ Src(x) \in V /\ Dst(x) \in V
  BY ItemsFrame, ItemFacts DEF Traversal, IInv
<1>2. ItemKnows(x) /\ vs'.d[Src(x)] = vs.d[Src(x)]
  BY DEF GInv, MapKnows, Traversal
<1>3. \A v : Doomed(v) => Doomed(v)'
  BY DoomedStays DEF Weakens
<1>4. Known(Src(x), Dst(x)) => Known(Src(x), Dst(x))'
  BY <1>1, <1>3 DEF Known, Weakens
<1> QED BY <1>1, <1>2, <1>3, <1>4 DEF ItemKnows

\* A step of the traversal that writes flags of members of the frontier only, and OUT
\* only to the doomed.
LEMMA TraversalKeepsGInv ==
  ASSUME IInv, GInv, Traversal, Weakens, flags' \in [V -> Status],
         \A v \in V : vs.d[v] \/ flags'[v] = flags[v],
         \A v \in V : flags'[v] = "OUT" => flags[v] = "OUT" \/ Doomed(v),
         \A x \in Items : ItemKnows(x)'
  PROVE  GInv'
<1>1. \A v : Doomed(v) => Doomed(v)'
  BY DoomedStays DEF Weakens
<1>2. Decided'
  BY DEF GInv, Decided, Traversal
<1>3. OutIsDoomed' /\ InDooms'
  <2>1. \A e \in Edges : e[1] \in V /\ e[2] \in V
    BY DEF Edges
  <2> QED BY <1>1, <2>1 DEF GInv, OutIsDoomed, InDooms, Weakens
<1>4. MapKnows' /\ RetKnows' /\ FilterKnows'
  BY ItemsFrame DEF Traversal, MapKnows, RetKnows, FilterKnows
<1> QED BY <1>2, <1>3, <1>4 DEF GInv

LEMMA ScanKeepsGInv ==
  ASSUME IInv, GInv, pc = "edgemap", phase = "map",
         \/ \E v \in V : Loop(v)
         \/ \E it \in Items : ReadIn(it) \/ Break(it) \/ ReadOut(it)
  PROVE  GInv'
<1>1. MISType
  BY DEF IInv
<1>2. CASE \E v \in V : Loop(v)
  <2>1. /\ Traversal /\ flags' = flags /\ at' = at /\ low' = low /\ st' = [x \in Items |-> st[x]]
    BY <1>2 DEF Loop, DenseVertex, misVars, Traversal
  <2>2. st' = st /\ Weakens /\ flags' \in [V -> Status]
    BY <1>1, <2>1 DEF MISType, Weakens
  <2> QED BY <2>1, <2>2, UntouchedKnows, TraversalKeepsGInv
<1>3. ASSUME NEW it \in Items, ReadIn(it) \/ Break(it) \/ ReadOut(it) PROVE GInv'
  <2>1. /\ Traversal /\ flags' = flags /\ at' = at /\ low' = low
        /\ \A x \in Items \ {it} : st'[x] = st[x]
        /\ \/ st[it] # "upd" /\ st'[it] = "upd"
           \/ ~vs.d[Src(it)] /\ st'[it] \in {"chk", "done"}
           \/ st[it] = "chk" /\ st'[it] = "done"
    BY <1>3, ScanFrame
  <2>2. Weakens /\ flags' \in [V -> Status]
    BY <1>1, <2>1 DEF MISType, Weakens
  <2>3. ItemKnows(it)'
    <3>1. ItemKnows(it) /\ (st[it] # "upd" => at[it] = "read_d")
      BY DEF GInv, MapKnows, IInv, MapInv, ItemInv
    <3>2. Src(it)' = Src(it) /\ Dst(it)' = Dst(it) /\ vs'.d[Src(it)] = vs.d[Src(it)]
      BY <2>1, ItemsFrame DEF Traversal
    <3>3. Doomed(Dst(it))' <=> Doomed(Dst(it))
      BY <2>1, <3>2 DEF Doomed
    <3> QED BY <2>1, <3>1, <3>2, <3>3 DEF ItemKnows, Known
  <2>4. \A x \in Items : ItemKnows(x)'
    BY <2>1, <2>2, <2>3, UntouchedKnows
  <2> QED BY <2>1, <2>2, <2>4, TraversalKeepsGInv
<1> QED BY <1>2, <1>3

LEMMA UpdateKeepsGInv ==
  ASSUME Symmetric, IInv, GInv, pc = "edgemap", phase = "map", NEW it \in Items, UpdateStep(it)
  PROVE  GInv'
<1>1. /\ MISType /\ ItemInv(it) /\ ItemKnows(it) /\ FrontierUndecided
      /\ OutIsDoomed /\ InDooms
  BY DEF IInv, MapInv, GInv, MapKnows
<1>2. /\ Traversal /\ st[it] = "upd" /\ it \in AllItems
      /\ at' \in [AllItems -> AtValues] /\ st' \in [Items -> StValues]
      /\ \A x \in Items \ {it} : st'[x] = st[x]
      /\ \A x \in AllItems \ {it} : at'[x] = at[x]
  BY UpdateFrame
<1>0. PICK s \in V, d \in V : s = Src(it) /\ d = Dst(it)
  BY <1>1, ItemFacts
<1>3. /\ s = Src(it) /\ d = Dst(it) /\ Src(it)' = s /\ Dst(it)' = d
      /\ <<s, d>> \in Edges /\ <<d, s>> \in Edges
      /\ V \in SUBSET Int /\ flags \in [V -> Status] /\ low \in [AllItems -> BOOLEAN]
      /\ at \in [AllItems -> AtValues] /\ st \in [Items -> StValues] /\ Items \subseteq AllItems
  BY <1>0, <1>1, <1>2, ItemFacts, ItemsFrame, ItemIsEdge, VertexSet DEF Traversal, MISType
<1>4. vs.d[s] /\ vs'.d[s] = vs.d[s] /\ flags[s] # "IN"
  BY <1>1, <1>2, <1>3 DEF ItemInv, FrontierUndecided, Traversal
<1>5. /\ st[it] = "upd" /\ at[it] \in {"out_s", "write_out"} => flags[d] = "IN"
      /\ at[it] \in {"read_s", "reread_d"} /\ ~low[it] => Doomed(d)
  BY <1>1, <1>2, <1>3 DEF ItemInv, ItemKnows
<1>6. flags[d] = "IN" => Doomed(s)
  <2>1. CASE d < s
    BY <1>3, <2>1 DEF Doomed
  <2>2. CASE s < d
    <3> DEFINE e == <<d, s>>
    <3>1. e \in Edges /\ e[1] = d /\ e[2] = s
      BY <1>3
    <3> QED BY <1>1, <2>2, <3>1 DEF InDooms
  <2>3. CASE s = d
    BY <1>4, <2>3
  <2> QED BY <1>3, <2>1, <2>2, <2>3
<1>7. ASSUME Weakens, ItemKnows(it)', flags' \in [V -> Status],
             \A x \in Items \ {it} : low'[x] = low[x],
             \A v \in V : v # s => flags'[v] = flags[v],
             flags'[s] = "OUT" => flags[s] = "OUT" \/ Doomed(s)
      PROVE  GInv'
  <2>1. \A x \in Items : ItemKnows(x)'
    BY <1>2, <1>3, <1>7, UntouchedKnows
  <2> QED BY <1>2, <1>3, <1>4, <1>7, <2>1, TraversalKeepsGInv
<1>8. ASSUME flags' = flags PROVE Weakens /\ flags' \in [V -> Status] /\ (Doomed(d)' <=> Doomed(d))
  BY <1>3, <1>8 DEF Weakens, Doomed
<1>9. ASSUME NEW w \in AtValues, Goto(it, w) PROVE st'[it] = "upd" /\ at'[it] = w
  BY <1>2, <1>3, <1>9 DEF Goto, emVars
<1>10. ASSUME Finish(it), Known(s, d)' PROVE ItemKnows(it)'
  <2>1. st'[it] \in {"chk", "done"}
    BY <1>2, <1>3, <1>10 DEF Finish, Updated
  <2> QED BY <1>3, <1>10, <2>1 DEF ItemKnows
<1>11. CASE ReadD(it)
  <2>1. flags' = flags /\ low' = [low EXCEPT ![it] = BelowOut(flags[d])]
    BY <1>3, <1>11 DEF ReadD
  <2>2. \A x \in Items \ {it} : low'[x] = low[x]
    BY <1>3, <2>1
  <2>3. CASE flags[d] = "IN" /\ Goto(it, "out_s")
    <3>1. st'[it] = "upd" /\ at'[it] = "out_s"
      BY <1>9, <2>3 DEF AtValues
    <3>2. ItemKnows(it)'
      BY <3>1 DEF ItemKnows
    <3> QED BY <1>7, <1>8, <2>1, <2>2, <3>2
  <2>4. CASE flags[d] # "IN" /\ d < s /\ Goto(it, "read_s")
    <3>1. st'[it] = "upd" /\ at'[it] = "read_s"
      BY <1>9, <2>4 DEF AtValues
    <3>2. low'[it] = BelowOut(flags[d])
      BY <1>2, <1>3, <2>1
    <3>3. ~low'[it] => flags[d] = "OUT"
      BY <1>3, <2>4, <3>2 DEF BelowOut, Status
    <3>4. ~low'[it] => Doomed(d)'
      BY <1>1, <1>3, <1>8, <2>1, <3>3 DEF OutIsDoomed
    <3>5. ItemKnows(it)'
      BY <1>3, <3>1, <3>4 DEF ItemKnows
    <3> QED BY <1>7, <1>8, <2>1, <2>2, <3>5
  <2>5. CASE ~(d < s) /\ Finish(it)
    <3>1. ItemKnows(it)'
      BY <1>10, <2>5 DEF Known
    <3> QED BY <1>7, <1>8, <2>1, <2>2, <3>1
  <2> QED BY <1>3, <1>11, <2>3, <2>4, <2>5 DEF ReadD
<1>12. CASE ReadSOut(it)
  <2>1. flags' = flags /\ low' = low /\ at[it] = "out_s" /\ flags[d] = "IN"
    BY <1>2, <1>5, <1>12 DEF ReadSOut, Updating
  <2>2. ItemKnows(it)'
    <3>1. CASE Goto(it, "write_out")
      <4>1. st'[it] = "upd" /\ at'[it] = "write_out"
        BY <1>9, <3>1 DEF AtValues
      <4> QED BY <4>1 DEF ItemKnows
    <3>2. CASE flags[s] = "OUT" /\ Finish(it)
      BY <1>10, <2>1, <3>2 DEF Known
    <3> QED BY <1>3, <1>12, <3>1, <3>2 DEF ReadSOut
  <2> QED BY <1>7, <1>8, <2>1, <2>2
<1>13. CASE WriteOut(it)
  <2>1. flags' = [flags EXCEPT ![s] = "OUT"] /\ low' = low /\ Finish(it) /\ flags[d] = "IN"
    BY <1>3, <1>2, <1>5, <1>13 DEF WriteOut, Updating
  <2>2. Weakens /\ flags' \in [V -> Status] /\ flags'[s] = "OUT"
    BY <1>3, <1>4, <2>1 DEF Weakens, Status
  <2>3. ItemKnows(it)'
    BY <1>10, <2>1, <2>2 DEF Known
  <2> QED BY <1>3, <1>6, <1>7, <2>1, <2>2, <2>3
<1>14. CASE ReadS(it)
  <2>1. flags' = flags /\ low' = low /\ at[it] = "read_s"
    BY <1>2, <1>14 DEF ReadS, Updating
  <2>2. ItemKnows(it)'
    <3>1. CASE Goto(it, "reread_d")
      <4>1. st'[it] = "upd" /\ at'[it] = "reread_d"
        BY <1>9, <3>1 DEF AtValues
      <4> QED BY <1>3, <1>5, <1>8, <2>1, <4>1 DEF ItemKnows
    <3>2. CASE flags[s] # "CONDITIONALLY_IN" /\ Finish(it)
      BY <1>10, <2>1, <3>2 DEF Known
    <3> QED BY <1>3, <1>14, <3>1, <3>2 DEF ReadS
  <2> QED BY <1>7, <1>8, <2>1, <2>2
<1>15. CASE RereadD(it)
  <2>1. flags' = flags /\ low' = low /\ at[it] = "reread_d" /\ flags[d] # "IN"
    BY <1>3, <1>1, <1>2, <1>15 DEF RereadD, Updating, ItemInv
  <2>2. ItemKnows(it)'
    <3>1. CASE Goto(it, "write_undecided")
      <4>1. st'[it] = "upd" /\ at'[it] = "write_undecided"
        BY <1>9, <3>1 DEF AtValues
      <4> QED BY <4>1 DEF ItemKnows
    <3>2. CASE Finish(it) /\ (~BelowOut(flags[d]) \/ ~low[it])
      <4>1. ~BelowOut(flags[d]) => flags[d] = "OUT"
        BY <1>3, <2>1 DEF BelowOut, Status
      <4>2. Doomed(d)'
        BY <1>1, <1>3, <1>5, <1>8, <2>1, <3>2, <4>1 DEF OutIsDoomed
      <4> QED BY <1>10, <3>2, <4>2 DEF Known
    <3> QED BY <1>3, <1>15, <3>1, <3>2 DEF RereadD
  <2> QED BY <1>7, <1>8, <2>1, <2>2
<1>16. CASE WriteUndecided(it)
  <2>1. flags' = [flags EXCEPT ![s] = "UNDECIDED"] /\ low' = low /\ Finish(it)
    BY <1>3, <1>16 DEF WriteUndecided
  <2>2. Weakens /\ flags' \in [V -> Status] /\ flags'[s] = "UNDECIDED"
    BY <1>3, <1>4, <2>1 DEF Weakens, Status
  <2>3. ItemKnows(it)'
    BY <1>10, <2>1, <2>2 DEF Known
  <2> QED BY <1>3, <1>7, <2>1, <2>2, <2>3
<1> QED BY <1>11, <1>12, <1>13, <1>14, <1>15, <1>16 DEF UpdateStep

LEMMA LeaveKeepsGInv ==
  ASSUME IInv, GInv, pc = "edgemap", Leave
  PROVE  GInv'
<1>1. MISType /\ MapKnows
  BY DEF IInv, GInv
<1>2. /\ phase = "map" /\ phase' = "ret" /\ pc' = pc /\ flags' = flags /\ vs' = vs
      /\ \A it \in Items : st[it] = "done"
  BY DEF Leave, LeaveCall, ReturnDense, ReturnSparse, Joined, Returning, misVars
<1>3. \A v : Doomed(v)' <=> Doomed(v)
  BY <1>2 DEF Doomed
<1>4. RetKnows'
  <2> SUFFICES ASSUME NEW e \in Edges, vs.d[e[1]]
               PROVE  Known(e[1], e[2])'
    BY <1>2 DEF RetKnows
  <2>1. PICK it \in Items : Src(it) = e[1] /\ Dst(it) = e[2]
    BY <1>1, <1>2, EdgeHasItem
  <2>2. Known(Src(it), Dst(it))
    BY <1>1, <1>2, <2>1 DEF MapKnows, ItemKnows
  <2> QED BY <1>2, <1>3, <2>1, <2>2 DEF Known
<1> QED BY <1>2, <1>3, <1>4 DEF GInv, Decided, OutIsDoomed, InDooms, MapKnows, FilterKnows

LEMMA StartFilterKeepsGInv ==
  ASSUME IInv, GInv, StartFilter
  PROVE  GInv'
<1>1. MISType
  BY DEF IInv
<1>2. /\ pc = "edgemap" /\ phase = "ret" /\ pc' = "filter"
      /\ vs' = ToDense(vs, V) /\ filtered' = {} /\ flags' = flags
  BY DEF StartFilter
<1>3. vs'.d = vs.d
  BY <1>1, <1>2, ConversionsKeepFrontier
<1>4. \A v : (Unfiltered(v)' <=> vs.d[v]) /\ (Doomed(v)' <=> Doomed(v))
  BY <1>2, <1>3 DEF Unfiltered, Doomed
<1>5. FilterKnows'
  BY <1>2, <1>4 DEF IInv, FrontierUndecided, GInv, RetKnows, FilterKnows, Known
<1> QED BY <1>2, <1>4, <1>5 DEF GInv, Decided, OutIsDoomed, InDooms, MapKnows, RetKnows

LEMMA FilterKeepsGInv ==
  ASSUME IInv, GInv, NEW v \in V, Filter(v)
  PROVE  GInv'
<1>1. MISType /\ flags \in [V -> Status] /\ dOut \in [V -> BOOLEAN]
  BY DEF IInv, MISType
<1>2. /\ pc = "filter" /\ pc' = pc /\ Unfiltered(v) /\ vs' = vs /\ filtered' = filtered \cup {v}
      /\ dOut' = [dOut EXCEPT ![v] = flags[v] \notin {"CONDITIONALLY_IN", "OUT"}]
      /\ flags' = [flags EXCEPT ![v] = CASE @ = "CONDITIONALLY_IN" -> "IN"
                                         [] @ = "OUT"              -> "OUT"
                                         [] OTHER                  -> "CONDITIONALLY_IN"]
  BY DEF Filter, emVars, IsIn, Unfiltered
<1>3. flags[v] # "IN"
  BY <1>2 DEF GInv, FilterKnows
<1>4. /\ flags'[v] = "IN" <=> flags[v] = "CONDITIONALLY_IN"
      /\ flags'[v] = "OUT" <=> flags[v] = "OUT"
      /\ flags'[v] \in {"IN", "OUT", "CONDITIONALLY_IN"}
      /\ flags'[v] = "CONDITIONALLY_IN" => dOut'[v]
      /\ \A u \in V : u # v => flags'[u] = flags[u] /\ dOut'[u] = dOut[u]
  BY <1>1, <1>2
<1>5. \A u : Doomed(u) => Doomed(u)'
  BY <1>3, <1>4, DoomedStays
<1>6. \A e \in Edges : e[1] \in V /\ e[2] \in V
  BY DEF Edges
<1>7. Decided'
  BY <1>2, <1>4 DEF GInv, Decided, Unfiltered
<1>8. OutIsDoomed'
  BY <1>4, <1>5 DEF GInv, OutIsDoomed
<1>9. InDooms'
  BY <1>2, <1>4, <1>5, <1>6 DEF GInv, InDooms, FilterKnows, Known
<1>10. FilterKnows'
  <2>1. \A u \in V : Unfiltered(u)' => u # v /\ Unfiltered(u)
    BY <1>2 DEF Unfiltered
  <2> QED BY <1>2, <1>4, <1>5, <1>6, <2>1 DEF GInv, FilterKnows, Known
<1> QED BY <1>2, <1>7, <1>8, <1>9, <1>10 DEF GInv, MapKnows, RetKnows

LEMMA EndRoundKeepsGInv ==
  ASSUME IInv, GInv, EndRound
  PROVE  GInv'
<1>1. MISType
  BY DEF IInv
<1>2. /\ pc = "filter" /\ pc' = (IF \E v \in V : dOut[v] THEN "edgemap" ELSE "end")
      /\ vs' = OfBits(dOut) /\ phase' = "call" /\ flags' = flags /\ dOut' = dOut
      /\ \A v \in V : ~Unfiltered(v)
  BY <1>1 DEF EndRound, NextCall, IsIn, Unfiltered, MISType
<1>3. vs'.d = dOut
  BY <1>2 DEF OfBits
<1>4. \A v : Doomed(v)' <=> Doomed(v)
  BY <1>2 DEF Doomed
<1>5. Decided'
  BY <1>2, <1>3 DEF GInv, Decided
<1> QED BY <1>2, <1>4, <1>5 DEF GInv, OutIsDoomed, InDooms, MapKnows, RetKnows, FilterKnows

LEMMA NextKeepsGInv == ASSUME Symmetric PROVE IInv /\ IInv' /\ GInv /\ [Next]_vars => GInv'
<1> SUFFICES ASSUME IInv, IInv', GInv, [Next]_vars PROVE GInv'
  OBVIOUS
<1>1. CASE pc = "edgemap" /\ EdgeMapStep
  BY <1>1, EnterKeepsGInv, LeaveKeepsGInv, ScanKeepsGInv, UpdateKeepsGInv DEF EdgeMapStep
<1>2. CASE StartFilter
  BY <1>2, StartFilterKeepsGInv
<1>3. CASE \E v \in V : Filter(v)
  BY <1>3, FilterKeepsGInv
<1>4. CASE EndRound
  BY <1>4, EndRoundKeepsGInv
<1>5. CASE UNCHANGED vars
  <2>1. Items' = Items /\ \A it : Src(it)' = Src(it) /\ Dst(it)' = Dst(it)
    BY <1>5, ItemsFrame DEF vars, emVars
  <2>2. \A v : (Doomed(v)' <=> Doomed(v)) /\ (Unfiltered(v)' <=> Unfiltered(v))
    BY <1>5 DEF vars, emVars, misVars, Doomed, Unfiltered
  <2>3. \A s, d : Known(s, d)' <=> Known(s, d)
    BY <1>5, <2>2 DEF vars, misVars, Known
  <2>4. \A it \in Items : ItemKnows(it) => ItemKnows(it)'
    BY <1>5, <2>1, <2>2, <2>3 DEF vars, emVars, misVars, ItemKnows
  <2>5. Decided' /\ OutIsDoomed' /\ InDooms'
    BY <1>5, <2>2 DEF vars, emVars, misVars, GInv, Decided, OutIsDoomed, InDooms
  <2>6. MapKnows' /\ RetKnows' /\ FilterKnows'
    BY <1>5, <2>1, <2>2, <2>3, <2>4 DEF vars, emVars, misVars, GInv, MapKnows, RetKnows, FilterKnows
  <2> QED BY <2>5, <2>6 DEF GInv
<1> QED BY <1>1, <1>2, <1>3, <1>4, <1>5 DEF Next

\* The races of MIS_Update never show in the result: on every symmetric graph Compute
\* ends with the set of the sequential greedy algorithm, which is maximal.
THEOREM MISGreedy == ASSUME Symmetric PROVE Spec => []GreedyResult
<1>1. IInv /\ GInv => GreedyResult
  <2> SUFFICES ASSUME IInv, GInv, pc = "end", NEW v \in V
               PROVE  /\ flags[v] \in {"IN", "OUT"}
                      /\ flags[v] = "IN" <=> \A u \in V : <<v, u>> \in Edges /\ u < v => flags[u] # "IN"
    BY DEF GreedyResult
  <2>1. flags[v] \in {"IN", "OUT"} /\ (flags[v] = "OUT" => Doomed(v))
    BY DEF GInv, Decided, OutIsDoomed
  <2>2. ASSUME flags[v] = "IN", NEW u \in V, <<v, u>> \in Edges, u < v PROVE flags[u] # "IN"
    <3> DEFINE e == <<v, u>>
    <3>1. e \in Edges /\ e[1] = v /\ e[2] = u /\ u # v
      BY <2>2, VertexSet
    <3> QED BY <2>2, <3>1 DEF IInv, Independent
  <2> QED BY <2>1, <2>2 DEF Doomed
<1> QED BY <1>1, MISInvariant, InitGInv, NextKeepsGInv, PTL DEF Spec

-----------------------------------------------------------------------------
(* Every round decides a vertex: the smallest of the frontier.  Only an    *)
(* update by a smaller neighbour that was not decided when it was read can *)
(* take a vertex to UNDECIDED, and what is not decided is in the frontier. *)

Ahead(v) == \E u \in V : vs.d[u] /\ u < v

SomeLeft == pc \in {"edgemap", "filter"} => \E v \in V : vs.d[v]
Behind == \A v \in V : flags[v] = "UNDECIDED" => Ahead(v)
Kept == pc = "filter" => vs.isDense /\ \A v \in V : dOut[v] => vs.d[v] /\ Ahead(v)
Rival(it) ==
  st[it] = "upd" => /\ at[it] = "write_undecided" => vs.d[Dst(it)]
                    /\ at[it] \in {"read_s", "reread_d"} /\ low[it] => vs.d[Dst(it)]
Rivals == pc = "edgemap" /\ phase = "map" => \A it \in Items : Rival(it)

RInv == SomeLeft /\ Behind /\ Kept /\ Rivals

\* At the start nothing is UNDECIDED,
LEMMA InitRInv == Init => RInv
<1> SUFFICES ASSUME Init PROVE RInv
  OBVIOUS
<1>1. pc = "edgemap" /\ phase = "call" /\ vs.d = [v \in V |-> TRUE] /\ \A v \in V : flags[v] # "UNDECIDED"
  BY DEF Init, InitCall, OfBits
<1> QED BY <1>1, VertexSet DEF RInv, SomeLeft, Behind, Kept, Rivals

\* and entering a call changes nothing of it.
LEMMA EnterKeepsRInv ==
  ASSUME IInv, RInv, pc = "edgemap", Enter
  PROVE  RInv'
<1>1. /\ pc' = pc /\ flags' = flags /\ vs'.d = vs.d
      /\ phase' = "map" => st' = [it \in Items' |-> "todo"]
  BY EnterFrame
<1> QED BY <1>1 DEF RInv, SomeLeft, Behind, Ahead, Kept, Rivals, Rival

\* A step of the traversal that takes a vertex to UNDECIDED only behind another.
LEMMA TraversalKeepsRInv ==
  ASSUME IInv, RInv, Traversal,
         \A v \in V : flags'[v] = "UNDECIDED" => flags[v] = "UNDECIDED" \/ Ahead(v),
         \A x \in Items : Rival(x)'
  PROVE  RInv'
  BY ItemsFrame DEF RInv, SomeLeft, Behind, Ahead, Kept, Rivals, Traversal

LEMMA UntouchedRival ==
  ASSUME IInv, RInv, Traversal, NEW x \in Items, st'[x] = st[x], at'[x] = at[x], low'[x] = low[x]
  PROVE  Rival(x)'
<1>1. Dst(x)' = Dst(x) /\ vs' = vs
  BY ItemsFrame DEF Traversal
<1> QED BY <1>1 DEF RInv, Rivals, Rival, Traversal

LEMMA ScanKeepsRInv ==
  ASSUME IInv, RInv, pc = "edgemap", phase = "map",
         \/ \E v \in V : Loop(v)
         \/ \E it \in Items : ReadIn(it) \/ Break(it) \/ ReadOut(it)
  PROVE  RInv'
<1>1. MISType
  BY DEF IInv
<1>2. CASE \E v \in V : Loop(v)
  <2>1. /\ Traversal /\ flags' = flags /\ at' = at /\ low' = low /\ st' = [x \in Items |-> st[x]]
    BY <1>2 DEF Loop, DenseVertex, misVars, Traversal
  <2> QED BY <2>1, UntouchedRival, TraversalKeepsRInv
<1>3. ASSUME NEW it \in Items, ReadIn(it) \/ Break(it) \/ ReadOut(it) PROVE RInv'
  <2>1. /\ Traversal /\ flags' = flags /\ at' = at /\ low' = low
        /\ \A x \in Items \ {it} : st'[x] = st[x]
        /\ \/ st[it] # "upd" /\ st'[it] = "upd"
           \/ st'[it] \in {"chk", "done"}
    BY <1>3, ScanFrame
  <2>2. st[it] # "upd" => at[it] = "read_d"
    BY DEF IInv, MapInv, ItemInv
  <2>3. Rival(it)'
    BY <2>1, <2>2 DEF Rival
  <2> QED BY <2>1, <2>3, UntouchedRival, TraversalKeepsRInv
<1> QED BY <1>2, <1>3

\* An update that goes on to write UNDECIDED, whether it read the flag again or reused
\* its first read, has a smaller member of the frontier as target.
LEMMA UpdateKeepsRInv ==
  ASSUME IInv, GInv, RInv, pc = "edgemap", phase = "map", NEW it \in Items, UpdateStep(it)
  PROVE  RInv'
<1>1. /\ MISType /\ ItemInv(it) /\ Rival(it) /\ Decided
  BY DEF IInv, MapInv, GInv, RInv, Rivals
<1>2. /\ Traversal /\ st[it] = "upd" /\ it \in AllItems
      /\ at' \in [AllItems -> AtValues] /\ st' \in [Items -> StValues]
      /\ \A x \in Items \ {it} : st'[x] = st[x]
      /\ \A x \in AllItems \ {it} : at'[x] = at[x]
  BY UpdateFrame
<1>0. PICK s \in V, d \in V : s = Src(it) /\ d = Dst(it)
  BY <1>1, ItemFacts
<1>3. /\ s = Src(it) /\ d = Dst(it) /\ Dst(it)' = d /\ vs' = vs
      /\ flags \in [V -> Status] /\ low \in [AllItems -> BOOLEAN]
      /\ at \in [AllItems -> AtValues] /\ Items \subseteq AllItems
  BY <1>0, <1>1, <1>2, ItemFacts, ItemsFrame DEF Traversal, MISType
<1>4. BelowOut(flags[d]) => vs.d[d]
  BY <1>1, <1>3 DEF Decided, BelowOut
<1>5. ASSUME \A x \in Items \ {it} : low'[x] = low[x], Rival(it)',
             \A v \in V : flags'[v] = "UNDECIDED" => flags[v] = "UNDECIDED" \/ Ahead(v)
      PROVE  RInv'
  <2>1. \A x \in Items : Rival(x)'
    BY <1>2, <1>3, <1>5, UntouchedRival
  <2> QED BY <1>2, <1>5, <2>1, TraversalKeepsRInv
<1>6. ASSUME NEW w \in AtValues, Goto(it, w) PROVE st'[it] = "upd" /\ at'[it] = w
  BY <1>2, <1>3, <1>6 DEF Goto, emVars
<1>7. ASSUME Finish(it) PROVE Rival(it)'
  <2>1. at'[it] = "read_d"
    BY <1>2, <1>3, <1>7 DEF Finish
  <2> QED BY <2>1 DEF Rival
<1>8. CASE ReadD(it)
  <2>1. flags' = flags /\ low' = [low EXCEPT ![it] = BelowOut(flags[d])]
    BY <1>3, <1>8 DEF ReadD
  <2>2. low'[it] = BelowOut(flags[d]) /\ \A x \in Items \ {it} : low'[x] = low[x]
    BY <1>2, <1>3, <2>1
  <2>3. Rival(it)'
    <3>1. CASE Finish(it)
      BY <1>7, <3>1
    <3>2. CASE Goto(it, "out_s")
      <4>1. at'[it] = "out_s"
        BY <1>6, <3>2 DEF AtValues
      <4> QED BY <4>1 DEF Rival
    <3>3. CASE Goto(it, "read_s")
      <4>1. at'[it] = "read_s"
        BY <1>6, <3>3 DEF AtValues
      <4> QED BY <1>3, <1>4, <2>2, <4>1 DEF Rival
    <3> QED BY <1>8, <3>1, <3>2, <3>3 DEF ReadD
  <2> QED BY <1>5, <2>1, <2>2, <2>3
<1>9. CASE ReadSOut(it) \/ WriteOut(it)
  <2>1. low' = low /\ (Finish(it) \/ Goto(it, "write_out"))
    BY <1>9 DEF ReadSOut, WriteOut
  <2>2. \A v \in V : flags'[v] = "UNDECIDED" => flags[v] = "UNDECIDED"
    BY <1>3, <1>9 DEF ReadSOut, WriteOut
  <2>3. Rival(it)'
    <3>1. CASE Goto(it, "write_out")
      <4>1. at'[it] = "write_out"
        BY <1>6, <3>1 DEF AtValues
      <4> QED BY <4>1 DEF Rival
    <3> QED BY <1>7, <2>1, <3>1
  <2> QED BY <1>5, <2>1, <2>2, <2>3
<1>10. CASE ReadS(it)
  <2>1. flags' = flags /\ low' = low /\ at[it] = "read_s"
    BY <1>10 DEF ReadS, Updating
  <2>2. Rival(it)'
    <3>1. CASE Goto(it, "reread_d")
      <4>1. at'[it] = "reread_d"
        BY <1>6, <3>1 DEF AtValues
      <4> QED BY <1>1, <1>2, <1>3, <2>1, <4>1 DEF Rival
    <3> QED BY <1>7, <1>10, <3>1 DEF ReadS
  <2> QED BY <1>5, <2>1, <2>2
<1>11. CASE RereadD(it)
  <2>1. flags' = flags /\ low' = low /\ at[it] = "reread_d"
    BY <1>11 DEF RereadD, Updating
  <2>2. Rival(it)'
    <3>1. CASE BelowOut(flags[d]) \/ low[it]
      <4>1. vs.d[d]
        BY <1>1, <1>2, <1>3, <1>4, <2>1, <3>1 DEF Rival
      <4> QED BY <1>3, <4>1 DEF Rival
    <3>2. CASE ~BelowOut(flags[d]) /\ ~low[it]
      BY <1>3, <1>7, <1>11, <3>2 DEF RereadD
    <3> QED BY <3>1, <3>2
  <2> QED BY <1>5, <2>1, <2>2
<1>12. CASE WriteUndecided(it)
  <2>1. flags' = [flags EXCEPT ![s] = "UNDECIDED"] /\ low' = low /\ Finish(it) /\ at[it] = "write_undecided"
    BY <1>3, <1>12 DEF WriteUndecided, Updating
  <2>2. Ahead(s)
    BY <1>1, <1>2, <1>3, <2>1 DEF ItemInv, Rival, Ahead
  <2>3. \A v \in V : flags'[v] = "UNDECIDED" => flags[v] = "UNDECIDED" \/ Ahead(v)
    BY <1>3, <2>1, <2>2
  <2> QED BY <1>5, <1>7, <2>1, <2>3
<1> QED BY <1>8, <1>9, <1>10, <1>11, <1>12 DEF UpdateStep

\* The filter keeps a member of the frontier for the next round when it finds it
\* UNDECIDED, which is not the smallest.
LEMMA FilterKeepsRInv ==
  ASSUME IInv, GInv, RInv, NEW v \in V, Filter(v)
  PROVE  RInv'
<1>1. flags \in [V -> Status] /\ dOut \in [V -> BOOLEAN]
  BY DEF IInv, MISType
<1>2. /\ pc = "filter" /\ pc' = pc /\ Unfiltered(v) /\ vs' = vs
      /\ dOut' = [dOut EXCEPT ![v] = flags[v] \notin {"CONDITIONALLY_IN", "OUT"}]
      /\ flags' = [flags EXCEPT ![v] = CASE @ = "CONDITIONALLY_IN" -> "IN"
                                         [] @ = "OUT"              -> "OUT"
                                         [] OTHER                  -> "CONDITIONALLY_IN"]
  BY DEF Filter, emVars, IsIn, Unfiltered
<1>3. flags[v] # "IN"
  BY <1>2 DEF GInv, FilterKnows
<1>4. /\ flags'[v] # "UNDECIDED"
      /\ dOut'[v] => flags[v] = "UNDECIDED"
      /\ \A u \in V : u # v => flags'[u] = flags[u] /\ dOut'[u] = dOut[u]
  BY <1>1, <1>2, <1>3 DEF Status
<1> QED BY <1>2, <1>4 DEF RInv, SomeLeft, Behind, Kept, Rivals, Ahead, Unfiltered

\* When the round ends nothing is UNDECIDED.
LEMMA EndRoundFrame ==
  ASSUME IInv, EndRound
  PROVE  /\ pc = "filter" /\ pc' = (IF \E v \in V : dOut[v] THEN "edgemap" ELSE "end")
         /\ vs' = OfBits(dOut) /\ phase' = "call" /\ flags' = flags /\ dOut' = dOut
         /\ \A v \in V : ~Unfiltered(v)
  BY DEF EndRound, NextCall, IsIn, Unfiltered, IInv, MISType

LEMMA EndRoundKeepsRInv ==
  ASSUME IInv, GInv, EndRound
  PROVE  RInv'
<1>1. /\ pc = "filter" /\ pc' = (IF \E v \in V : dOut[v] THEN "edgemap" ELSE "end")
      /\ vs'.d = dOut /\ phase' = "call" /\ flags' = flags
      /\ \A v \in V : ~Unfiltered(v)
  BY EndRoundFrame DEF OfBits
<1>2. \A v \in V : flags[v] # "UNDECIDED"
  BY <1>1 DEF GInv, Decided, IInv, FilterInv
<1> QED BY <1>1, <1>2 DEF RInv, SomeLeft, Behind, Kept, Rivals

LEMMA NextKeepsRInv == IInv /\ GInv /\ RInv /\ [Next]_vars => RInv'
<1> SUFFICES ASSUME IInv, GInv, RInv, [Next]_vars PROVE RInv'
  OBVIOUS
<1>1. CASE pc = "edgemap" /\ Leave
  <2>1. phase' = "ret" /\ pc' = pc /\ flags' = flags /\ vs' = vs
    BY <1>1 DEF Leave, LeaveCall, ReturnDense, ReturnSparse, Returning, misVars
  <2> QED BY <1>1, <2>1 DEF RInv, SomeLeft, Behind, Kept, Rivals, Ahead
<1>2. CASE pc = "edgemap" /\ EdgeMapStep /\ ~Leave
  BY <1>2, EnterKeepsRInv, ScanKeepsRInv, UpdateKeepsRInv DEF EdgeMapStep
<1>3. CASE StartFilter
  <2>1. /\ pc = "edgemap" /\ phase = "ret" /\ pc' = "filter" /\ vs' = ToDense(vs, V)
        /\ flags' = flags /\ dOut' = [v \in V |-> FALSE]
    BY <1>3 DEF StartFilter
  <2>2. vs'.d = vs.d
    BY <2>1, ConversionsKeepFrontier DEF IInv
  <2>3. vs'.isDense
    BY <2>1 DEF ToDense
  <2> QED BY <2>1, <2>2, <2>3 DEF RInv, SomeLeft, Behind, Kept, Rivals, Ahead
<1>4. CASE \E v \in V : Filter(v)
  BY <1>4, FilterKeepsRInv
<1>5. CASE EndRound
  BY <1>5, EndRoundKeepsRInv
<1>6. CASE UNCHANGED vars
  <2>1. Items' = Items /\ \A it : Dst(it)' = Dst(it)
    BY <1>6, ItemsFrame DEF vars, emVars
  <2>2. \A it \in Items : Rival(it) => Rival(it)'
    BY <1>6, <2>1 DEF vars, emVars, misVars, Rival
  <2>3. Rivals'
    BY <1>6, <2>1, <2>2 DEF vars, emVars, misVars, RInv, Rivals
  <2> QED BY <1>6, <2>3 DEF vars, emVars, misVars, RInv, SomeLeft, Behind, Kept, Ahead
<1> QED BY <1>1, <1>2, <1>3, <1>4, <1>5, <1>6 DEF Next

\* Each round of MIS decides a vertex, whatever the races of its updates: the frontier
\* shrinks, so Compute needs no more rounds than there are vertices.
THEOREM EveryRoundDecides == ASSUME Symmetric PROVE Spec => RoundDecides
<1> DEFINE Shrinks == pc = "filter" /\ pc' # "filter" =>
                        Members(vs') \subseteq Members(vs) /\ Members(vs') # Members(vs)
<1>1. IInv /\ GInv /\ RInv /\ [Next]_vars => [Shrinks]_vars
  <2> SUFFICES ASSUME IInv, GInv, RInv, Next, pc = "filter", pc' # "filter"
               PROVE  Members(vs') \subseteq Members(vs) /\ Members(vs') # Members(vs)
    OBVIOUS
  <2>1. EndRound
    BY DEF Next, StartFilter, Filter
  <2>2. vs' = OfBits(dOut) /\ dOut \in [V -> BOOLEAN] /\ vs.d \in [V -> BOOLEAN]
    BY <2>1, EndRoundFrame DEF IInv, MISType
  <2>3. Members(vs') = {v \in V : dOut[v]} /\ Members(vs) = {v \in V : vs.d[v]}
    BY <2>2 DEF RInv, Kept, Members, Trues, OfBits
  <2>4. \A v \in V : dOut[v] => vs.d[v] /\ Ahead(v)
    BY DEF RInv, Kept
  <2>5. PICK v \in Members(vs) : \A u \in Members(vs) : v <= u
    <3>1. Members(vs) \in SUBSET Nat /\ Members(vs) # {}
      BY <2>3 DEF RInv, SomeLeft, V
    <3> QED BY <3>1, LeastMember
  <2>6. ~Ahead(v)
    <3>1. v \in V /\ \A u \in V : vs.d[u] => v <= u
      BY <2>3, <2>5
    <3>2. \A u \in V : v <= u => ~(u < v)
      BY <3>1, VertexSet
    <3> QED BY <3>1, <3>2 DEF Ahead
  <2> QED BY <2>3, <2>4, <2>5, <2>6
<1>2. IInv /\ [Next]_vars => IInv'
  BY NextKeepsIInv
<1> QED BY <1>1, <1>2, MISInvariant, InitIInv, InitGInv, NextKeepsGInv, InitRInv, NextKeepsRInv, PTL DEF Spec, RoundDecides
=============================================================================
