------------------------------ MODULE EdgeMap ------------------------------
(***************************************************************************)
(* One call of nvmEdgeMap (and of the DRAM edgeMap, whose control is the   *)
(* same): the choice between the sparse, the sparse-no-filter, the dense   *)
(* and the dense-forward traversal, the parallel loop of each, and the     *)
(* construction of the output subset.                                      *)
(*                                                                         *)
(* A work item <<o, j>> is iteration j of the loop over the edges of the   *)
(* o-th owner.  The owner is an index of the frontier's array in a sparse  *)
(* traversal and a vertex in a dense one.  Items that the code runs in     *)
(* different iterations of a parallel_for may interleave at every call of  *)
(* the user's cond, update and updateAtomic; the others run in order.      *)
(*                                                                         *)
(* The module has no Next of its own.  Its actions take the answers of the *)
(* user's functions as parameters; EdgeMapUser closes it with an arbitrary *)
(* user, and BFS, MIS and Components with the real ones, whose update may  *)
(* take several steps while the item is in state "upd".                    *)
(***************************************************************************)
EXTENDS Integers, FiniteSets

(* nvmVertexSubsetData<pbbs::empty> (the DRAM vertexSubset is the same     *)
(* code): a set of vertices held as an array of indices s, an array of     *)
(* bits d, or both, with a stored count m and a flag saying which of the   *)
(* two is current.  NULL is the null pointer.                              *)
CONSTANT NULL

\* The i-th smallest member of a finite set of integers, counting from 0.
Nth(S, i) == CHOOSE x \in S : Cardinality({y \in S : y < x}) = i

\* The true indices of an array of bits, the first k entries of an array.
Trues(bits) == {v \in DOMAIN bits : bits[v]}
Entries(arr, k) == {arr[i] : i \in 0 .. k - 1}

\* pbbs::pack_index: the indices of the true entries, in increasing order.
PackIndex(bits) ==
  [i \in 0 .. Cardinality(Trues(bits)) - 1 |-> Nth(Trues(bits), i)]

\* pbbs::filterf / pbbs::pack: the entries of arr whose index is in K, in order.
Keep(arr, K) == [i \in 0 .. Cardinality(K) - 1 |-> arr[Nth(K, i)]]

EmptySubset == [s |-> NULL, d |-> NULL, m |-> 0, isDense |-> FALSE]

OfIndices(k, arr) == [s |-> arr, d |-> NULL, m |-> k, isDense |-> FALSE]

OfBits(bits) ==
  [s |-> NULL, d |-> bits, m |-> Cardinality(Trues(bits)), isDense |-> TRUE]

\* toSparse packs the bits when there is no index array yet; it aborts when the
\* number it packs is not the stored m ("bad stored value of m").
PacksBits(S) == S.s = NULL /\ S.m > 0
BadM(S) == PacksBits(S) /\ Cardinality(Trues(S.d)) # S.m
ToSparse(S) == [S EXCEPT !.s = IF PacksBits(S) THEN PackIndex(S.d) ELSE S.s,
                         !.isDense = FALSE]

\* Mutant: the loop over the indices stops one short.
ToDenseDropsLast(S, verts) ==
  [S EXCEPT !.d = IF S.d = NULL
                  THEN [v \in verts |-> v \in Entries(S.s, S.m - 1)]
                  ELSE S.d,
            !.isDense = TRUE]

\* toDense builds the bits from the m indices and keeps the index array.
ToDense(S, verts) ==
  [S EXCEPT !.d = IF S.d = NULL
                  THEN [v \in verts |-> v \in Entries(S.s, S.m)]
                  ELSE S.d,
            !.isDense = TRUE]

IsIn(S, v) == S.d[v]

Members(S) == IF S.isDense THEN Trues(S.d) ELSE Entries(S.s, S.m)

\* What the constructors establish and every reader relies on: the arrays that are
\* there have the right shape, the stored m counts the bits when only the bits are
\* there, and the two arrays agree when both are.
IsSubset(S, verts) ==
  /\ DOMAIN S = {"s", "d", "m", "isDense"}
  /\ S.m \in Nat
  /\ S.isDense \in BOOLEAN
  /\ S.s = NULL \/ S.s \in [0 .. S.m - 1 -> verts]
  /\ S.d = NULL \/ S.d \in [verts -> BOOLEAN]
  /\ S.isDense => S.d # NULL
  /\ S.m > 0 => S.s # NULL \/ S.d # NULL

Agrees(S) ==
  /\ S.s = NULL /\ S.d # NULL => S.m = Cardinality(Trues(S.d))
  /\ S.s # NULL /\ S.d # NULL => Entries(S.s, S.m) = Trues(S.d)
-----------------------------------------------------------------------------
(* The graph as the edge maps see it: struct nvmgraph and the vertex       *)
(* structs nvmSymmetricVertex / nvmAsymmetricVertex, which point into one  *)
(* flat array of edges.  Arrays are functions from 0, as in C.  An edge of *)
(* the out-array is its target, an edge of the in-array its source: this   *)
(* is what readNvmgraphFromFile stores in edge::to.                        *)
CONSTANTS
  n,          \* number of vertices
  m,          \* number of edges
  offset,     \* offset[v]: where the out-edges of v start in E
  E,          \* E[i]: target of the i-th edge
  inOffset,   \* the same for the in-edges
  inE,        \* inE[i]: source of the i-th in-edge
  Beyond      \* what a read past the end of E yields

V == 0 .. n - 1

OutDegree(v) == (IF v = n - 1 THEN m ELSE offset[v + 1]) - offset[v]
InDegree(v)  == (IF v = n - 1 THEN m ELSE inOffset[v + 1]) - inOffset[v]

\* Reading neighbors[j], the pointer neighbors being E + offset[v].
OutNeighbor(v, j) == IF offset[v] + j < m THEN E[offset[v] + j] ELSE Beyond
InNeighbor(v, j)  == inE[inOffset[v] + j]

Edges == {e \in V \X V : \E j \in 0 .. OutDegree(e[1]) - 1 : OutNeighbor(e[1], j) = e[2]}

IsCSR(off, edges) ==
  /\ off \in [V -> 0 .. m]
  /\ off[0] = 0
  /\ \A v \in V : v + 1 \in V => off[v] <= off[v + 1]
  /\ edges \in [0 .. m - 1 -> V]

\* The in-array is the transpose of the out-array.
IsTranspose ==
  /\ \A v \in V : \A j \in 0 .. OutDegree(v) - 1 :
       LET d == OutNeighbor(v, j) IN \E k \in 0 .. InDegree(d) - 1 : InNeighbor(d, k) = v
  /\ \A d \in V : \A k \in 0 .. InDegree(d) - 1 :
       LET v == InNeighbor(d, k) IN \E j \in 0 .. OutDegree(v) - 1 : OutNeighbor(v, j) = d

ASSUME GraphAssumption ==
  /\ n \in Nat \ {0}
  /\ m \in Nat
  /\ Beyond \in V
  /\ IsCSR(offset, E)
  /\ IsCSR(inOffset, inE)
  /\ IsTranspose

-----------------------------------------------------------------------------
CONSTANTS
  UINT_E_MAX, \* the "no vertex" entry of an output array
  UNINIT,     \* an entry of a malloc'ed array nobody has written
  Nvm,        \* TRUE: decode_nvm, FALSE: decode_uncompressed
  Div,        \* the default threshold is m / Div; 20 in the code
  Grain,      \* adjacency lists this long run in parallel; 1000 in the code
  BSize       \* b_size of sparse_no_filter; 10000 in the code

ASSUME EdgeMapAssumption ==
  /\ NULL \notin [V -> BOOLEAN]
  /\ UINT_E_MAX \notin V /\ UNINIT \notin V /\ UNINIT \notin BOOLEAN
  /\ UNINIT # UINT_E_MAX
  /\ Nvm \in BOOLEAN
  /\ Div \in Nat \ {0} /\ Grain \in Nat /\ BSize \in Nat \ {0}

VARIABLES
  fl, threshold,  \* the arguments of the call
  vs,             \* the frontier
  phase,          \* "call", "map", "ret", or "crash" / "abort"
  mode,           \* the traversal chosen
  begun,          \* owners whose iteration of the outer loop has begun
  st,             \* state of each work item
  outEdges,       \* output of the sparse traversals
  cts,            \* sparse_no_filter: entries each block has written
  next,           \* output bits of the dense traversals
  res             \* the subset returned

emVars == <<fl, threshold, vs, phase, mode, begun, st, outEdges, cts, next, res>>

Flags == {"no_output", "sparse_no_filter", "dense_forward", "dense_parallel",
          "remove_duplicates", "no_dense"}
ShouldOutput == "no_output" \notin fl

Modes == {"none", "sparse", "nofilter", "dense", "forward"}
IsSparse == mode \in {"sparse", "nofilter"}

-----------------------------------------------------------------------------
(* plusScan / plusReduce over the degrees of a sparse frontier *)

OffsetsOf(S) ==
  LET sum[i \in 0 .. S.m] == IF i = 0 THEN 0 ELSE sum[i - 1] + OutDegree(S.s[i - 1])
  IN  sum
Offsets == OffsetsOf(vs)
OutEdgeCount == Offsets[vs.m]

T == IF threshold = -1 THEN m \div Div ELSE threshold

\* outDegrees stays 0 when the threshold is not positive.
OutDegrees == IF T > 0 THEN OffsetsOf(ToSparse(vs))[vs.m] ELSE 0
NoOutEdges == \A v \in Members(vs) : OutDegree(v) = 0   \* outDegrees == 0
UseDense == "no_dense" \notin fl /\ vs.m + OutDegrees > T
ChosenMode ==
  IF UseDense THEN (IF "dense_forward" \in fl THEN "forward" ELSE "dense")
  ELSE IF ShouldOutput /\ "sparse_no_filter" \in fl THEN "nofilter" ELSE "sparse"

-----------------------------------------------------------------------------
(* The loops *)

OwnersOf(S, md) ==
  CASE md \in {"sparse", "nofilter"} -> 0 .. S.m - 1
    [] md = "dense"   -> V
    [] md = "forward" -> {v \in V : IsIn(S, v)}
    [] OTHER          -> {}
Vertex(o) == IF IsSparse THEN vs.s[o] ELSE o
DegreeIn(S, md, o) ==
  CASE md \in {"sparse", "nofilter"} -> OutDegree(S.s[o])
    [] md = "dense"   -> InDegree(o)
    [] OTHER          -> OutDegree(o)
Degree(o) == DegreeIn(vs, mode, o)
ItemsOf(S, md) ==
  {it \in OwnersOf(S, md) \X (0 .. m - 1) : it[2] < DegreeIn(S, md, it[1])}
Items == ItemsOf(vs, mode)

\* decode_nvm::decodeOutNgh asks getOutNeighbor for j plus the vertex's offset.
ForwardNeighbor(v, j) == OutNeighbor(v, IF Nvm THEN offset[v] + j ELSE j)

Src(it) == IF mode = "dense" THEN InNeighbor(it[1], it[2]) ELSE Vertex(it[1])
Dst(it) == CASE mode = "dense"   -> it[1]
             [] mode = "forward" -> ForwardNeighbor(it[1], it[2])
             [] OTHER            -> OutNeighbor(Vertex(it[1]), it[2])

\* granular_for and the dense_parallel branch
RunsParallel(o) ==
  CASE mode \in {"sparse", "forward"} -> Degree(o) > Grain
    [] mode = "dense" -> "dense_parallel" \in fl /\ Degree(o) >= Grain
    [] OTHER -> FALSE

\* Blocks of sparse_no_filter: block_offs[i] is the first frontier index whose
\* offset is at least i * b_size.
NBlocks == (OutEdgeCount + BSize - 1) \div BSize
BlockOff(i) ==
  IF i = NBlocks THEN vs.m
  ELSE CHOOSE k \in 0 .. vs.m : /\ k < vs.m => Offsets[k] >= i * BSize
                                /\ \A k2 \in 0 .. k - 1 : Offsets[k2] < i * BSize
BlockOf(o) == CHOOSE b \in 0 .. NBlocks - 1 : BlockOff(b) <= o /\ o < BlockOff(b + 1)

\* Mutant: every loop over a neighbour list is parallel.
BeforeNothing(it) == {}

\* Items the code runs before it on the same worker.
Before(it) ==
  IF mode = "nofilter"
  THEN {x \in Items : /\ BlockOf(x[1]) = BlockOf(it[1])
                      /\ x[1] < it[1] \/ (x[1] = it[1] /\ x[2] < it[2])}
  ELSE IF RunsParallel(it[1]) THEN {} ELSE {x \in Items : x[1] = it[1] /\ x[2] < it[2]}

Ready(it) == /\ it[1] \in begun
             /\ st[it] = "todo"
             /\ \A x \in Before(it) : st[x] = "done"

-----------------------------------------------------------------------------
(* The g functions of edgeMap_utils.h *)

\* Mutant: no UINT_E_MAX is stored when the update answers FALSE.
EmitHitsOnly(it, r) ==
  LET slot == IF mode = "sparse" THEN Offsets[it[1]] + it[2]
              ELSE Offsets[BlockOff(BlockOf(it[1]))] + cts[BlockOf(it[1])]
  IN  /\ outEdges' = IF r THEN [outEdges EXCEPT ![slot] = Dst(it)] ELSE outEdges
      /\ cts' = IF mode = "nofilter" /\ r THEN [cts EXCEPT ![BlockOf(it[1])] = @ + 1]
                ELSE cts

\* get_emsparse_gen writes every slot, the entry of no_filter's g only a hit.
Emit(it, r) ==
  LET slot == IF mode = "sparse" THEN Offsets[it[1]] + it[2]
              ELSE Offsets[BlockOff(BlockOf(it[1]))] + cts[BlockOf(it[1])]
  IN  /\ outEdges' = IF mode = "sparse" \/ r
                     THEN [outEdges EXCEPT ![slot] = IF r THEN Dst(it) ELSE UINT_E_MAX]
                     ELSE outEdges
      /\ cts' = IF mode = "nofilter" /\ r THEN [cts EXCEPT ![BlockOf(it[1])] = @ + 1]
                ELSE cts

\* Mutant: the bit of the source is set.
MarkSource(it, r) == next' = IF r THEN [next EXCEPT ![Src(it)] = TRUE] ELSE next

Mark(it, r) == next' = IF r THEN [next EXCEPT ![Dst(it)] = TRUE] ELSE next

\* What is written when the item's update answered r (FALSE also stands for the
\* call of g without an answer, for a destination that fails cond).
Write(it, r) ==
  IF ~ShouldOutput THEN UNCHANGED <<outEdges, cts, next>>
  ELSE IF IsSparse THEN Emit(it, r) /\ UNCHANGED next
  ELSE Mark(it, r) /\ UNCHANGED <<outEdges, cts>>

-----------------------------------------------------------------------------
(* nvmEdgeMapData *)

Returning(S) == /\ res' = S
                /\ phase' = "ret"

\* m == 0, or no out-edges at all: an empty subset is returned.
CallEmpty ==
  /\ phase = "call"
  /\ \/ vs.m = 0 /\ UNCHANGED vs
     \/ vs.m > 0 /\ T > 0 /\ ~BadM(vs) /\ NoOutEdges /\ vs' = ToSparse(vs)
  /\ Returning(EmptySubset)
  /\ UNCHANGED <<fl, threshold, mode, begun, st, outEdges, cts, next>>

Starts == phase = "call" /\ vs.m > 0 /\ ~(T > 0 /\ (BadM(vs) \/ NoOutEdges))

CallDense ==
  /\ Starts /\ UseDense
  /\ vs' = ToDense(IF T > 0 THEN ToSparse(vs) ELSE vs, V)
  /\ mode' = ChosenMode
  /\ st' = [it \in ItemsOf(vs', mode') |-> "todo"]
  /\ begun' = IF mode' = "forward" THEN OwnersOf(vs', mode') ELSE {}
  /\ next' = [v \in V |-> IF mode' = "forward" THEN FALSE ELSE UNINIT]
  /\ phase' = "map"
  /\ UNCHANGED <<fl, threshold, outEdges, cts, res>>

CallSparse ==
  /\ Starts /\ ~UseDense /\ T > 0
  /\ vs' = ToSparse(vs)
  /\ mode' = ChosenMode
  /\ st' = [it \in ItemsOf(vs', mode') |-> "todo"]
  /\ begun' = OwnersOf(vs', mode')
  /\ outEdges' = IF ShouldOutput THEN [i \in 0 .. OffsetsOf(vs')[vs.m] - 1 |-> UNINIT]
                 ELSE <<>>
  /\ cts' = [b \in 0 .. NBlocks' - 1 |-> 0]
  /\ phase' = "map"
  /\ UNCHANGED <<fl, threshold, next, res>>

\* With a threshold that is not positive, degrees and frontierVertices are still
\* NULL when the sparse traversal dereferences them; toSparse aborts on a bad m.
CallDies ==
  /\ phase = "call" /\ vs.m > 0
  /\ \/ T <= 0 /\ ~UseDense
     \/ T > 0 /\ BadM(vs)
  /\ phase' = IF T <= 0 THEN "crash" ELSE "abort"
  /\ UNCHANGED <<fl, threshold, vs, mode, begun, st, outEdges, cts, next, res>>

-----------------------------------------------------------------------------
(* The traversals.  c and r are the answers of cond and of update. *)

\* nvmEdgeMapDense enters the iteration of vertex v.
DenseVertex(v, c) ==
  /\ phase = "map" /\ mode = "dense" /\ v \notin begun
  /\ begun' = begun \cup {v}
  /\ next' = IF ShouldOutput THEN [next EXCEPT ![v] = FALSE] ELSE next
  /\ st' = [it \in Items |-> IF it[1] = v /\ ~c THEN "done" ELSE st[it]]
  /\ UNCHANGED <<fl, threshold, vs, phase, mode, outEdges, cts, res>>

\* Mutant: the loop does not go past an in-neighbour outside the frontier.
InNghStays(it) ==
  /\ phase = "map" /\ mode = "dense" /\ Ready(it)
  /\ st' = IF IsIn(vs, Src(it)) THEN [st EXCEPT ![it] = "upd"] ELSE st
  /\ UNCHANGED <<fl, threshold, vs, phase, mode, begun, outEdges, cts, next, res>>

\* decodeInNghBreakEarly looks at one in-neighbour: update is called on a member
\* of the frontier; the sequential loop then tests cond.
InNgh(it) ==
  /\ phase = "map" /\ mode = "dense" /\ Ready(it)
  /\ st' = [st EXCEPT ![it] = IF IsIn(vs, Src(it)) THEN "upd"
                              ELSE IF RunsParallel(it[1]) THEN "done" ELSE "chk"]
  /\ UNCHANGED <<fl, threshold, vs, phase, mode, begun, outEdges, cts, next, res>>

\* Mutant: the loop breaks while cond is true.
BreakWhileOpen(it, c) ==
  /\ phase = "map" /\ st[it] = "chk"
  /\ st' = [x \in Items |-> IF x = it \/ (c /\ x[1] = it[1]) THEN "done" ELSE st[x]]
  /\ UNCHANGED <<fl, threshold, vs, phase, mode, begun, outEdges, cts, next, res>>

BreakEarly(it, c) ==
  /\ phase = "map" /\ st[it] = "chk"
  /\ st' = [x \in Items |-> IF x = it \/ (~c /\ x[1] = it[1]) THEN "done" ELSE st[x]]
  /\ UNCHANGED <<fl, threshold, vs, phase, mode, begun, outEdges, cts, next, res>>

\* decodeOutNghSparse, decodeOutNghSparseSeq, decodeOutNgh: cond comes first.
OutNgh(it, c) ==
  /\ phase = "map" /\ mode # "dense" /\ Ready(it)
  /\ st' = [st EXCEPT ![it] = IF c THEN "upd" ELSE "done"]
  /\ IF c THEN UNCHANGED <<outEdges, cts, next>> ELSE Write(it, FALSE)
  /\ UNCHANGED <<fl, threshold, vs, phase, mode, begun, res>>

\* update / updateAtomic of the item answers r and g stores it.
Updated(it, r) ==
  /\ phase = "map" /\ st[it] = "upd"
  /\ st' = [st EXCEPT ![it] =
              IF mode = "dense" /\ ~RunsParallel(it[1]) THEN "chk" ELSE "done"]
  /\ Write(it, r)
  /\ UNCHANGED <<fl, threshold, vs, phase, mode, begun, res>>

-----------------------------------------------------------------------------
(* The output, once the parallel loops have joined *)

\* Mutant: remDuplicates removes nothing.
KeepDuplicates(arr) == {arr}

\* remDuplicates: of the entries with one key, whichever won the CAS survives.
RemDuplicates(arr) ==
  LET keys == {arr[i] : i \in DOMAIN arr} \ {UINT_E_MAX}
      wins == {w \in [keys -> DOMAIN arr] : \A k \in keys : arr[w[k]] = k}
  IN  {[i \in DOMAIN arr |-> IF arr[i] \in keys /\ w[arr[i]] # i
                             THEN UINT_E_MAX ELSE arr[i]] : w \in wins}

NonMax(arr) == Keep(arr, {i \in DOMAIN arr : arr[i] # UINT_E_MAX})

\* sparse_no_filter copies the entries each block wrote next to each other.
CopyBlocks ==
  LET from == UNION {{Offsets[BlockOff(b)] + k : k \in 0 .. cts[b] - 1} :
                       b \in {b \in 0 .. NBlocks - 1 : BlockOff(b) # BlockOff(b + 1)}}
  IN  Keep(outEdges, from)

OfArray(arr) == OfIndices(Cardinality(DOMAIN arr), arr)

Joined == phase = "map" /\ \A it \in Items : st[it] = "done"

ReturnDense ==
  /\ Joined /\ mode \in {"dense", "forward"}
  /\ mode = "dense" => begun = V
  /\ Returning(IF ShouldOutput THEN OfBits(next) ELSE EmptySubset)
  /\ UNCHANGED <<fl, threshold, vs, mode, begun, st, outEdges, cts, next>>

ReturnSparse ==
  /\ Joined /\ IsSparse
  /\ LET out == IF mode = "nofilter" THEN CopyBlocks ELSE outEdges
     IN  \/ ~ShouldOutput /\ Returning(EmptySubset)
         \/ /\ ShouldOutput /\ "remove_duplicates" \in fl
            /\ \E u \in RemDuplicates(out) : Returning(OfArray(NonMax(u)))
         \/ /\ ShouldOutput /\ "remove_duplicates" \notin fl
            /\ Returning(OfArray(IF mode = "sparse" THEN NonMax(out) ELSE out))
  /\ UNCHANGED <<fl, threshold, vs, mode, begun, st, outEdges, cts, next>>

EnterCall == CallEmpty \/ CallDense \/ CallSparse \/ CallDies
LeaveCall == ReturnDense \/ ReturnSparse

-----------------------------------------------------------------------------
InitCall(S, flags, thr) ==
  /\ fl = flags /\ threshold = thr /\ vs = S
  /\ phase = "call" /\ mode = "none" /\ begun = {}
  /\ st = <<>> /\ outEdges = <<>> /\ cts = <<>> /\ next = <<>>
  /\ res = EmptySubset

\* The caller's loop makes the next call, with the same arguments, on frontier S.
NextCall(S) ==
  /\ vs' = S /\ phase' = "call" /\ mode' = "none" /\ begun' = {}
  /\ st' = <<>> /\ outEdges' = <<>> /\ cts' = <<>> /\ next' = <<>>
  /\ res' = EmptySubset
  /\ UNCHANGED <<fl, threshold>>

EdgeMapTypeOK ==
  /\ fl \subseteq Flags
  /\ threshold \in Int
  /\ IsSubset(vs, V)
  /\ phase \in {"call", "map", "ret", "crash", "abort"}
  /\ mode \in Modes
  /\ phase = "map" => /\ mode # "none"
                      /\ begun \subseteq OwnersOf(vs, mode)
                      /\ st \in [Items -> {"todo", "upd", "chk", "done"}]
  /\ IsSubset(res, V)
=============================================================================
