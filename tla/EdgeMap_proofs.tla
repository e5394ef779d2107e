--------------------------- MODULE EdgeMap_proofs ---------------------------
(***************************************************************************)
(* Facts that the proofs about edgeMap and the programs over it share: the *)
(* graph, the two representations of a vertex subset, the places of the    *)
(* items in the output array, and the output itself.  Found(v) are the     *)
(* places of the output that hold v; the subset a call returns has just    *)
(* these (SparseDelivers, DenseDelivers, LeaveStep).                       *)
(***************************************************************************)
EXTENDS EdgeMap, FiniteSetTheorems, FunctionTheorems, WellFoundedInduction, TLAPS

\* Every set of naturals that is not empty has a least member.
LEMMA LeastMember ==
  ASSUME NEW S \in SUBSET Nat, S # {}
  PROVE  \E x \in S : \A y \in S : x <= y
<1> DEFINE R == {ss \in Nat \X Nat : ss[1] < ss[2]}
<1>1. IsWellFoundedOn(R, Nat)
  BY NatLessThanWellFounded DEF OpToRel
<1>2. \A x, y \in Nat : y < x => <<y, x>> \in R
  OBVIOUS
<1> HIDE DEF R
<1>3. PICK x \in S : \A y \in S : <<y, x>> \notin R
  BY <1>1, WFMin
<1>4. \A y \in S : ~(y < x) /\ y \in Nat /\ x \in Nat
  BY <1>2, <1>3
<1> QED BY <1>3, <1>4

\* Induction over the naturals, for a set.
LEMMA SetInduction ==
  ASSUME NEW S, 0 \in S, \A k \in Nat : k \in S => k + 1 \in S
  PROVE  Nat \subseteq S
<1> SUFFICES ASSUME NEW z \in Nat, z \notin S PROVE FALSE
  OBVIOUS
<1>1. PICK x \in Nat \ S : \A y \in Nat \ S : x <= y
  <2>1. Nat \ S \in SUBSET Nat /\ Nat \ S # {}
    OBVIOUS
  <2> QED BY <2>1, LeastMember
<1>2. x # 0 /\ x - 1 \in Nat
  OBVIOUS
<1>3. x - 1 \in S
  BY <1>1, <1>2
<1> QED BY <1>2, <1>3

\* The vertices are a finite set of integers.
LEMMA VertexSet == /\ V \in SUBSET Int /\ IsFiniteSet(V) /\ Cardinality(V) = n
                   /\ n \in Nat /\ m \in Nat /\ 0 \in V
<1>1. n \in Nat \ {0} /\ m \in Nat
  BY GraphAssumption
<1>2. IsFiniteSet(0 .. n - 1) /\ Cardinality(0 .. n - 1) = IF 0 > n - 1 THEN 0 ELSE (n - 1) - 0 + 1
  BY <1>1, FS_Interval
<1> QED BY <1>1, <1>2 DEF V

\* No list is longer than the edge array, and what it holds are vertices.
LEMMA DegreeBounds ==
  ASSUME NEW v \in V
  PROVE  /\ OutDegree(v) \in Nat /\ OutDegree(v) <= m
         /\ InDegree(v) \in Nat /\ InDegree(v) <= m
         /\ \A j \in 0 .. OutDegree(v) - 1 : OutNeighbor(v, j) \in V
         /\ \A j \in 0 .. InDegree(v) - 1 : InNeighbor(v, j) \in V
<1>1. /\ n \in Nat \ {0} /\ m \in Nat /\ Beyond \in V
      /\ IsCSR(offset, E) /\ IsCSR(inOffset, inE)
  BY GraphAssumption
<1>2. offset[v] \in 0 .. m /\ inOffset[v] \in 0 .. m
  BY <1>1 DEF IsCSR
<1>3. v # n - 1 => /\ v + 1 \in V
                   /\ offset[v + 1] \in 0 .. m /\ offset[v] <= offset[v + 1]
                   /\ inOffset[v + 1] \in 0 .. m /\ inOffset[v] <= inOffset[v + 1]
  BY <1>1 DEF IsCSR, V
<1>4. /\ OutDegree(v) \in Nat /\ offset[v] + OutDegree(v) <= m
      /\ InDegree(v) \in Nat /\ inOffset[v] + InDegree(v) <= m
  BY <1>1, <1>2, <1>3 DEF OutDegree, InDegree
<1>5. \A i \in 0 .. m - 1 : E[i] \in V /\ inE[i] \in V
  BY <1>1 DEF IsCSR
<1>6. \A j \in 0 .. OutDegree(v) - 1 : OutNeighbor(v, j) \in V
  BY <1>1, <1>2, <1>4, <1>5 DEF OutNeighbor
<1>7. \A j \in 0 .. InDegree(v) - 1 : InNeighbor(v, j) \in V
  BY <1>1, <1>2, <1>4, <1>5 DEF InNeighbor
<1> QED BY <1>1, <1>2, <1>4, <1>6, <1>7

-----------------------------------------------------------------------------
\* The rank of a member of a finite set of integers, and the member of a given
\* rank, are inverse to each other: pack_index writes every true index once.
LEMMA NthIsBijection ==
  ASSUME NEW S \in SUBSET Int, IsFiniteSet(S)
  PROVE  /\ \A i \in 0 .. Cardinality(S) - 1 : Nth(S, i) \in S
         /\ \A x \in S : \E i \in 0 .. Cardinality(S) - 1 : Nth(S, i) = x
         /\ \A i, j \in 0 .. Cardinality(S) - 1 : Nth(S, i) = Nth(S, j) => i = j
<1> DEFINE Below(x) == {y \in S : y < x}
           rank == [x \in S |-> Cardinality(Below(x))]
           R == 0 .. Cardinality(S) - 1
<1>1. \A x \in S : IsFiniteSet(Below(x)) /\ Cardinality(Below(x)) \in R
  <2> TAKE x \in S
  <2>1. IsFiniteSet(Below(x)) /\ Cardinality(Below(x)) <= Cardinality(S)
    BY FS_Subset
  <2>2. Cardinality(Below(x)) # Cardinality(S)
    <3>1. Below(x) # S
      OBVIOUS
    <3> QED BY <3>1, FS_Subset
  <2>3. Cardinality(Below(x)) \in Nat /\ Cardinality(S) \in Nat
    BY <2>1, FS_CardinalityType
  <2> QED BY <2>1, <2>2, <2>3
<1>2. \A x, y \in S : x < y => rank[x] < rank[y]
  <2> SUFFICES ASSUME NEW x \in S, NEW y \in S, x < y
               PROVE  Cardinality(Below(x)) < Cardinality(Below(y))
    OBVIOUS
  <2>1. Below(x) \in SUBSET Below(y) /\ Below(x) # Below(y)
    <3>1. x \in Int /\ y \in Int
      OBVIOUS
    <3>2. \A z \in S : z \in Int
      OBVIOUS
    <3>3. x \in Below(y) /\ x \notin Below(x)
      BY <3>1
    <3>4. ASSUME NEW z \in Below(x) PROVE z \in Below(y)
      BY <3>1, <3>2
    <3> QED BY <3>3, <3>4
  <2>2. /\ Cardinality(Below(x)) <= Cardinality(Below(y))
        /\ Cardinality(Below(x)) # Cardinality(Below(y))
    BY <1>1, <2>1, FS_Subset
  <2> QED BY <1>1, <2>2
<1>3. rank \in Injection(S, R)
  <2>1. rank \in [S -> R]
    BY <1>1
  <2>2. ASSUME NEW x \in S, NEW y \in S, rank[x] = rank[y] PROVE x = y
    <3>1. ~(x < y) /\ ~(y < x)
      <4>1. rank[x] \in Int /\ rank[y] \in Int
        BY <2>1
      <4> QED BY <1>2, <2>2, <4>1
    <3> QED BY <3>1
  <2> QED BY <2>1, <2>2 DEF Injection, IsInjective
<1>4. IsFiniteSet(R) /\ Cardinality(R) = Cardinality(S)
  <2>1. Cardinality(S) \in Nat
    BY FS_CardinalityType
  <2>2. 0 \in Int /\ Cardinality(S) - 1 \in Int
    BY <2>1
  <2>3. Cardinality(R) = IF 0 > Cardinality(S) - 1 THEN 0 ELSE (Cardinality(S) - 1) - 0 + 1
    BY <2>2, FS_Interval
  <2>4. IsFiniteSet(R)
    BY <2>2, FS_Interval
  <2> QED BY <2>1, <2>3, <2>4
<1>5. rank \in Surjection(S, R)
  BY <1>3, <1>4, FS_Injection
<1>6. \A i \in R : Nth(S, i) \in S /\ rank[Nth(S, i)] = i
  <2> TAKE i \in R
  <2>1. \E x \in S : rank[x] = i
    BY <1>5 DEF Surjection
  <2>2. \E x \in S : Cardinality({y \in S : y < x}) = i
    BY <2>1
  <2>3. Nth(S, i) \in S /\ Cardinality({y \in S : y < Nth(S, i)}) = i
    BY <2>2 DEF Nth
  <2> QED BY <2>3
<1>7. ASSUME NEW x \in S PROVE \E i \in R : Nth(S, i) = x
  <2>1. rank[x] \in R
    BY <1>1
  <2>2. Nth(S, rank[x]) \in S /\ rank[Nth(S, rank[x])] = rank[x]
    BY <1>6, <2>1
  <2>3. Nth(S, rank[x]) = x
    BY <1>3, <2>2 DEF Injection, IsInjective
  <2> QED BY <2>1, <2>3
<1>8. \A i, j \in R : Nth(S, i) = Nth(S, j) => i = j
  <2> TAKE i, j \in R
  <2>1. rank[Nth(S, i)] = i /\ rank[Nth(S, j)] = j
    BY <1>6
  <2> HIDE DEF rank
  <2> QED BY <2>1
<1> QED BY <1>6, <1>7, <1>8

\* How often an array holds a value, at some indices and at all of them.
CountAt(arr, K, v) == Cardinality({x \in K : arr[x] = v})
Count(arr, v) == CountAt(arr, DOMAIN arr, v)

\* filterf and pack keep every value as often as the indices they are given hold it.
LEMMA KeepCounts ==
  ASSUME NEW arr, NEW K \in SUBSET Int, IsFiniteSet(K)
  PROVE  /\ Cardinality(K) \in Nat /\ DOMAIN Keep(arr, K) = 0 .. Cardinality(K) - 1
         /\ \A i \in 0 .. Cardinality(K) - 1 : \E x \in K : Keep(arr, K)[i] = arr[x]
         /\ \A x \in K : \E i \in 0 .. Cardinality(K) - 1 : Keep(arr, K)[i] = arr[x]
         /\ \A v : Count(Keep(arr, K), v) = CountAt(arr, K, v)
<1> DEFINE k == Cardinality(K)
<1>1. k \in Nat
  BY FS_CardinalityType
<1>2. /\ \A i \in 0 .. k - 1 : Nth(K, i) \in K
      /\ \A x \in K : \E i \in 0 .. k - 1 : Nth(K, i) = x
      /\ \A i, j \in 0 .. k - 1 : Nth(K, i) = Nth(K, j) => i = j
  BY NthIsBijection
<1>3. Keep(arr, K) = [i \in 0 .. k - 1 |-> arr[Nth(K, i)]]
  BY DEF Keep
<1> HIDE DEF k
<1>4. ASSUME NEW v
      PROVE  Count(Keep(arr, K), v) = CountAt(arr, K, v)
  <2> DEFINE A == {i \in 0 .. k - 1 : Keep(arr, K)[i] = v}
             B == {x \in K : arr[x] = v}
             f == [i \in A |-> Nth(K, i)]
  <2>1. \A i \in A : Nth(K, i) \in B
    BY <1>2, <1>3
  <2>2. \A x \in B : \E i \in A : Nth(K, i) = x
    BY <1>2, <1>3
  <2>3. f \in Injection(A, B) /\ f \in Surjection(A, B)
    <3>1. f \in [A -> B]
      BY <2>1
    <3>2. \A i, j \in A : f[i] = f[j] => i = j
      BY <1>2
    <3>3. \A x \in B : \E i \in A : f[i] = x
      BY <2>2
    <3> HIDE DEF f, A, B
    <3> QED BY <3>1, <3>2, <3>3 DEF Injection, Surjection, IsInjective
  <2>4. ExistsBijection(A, B)
    BY <2>3 DEF ExistsBijection, Bijection
  <2>5. IsFiniteSet(A)
    <3>1. IsFiniteSet(0 .. k - 1)
      BY <1>1, FS_Interval
    <3> QED BY <3>1, FS_Subset
  <2>6. IsFiniteSet(B) /\ Cardinality(B) = Cardinality(A)
    BY <2>4, <2>5, FS_Bijection
  <2>7. DOMAIN Keep(arr, K) = 0 .. k - 1
    BY <1>3
  <2> QED BY <2>6, <2>7 DEF Count, CountAt
<1>5. DOMAIN Keep(arr, K) = 0 .. k - 1
  BY <1>3
<1>6. \A i \in 0 .. k - 1 : \E x \in K : Keep(arr, K)[i] = arr[x]
  BY <1>2, <1>3
<1>7. \A x \in K : \E i \in 0 .. k - 1 : Keep(arr, K)[i] = arr[x]
  BY <1>2, <1>3
<1> QED BY <1>1, <1>4, <1>5, <1>6, <1>7, Zenon DEF k

\* pack_index lists exactly the true indices, as many as there are.
LEMMA PackIndexRange ==
  ASSUME NEW verts \in SUBSET Int, IsFiniteSet(verts), NEW bits \in [verts -> BOOLEAN]
  PROVE  LET k == Cardinality(Trues(bits))
         IN  /\ IsFiniteSet(Trues(bits)) /\ k \in Nat
             /\ PackIndex(bits) \in [0 .. k - 1 -> verts]
             /\ Entries(PackIndex(bits), k) = Trues(bits)
<1> DEFINE S == Trues(bits)
<1>1. S \in SUBSET Int /\ S \subseteq verts
  BY DEF Trues
<1>2. IsFiniteSet(S) /\ Cardinality(S) \in Nat
  BY <1>1, FS_Subset, FS_CardinalityType
<1>3. PackIndex(bits) = [i \in 0 .. Cardinality(S) - 1 |-> Nth(S, i)]
  BY DEF PackIndex
<1>4. /\ \A i \in 0 .. Cardinality(S) - 1 : Nth(S, i) \in S
      /\ \A x \in S : \E i \in 0 .. Cardinality(S) - 1 : Nth(S, i) = x
  BY <1>1, <1>2, NthIsBijection
<1> HIDE DEF S
<1>5. PackIndex(bits) \in [0 .. Cardinality(S) - 1 -> verts]
  BY <1>1, <1>3, <1>4
<1>6. Entries(PackIndex(bits), Cardinality(S)) = S
  BY <1>3, <1>4 DEF Entries
<1> QED BY <1>2, <1>5, <1>6 DEF S

\* A subset that is well formed and consistent stays so under toSparse, which does
\* not abort and touches neither m nor the bits.
THEOREM ToSparseKeepsSubset ==
  ASSUME NEW verts \in SUBSET Int, IsFiniteSet(verts),
         NEW S, IsSubset(S, verts), Agrees(S)
  PROVE  /\ ~BadM(S)
         /\ IsSubset(ToSparse(S), verts)
         /\ Agrees(ToSparse(S))
         /\ ToSparse(S).m = S.m /\ ToSparse(S).d = S.d
         /\ S.m > 0 => ToSparse(S).s \in [0 .. S.m - 1 -> verts]
         /\ S.m > 0 /\ S.d # NULL => Entries(ToSparse(S).s, S.m) = Trues(S.d)
<1> DEFINE P == ToSparse(S)
<1>1. /\ P.s = (IF PacksBits(S) THEN PackIndex(S.d) ELSE S.s)
      /\ P.d = S.d /\ P.m = S.m /\ P.isDense = FALSE
      /\ DOMAIN P = {"s", "d", "m", "isDense"}
  <2>1. DOMAIN S = {"s", "d", "m", "isDense"}
    BY DEF IsSubset
  <2> QED BY <2>1 DEF ToSparse
<1>2. CASE ~PacksBits(S)
  <2> HIDE DEF P
  <2>1. P.s = S.s
    BY <1>1, <1>2
  <2>2. IsSubset(P, verts)
    BY <1>1, <2>1 DEF IsSubset
  <2>3. Agrees(P) /\ ~BadM(S)
    BY <1>1, <1>2, <2>1 DEF Agrees, BadM
  <2>4. S.m > 0 => S.s # NULL
    BY <1>2 DEF PacksBits
  <2>5. S.m > 0 => P.s \in [0 .. S.m - 1 -> verts]
    BY <2>1, <2>4 DEF IsSubset
  <2>6. S.m > 0 /\ S.d # NULL => Entries(P.s, S.m) = Trues(S.d)
    BY <2>1, <2>4 DEF Agrees
  <2> QED BY <1>1, <2>2, <2>3, <2>5, <2>6 DEF P
<1>3. CASE PacksBits(S)
  <2> HIDE DEF P
  <2>1. S.s = NULL /\ S.m > 0 /\ S.d # NULL
    BY <1>3 DEF PacksBits, IsSubset
  <2>2. S.d \in [verts -> BOOLEAN] /\ S.m = Cardinality(Trues(S.d))
    BY <2>1 DEF IsSubset, Agrees
  <2>3. /\ P.s \in [0 .. S.m - 1 -> verts]
        /\ Entries(P.s, S.m) = Trues(S.d)
    BY <1>1, <1>3, <2>2, PackIndexRange
  <2>4. IsSubset(P, verts)
    BY <1>1, <2>1, <2>2, <2>3 DEF IsSubset
  <2>5. Agrees(P)
    BY <1>1, <2>2, <2>3 DEF Agrees
  <2>6. ~BadM(S)
    BY <2>2 DEF BadM
  <2> QED BY <1>1, <2>3, <2>4, <2>5, <2>6 DEF P
<1> QED BY <1>2, <1>3

\* toDense keeps it well formed and consistent as well, and its bits are the set.
THEOREM ToDenseKeepsSubset ==
  ASSUME NEW verts, NULL \notin [verts -> BOOLEAN],
         NEW S, IsSubset(S, verts), Agrees(S)
  PROVE  /\ IsSubset(ToDense(S, verts), verts)
         /\ Agrees(ToDense(S, verts))
         /\ ToDense(S, verts).m = S.m /\ ToDense(S, verts).s = S.s
         /\ ToDense(S, verts).d \in [verts -> BOOLEAN]
         /\ S.d # NULL => ToDense(S, verts).d = S.d
         /\ S.d = NULL => Trues(ToDense(S, verts).d) = Entries(S.s, S.m)
<1> DEFINE P == ToDense(S, verts)
           fresh == [v \in verts |-> v \in Entries(S.s, S.m)]
<1>1. /\ P.d = (IF S.d = NULL THEN fresh ELSE S.d)
      /\ P.s = S.s /\ P.m = S.m /\ P.isDense = TRUE
      /\ DOMAIN P = {"s", "d", "m", "isDense"}
  <2>1. DOMAIN S = {"s", "d", "m", "isDense"}
    BY DEF IsSubset
  <2> QED BY <2>1 DEF ToDense
<1> HIDE DEF P
<1>2. CASE S.d # NULL
  <2>1. P.d = S.d
    BY <1>1, <1>2
  <2>2. IsSubset(P, verts) /\ P.d \in [verts -> BOOLEAN]
    BY <1>1, <1>2, <2>1 DEF IsSubset
  <2>3. Agrees(P)
    BY <1>1, <2>1 DEF Agrees
  <2> QED BY <1>1, <1>2, <2>1, <2>2, <2>3 DEF P
<1>3. CASE S.d = NULL
  <2>1. fresh \in [verts -> BOOLEAN] /\ fresh # NULL /\ P.d = fresh
    <3>1. \A v \in verts : (v \in Entries(S.s, S.m)) \in BOOLEAN
      OBVIOUS
    <3>2. fresh \in [verts -> BOOLEAN]
      BY <3>1
    <3>3. P.d = fresh
      BY <1>1, <1>3
    <3> QED BY <3>2, <3>3
  <2>2. S.m \in Nat /\ (S.s = NULL => S.m = 0)
    BY <1>3 DEF IsSubset
  <2>3. \A i \in 0 .. S.m - 1 : S.s[i] \in verts
    BY <2>2 DEF IsSubset
  <2>4. Trues(fresh) = Entries(S.s, S.m)
    BY <2>3 DEF Trues, Entries
  <2>5. IsSubset(P, verts)
    <3>1. P.d \in [verts -> BOOLEAN] /\ P.d # NULL
      BY <2>1
    <3>2. P.s = NULL \/ P.s \in [0 .. P.m - 1 -> verts]
      BY <1>1 DEF IsSubset
    <3> HIDE DEF fresh
    <3> QED BY <1>1, <2>2, <3>1, <3>2 DEF IsSubset
  <2>6. S.s = NULL => S.m = Cardinality(Trues(P.d))
    <3>1. S.m = 0 => Entries(S.s, S.m) = {}
      BY DEF Entries
    <3> QED BY <2>1, <2>2, <2>4, <3>1, FS_EmptySet
  <2>7. Agrees(P)
    BY <1>1, <2>1, <2>4, <2>6 DEF Agrees
  <2> QED BY <1>1, <1>3, <2>1, <2>4, <2>5, <2>7 DEF P
<1> QED BY <1>2, <1>3

\* A frontier whose members are the same in each of its representations.
WellShaped(S) ==
  /\ IsSubset(S, V) /\ Agrees(S)
  /\ ~S.isDense /\ S.m > 0 => /\ S.s \in [0 .. S.m - 1 -> V]
                              /\ S.d # NULL => Entries(S.s, S.m) = Trues(S.d)
\* A subset with m = 0 has no members, whichever representation is asked.
LEMMA NoMembers ==
  ASSUME NEW S, IsSubset(S, V), Agrees(S), S.m = 0, S.d # NULL
  PROVE  Trues(S.d) = {}
<1>1. S.d \in [V -> BOOLEAN]
  BY DEF IsSubset
<1>2. IsFiniteSet(Trues(S.d))
  BY <1>1, VertexSet, FS_Subset DEF Trues
<1>3. Entries(S.s, 0) = {}
  BY DEF Entries
<1> QED BY <1>2, <1>3, FS_EmptySet DEF Agrees

\* toSparse and toDense keep the members.
LEMMA ToSparseKeepsMembers ==
  ASSUME NEW S, WellShaped(S)
  PROVE  /\ ~BadM(S) /\ WellShaped(ToSparse(S)) /\ Members(ToSparse(S)) = Members(S)
         /\ ToSparse(S).m = S.m
         /\ S.m > 0 => /\ ToSparse(S).s \in [0 .. S.m - 1 -> V]
                       /\ Members(ToSparse(S)) = Entries(ToSparse(S).s, S.m)
<1> DEFINE P == ToSparse(S)
<1>1. /\ ~BadM(S) /\ IsSubset(P, V) /\ Agrees(P) /\ P.m = S.m /\ P.d = S.d
      /\ S.m > 0 => P.s \in [0 .. S.m - 1 -> V]
      /\ S.m > 0 /\ S.d # NULL => Entries(P.s, S.m) = Trues(S.d)
  BY VertexSet, ToSparseKeepsSubset DEF WellShaped
<1>2. /\ ~P.isDense /\ P.s = IF PacksBits(S) THEN PackIndex(S.d) ELSE S.s
      /\ S.m \in Nat
  BY DEF ToSparse, WellShaped, IsSubset
<1>3. Members(P) = Entries(P.s, S.m)
  BY <1>1, <1>2 DEF Members
<1>4. Members(P) = Members(S)
  <2>1. CASE S.m = 0
    <3>1. Entries(P.s, 0) = {} /\ Entries(S.s, 0) = {}
      BY DEF Entries
    <3>2. S.isDense => Trues(S.d) = {}
      BY <2>1, <3>1, NoMembers DEF WellShaped, IsSubset
    <3> QED BY <1>3, <2>1, <3>1, <3>2 DEF Members
  <2>2. CASE S.m > 0
    <3>1. CASE S.isDense
      BY <1>1, <1>3, <2>2, <3>1 DEF Members, WellShaped, IsSubset
    <3>2. CASE ~S.isDense
      <4>1. CASE PacksBits(S)
        <5>1. S.d # NULL
          BY <2>2, <4>1 DEF PacksBits, WellShaped, IsSubset
        <5> QED BY <1>1, <1>3, <2>2, <3>2, <5>1 DEF Members, WellShaped
      <4>2. CASE ~PacksBits(S)
        BY <1>2, <1>3, <3>2, <4>2 DEF Members
      <4> QED BY <4>1, <4>2
    <3> QED BY <3>1, <3>2
  <2> QED BY <1>2, <2>1, <2>2
<1> QED BY <1>1, <1>2, <1>3, <1>4 DEF WellShaped

LEMMA ToDenseKeepsMembers ==
  ASSUME NEW S, WellShaped(S)
  PROVE  /\ WellShaped(ToDense(S, V)) /\ Members(ToDense(S, V)) = Members(S)
         /\ ToDense(S, V).isDense /\ ToDense(S, V).d \in [V -> BOOLEAN]
<1> DEFINE P == ToDense(S, V)
<1>1. /\ IsSubset(P, V) /\ Agrees(P) /\ P.d \in [V -> BOOLEAN]
      /\ S.d # NULL => P.d = S.d
      /\ S.d = NULL => Trues(P.d) = Entries(S.s, S.m)
  BY VertexSet, EdgeMapAssumption, ToDenseKeepsSubset DEF WellShaped
<1>2. P.isDense
  BY DEF ToDense
<1>3. Members(P) = Trues(P.d)
  BY <1>2 DEF Members
<1>4. CASE S.d = NULL
  BY <1>1, <1>2, <1>3, <1>4 DEF Members, WellShaped, IsSubset
<1>5. CASE S.d # NULL
  <2>1. CASE S.isDense
    BY <1>1, <1>2, <1>3, <1>5, <2>1 DEF Members, WellShaped
  <2>2. CASE ~S.isDense /\ S.m > 0
    BY <1>1, <1>2, <1>3, <1>5, <2>2 DEF Members, WellShaped
  <2>3. CASE ~S.isDense /\ S.m = 0
    <3>1. Entries(S.s, S.m) = {} /\ Trues(S.d) = {}
      BY <1>5, <2>3, NoMembers DEF WellShaped, Entries
    <3> QED BY <1>1, <1>2, <1>3, <1>5, <2>3, <3>1 DEF Members, WellShaped
  <2>4. S.m \in Nat
    BY DEF WellShaped, IsSubset
  <2> QED BY <2>1, <2>2, <2>3, <2>4
<1> QED BY <1>1, <1>2, <1>4, <1>5 DEF WellShaped

LEMMA EmptySubsetAgrees == Agrees(EmptySubset)
BY DEF Agrees, EmptySubset

LEMMA EmptyIsWellShaped == WellShaped(EmptySubset)
<1>1. IsSubset(EmptySubset, V)
  BY DEF IsSubset, EmptySubset
<1> QED BY <1>1, EmptySubsetAgrees DEF WellShaped, EmptySubset

\* The traversal runs over the members, in the representation it reads.
Mapping ==
  phase = "map" =>
    /\ mode \in {"sparse", "nofilter", "dense", "forward"}
    /\ IsSparse => vs.s \in [0 .. vs.m - 1 -> V] /\ Members(vs) = Entries(vs.s, vs.m)
    /\ ~IsSparse => vs.d \in [V -> BOOLEAN] /\ Members(vs) = Trues(vs.d)

-----------------------------------------------------------------------------
(* Where the sparse traversals put what they find *)

\* A sparse frontier whose indices are vertices, as the sparse traversals read it.
Indices(S) == S.m \in Nat /\ S.s \in [0 .. S.m - 1 -> V]

\* The recursive definition of the offsets computes the sums of the degrees.
LEMMA OffsetsAreSums ==
  ASSUME NEW S, Indices(S)
  PROVE  /\ OffsetsOf(S) \in [0 .. S.m -> Nat]
         /\ OffsetsOf(S)[0] = 0
         /\ \A i \in 0 .. S.m - 1 : OffsetsOf(S)[i + 1] = OffsetsOf(S)[i] + OutDegree(S.s[i])
<1> DEFINE Sum(g, k) == g = [i \in 0 .. k |-> IF i = 0 THEN 0
                                              ELSE g[i - 1] + OutDegree(S.s[i - 1])]
           Upto == {k \in Nat : k <= S.m => \E g \in [0 .. k -> Nat] : Sum(g, k)}
<1>1. S.m \in Nat /\ \A i \in 0 .. S.m - 1 : OutDegree(S.s[i]) \in Nat
  BY DegreeBounds DEF Indices
<1>2. 0 \in Upto
  <2>1. [i \in 0 .. 0 |-> 0] \in [0 .. 0 -> Nat] /\ Sum([i \in 0 .. 0 |-> 0], 0)
    OBVIOUS
  <2> QED BY <2>1
<1>3. ASSUME NEW k \in Nat, k \in Upto PROVE k + 1 \in Upto
  <2> SUFFICES ASSUME k + 1 <= S.m PROVE \E g \in [0 .. k + 1 -> Nat] : Sum(g, k + 1)
    OBVIOUS
  <2>1. PICK g \in [0 .. k -> Nat] : Sum(g, k)
    BY <1>1, <1>3
  <2> DEFINE h == [i \in 0 .. k + 1 |-> IF i = k + 1 THEN g[k] + OutDegree(S.s[k]) ELSE g[i]]
  <2>2. h \in [0 .. k + 1 -> Nat]
    BY <1>1
  <2>3. \A i \in 0 .. k + 1 : h[i] = IF i = 0 THEN 0 ELSE h[i - 1] + OutDegree(S.s[i - 1])
    <3> SUFFICES ASSUME NEW i \in 0 .. k + 1
                 PROVE  h[i] = IF i = 0 THEN 0 ELSE h[i - 1] + OutDegree(S.s[i - 1])
      OBVIOUS
    <3>1. CASE i = k + 1
      BY <3>1
    <3>2. CASE i # k + 1
      <4>1. i \in 0 .. k /\ (i # 0 => i - 1 \in 0 .. k /\ i - 1 # k + 1 /\ i - 1 \in 0 .. k + 1)
        BY <3>2
      <4>2. g[i] = IF i = 0 THEN 0 ELSE g[i - 1] + OutDegree(S.s[i - 1])
        BY <2>1, <4>1
      <4>3. h[i] = g[i] /\ (i # 0 => h[i - 1] = g[i - 1])
        BY <3>2, <4>1
      <4> QED BY <4>2, <4>3
    <3> QED BY <3>1, <3>2
  <2>4. Sum(h, k + 1)
    <3> HIDE DEF h
    <3> QED BY <2>2, <2>3
  <2> QED BY <2>2, <2>4
<1>4. S.m \in Upto
  <2> HIDE DEF Upto
  <2> QED BY <1>1, <1>2, <1>3, SetInduction
<1>5. \E g : Sum(g, S.m)
  BY <1>1, <1>4
<1>6. Sum(OffsetsOf(S), S.m)
  BY <1>5 DEF OffsetsOf
<1> DEFINE O == OffsetsOf(S)
<1> HIDE DEF O
<1>7. \A i \in 0 .. S.m : O[i] = IF i = 0 THEN 0 ELSE O[i - 1] + OutDegree(S.s[i - 1])
  BY <1>6 DEF O
<1>8. O[0] = 0 /\ \A i \in 0 .. S.m - 1 : O[i + 1] = O[i] + OutDegree(S.s[i])
  <2>1. O[0] = 0
    BY <1>1, <1>7
  <2>2. ASSUME NEW i \in 0 .. S.m - 1 PROVE O[i + 1] = O[i] + OutDegree(S.s[i])
    <3>1. i + 1 \in 0 .. S.m /\ i + 1 # 0 /\ (i + 1) - 1 = i
      BY <1>1
    <3> QED BY <1>7, <3>1
  <2> QED BY <2>1, <2>2
<1> DEFINE N == {k \in Nat : k <= S.m => O[k] \in Nat}
<1>9. S.m \in N /\ \A k \in 0 .. S.m : k \in N
  <2>1. 0 \in N
    BY <1>8
  <2>2. ASSUME NEW k \in Nat, k \in N PROVE k + 1 \in N
    BY <1>1, <1>8, <2>2
  <2> HIDE DEF N
  <2> QED BY <1>1, <2>1, <2>2, SetInduction
<1>10. O = [i \in 0 .. S.m |-> IF i = 0 THEN 0 ELSE O[i - 1] + OutDegree(S.s[i - 1])]
  BY <1>6 DEF O
<1>11. O \in [0 .. S.m -> Nat]
  <2>1. \A k \in 0 .. S.m : (IF k = 0 THEN 0 ELSE O[k - 1] + OutDegree(S.s[k - 1])) \in Nat
    BY <1>7, <1>9
  <2> DEFINE F == [i \in 0 .. S.m |-> IF i = 0 THEN 0 ELSE O[i - 1] + OutDegree(S.s[i - 1])]
  <2>2. F \in [0 .. S.m -> Nat]
    BY <2>1
  <2> QED BY <1>10, <2>2
<1> QED BY <1>8, <1>11 DEF O

\* Offsets do not decrease.
LEMMA OffsetsIncrease ==
  ASSUME NEW S, Indices(S), NEW i \in 0 .. S.m, NEW j \in 0 .. S.m, i <= j
  PROVE  OffsetsOf(S)[i] <= OffsetsOf(S)[j]
<1> DEFINE O == OffsetsOf(S)
           Above == {k \in Nat : i + k <= S.m => O[i] <= O[i + k]}
<1>1. /\ S.m \in Nat /\ O \in [0 .. S.m -> Nat]
      /\ \A k \in 0 .. S.m - 1 : O[k] <= O[k + 1]
  <2>1. \A k \in 0 .. S.m - 1 : OutDegree(S.s[k]) \in Nat
    BY DegreeBounds DEF Indices
  <2>2. S.m \in Nat
    BY DEF Indices
  <2>3. O \in [0 .. S.m -> Nat] /\ \A k \in 0 .. S.m - 1 : O[k + 1] = O[k] + OutDegree(S.s[k])
    BY OffsetsAreSums
  <2> HIDE DEF O
  <2>4. \A k \in 0 .. S.m - 1 : O[k] \in Nat
    BY <2>2, <2>3
  <2>5. \A k \in 0 .. S.m - 1 : O[k] <= O[k + 1]
    BY <2>1, <2>3, <2>4
  <2> QED BY <2>2, <2>3, <2>5
<1> HIDE DEF O
<1>2. 0 \in Above
  BY <1>1
<1>3. ASSUME NEW k \in Nat, k \in Above PROVE k + 1 \in Above
  <2> SUFFICES ASSUME i + (k + 1) <= S.m PROVE O[i] <= O[i + (k + 1)]
    OBVIOUS
  <2>1. i + k \in 0 .. S.m - 1 /\ i + (k + 1) = (i + k) + 1 /\ i + k \in 0 .. S.m /\ i + (k + 1) \in 0 .. S.m
    BY <1>1
  <2>2. O[i] <= O[i + k] /\ O[i + k] <= O[i + (k + 1)]
    BY <1>1, <1>3, <2>1
  <2>3. O[i] \in Nat /\ O[i + k] \in Nat /\ O[i + (k + 1)] \in Nat
    BY <1>1, <2>1
  <2> QED BY <2>2, <2>3
<1>4. j - i \in Nat /\ i + (j - i) = j /\ j <= S.m
  BY <1>1
<1>5. j - i \in Above
  <2> HIDE DEF Above
  <2> QED BY <1>2, <1>3, <1>4, SetInduction
<1> QED BY <1>4, <1>5 DEF O

\* A sparse traversal under way: it runs over the indices of the frontier.
SparseCall == IsSparse /\ Indices(vs)

\* The place of an item among all the edges out of the frontier.
Place(it) == Offsets[it[1]] + it[2]

\* The items of a sparse traversal stand for the entries of the output array one to
\* one, in the order of the frontier.
LEMMA PlacesAreSlots ==
  ASSUME SparseCall
  PROVE  /\ OutEdgeCount \in Nat
         /\ \A it \in Items : /\ it[1] \in 0 .. vs.m - 1 /\ it[2] \in Nat
                              /\ it = <<it[1], it[2]>>
                              /\ Offsets[it[1]] \in Nat /\ Offsets[it[1] + 1] \in Nat
                              /\ Offsets[it[1]] <= Place(it) /\ Place(it) < Offsets[it[1] + 1]
                              /\ Place(it) \in 0 .. OutEdgeCount - 1
         /\ \A x, y \in Items : x[1] < y[1] \/ (x[1] = y[1] /\ x[2] < y[2]) => Place(x) < Place(y)
         /\ \A x, y \in Items : Place(x) = Place(y) => x = y
         /\ \A k \in 0 .. OutEdgeCount - 1 : \E it \in Items : Place(it) = k
<1>1. /\ Indices(vs) /\ vs.m \in Nat /\ m \in Nat /\ vs.s \in [0 .. vs.m - 1 -> V]
  BY VertexSet DEF SparseCall, Indices
<1>2. /\ Offsets \in [0 .. vs.m -> Nat] /\ Offsets[0] = 0
      /\ \A o \in 0 .. vs.m - 1 : Offsets[o + 1] = Offsets[o] + OutDegree(vs.s[o])
      /\ OutEdgeCount = Offsets[vs.m]
  BY <1>1, OffsetsAreSums DEF Offsets, OutEdgeCount
<1>3. \A i, j \in 0 .. vs.m : i <= j => Offsets[i] <= Offsets[j]
  BY <1>1, OffsetsIncrease DEF Offsets
<1>4. \A o \in 0 .. vs.m - 1 : OutDegree(vs.s[o]) \in Nat /\ OutDegree(vs.s[o]) <= m
  BY <1>1, DegreeBounds
<1>5. \A it : it \in Items <=> /\ it \in (0 .. vs.m - 1) \X (0 .. m - 1)
                               /\ it[2] < OutDegree(vs.s[it[1]])
  BY DEF Items, ItemsOf, OwnersOf, DegreeIn, SparseCall, IsSparse
<1>6. OutEdgeCount \in Nat
  BY <1>1, <1>2
<1>7. ASSUME NEW it \in Items
      PROVE  /\ it[1] \in 0 .. vs.m - 1 /\ it[2] \in Nat
             /\ it = <<it[1], it[2]>>
             /\ Offsets[it[1]] \in Nat /\ Offsets[it[1] + 1] \in Nat
             /\ Offsets[it[1]] <= Place(it) /\ Place(it) < Offsets[it[1] + 1]
             /\ Place(it) \in 0 .. OutEdgeCount - 1
  <2>1. it[1] \in 0 .. vs.m - 1 /\ it[2] \in Nat /\ it = <<it[1], it[2]>>
    BY <1>1, <1>5
  <2>2. it[2] < OutDegree(vs.s[it[1]])
    BY <1>5
  <2>3. /\ it[1] \in 0 .. vs.m /\ it[1] + 1 \in 0 .. vs.m /\ vs.m \in 0 .. vs.m
        /\ it[1] + 1 <= vs.m
    BY <1>1, <2>1
  <2>4. Offsets[it[1]] \in Nat /\ Offsets[it[1] + 1] \in Nat
    BY <1>2, <2>3
  <2>5. /\ Offsets[it[1] + 1] = Offsets[it[1]] + OutDegree(vs.s[it[1]])
        /\ OutDegree(vs.s[it[1]]) \in Nat
    BY <1>2, <1>4, <2>1
  <2>6. Offsets[it[1] + 1] <= OutEdgeCount
    BY <1>2, <1>3, <2>3
  <2> QED BY <1>6, <2>1, <2>2, <2>4, <2>5, <2>6 DEF Place
<1>8. ASSUME NEW x \in Items, NEW y \in Items, x[1] < y[1] \/ (x[1] = y[1] /\ x[2] < y[2])
      PROVE  Place(x) < Place(y)
  <2>1. /\ x[1] \in 0 .. vs.m - 1 /\ y[1] \in 0 .. vs.m - 1
        /\ x[2] \in Nat /\ y[2] \in Nat /\ Offsets[x[1]] \in Nat /\ Offsets[y[1]] \in Nat
        /\ Offsets[x[1] + 1] \in Nat
        /\ Place(x) < Offsets[x[1] + 1] /\ Offsets[y[1]] <= Place(y)
    BY <1>7
  <2>2. CASE x[1] < y[1]
    <3>1. Offsets[x[1] + 1] <= Offsets[y[1]]
      <4>1. x[1] + 1 \in 0 .. vs.m /\ y[1] \in 0 .. vs.m /\ x[1] + 1 <= y[1]
        BY <1>1, <2>1, <2>2
      <4> QED BY <1>3, <4>1
    <3> QED BY <2>1, <3>1 DEF Place
  <2>3. CASE x[1] = y[1] /\ x[2] < y[2]
    BY <2>1, <2>3 DEF Place
  <2> QED BY <1>8, <2>2, <2>3
<1>9. ASSUME NEW x \in Items, NEW y \in Items, Place(x) = Place(y) PROVE x = y
  <2>1. /\ x[1] \in 0 .. vs.m - 1 /\ y[1] \in 0 .. vs.m - 1
        /\ x[2] \in Nat /\ y[2] \in Nat /\ x = <<x[1], x[2]>> /\ y = <<y[1], y[2]>>
        /\ Place(x) \in 0 .. OutEdgeCount - 1
    BY <1>7
  <2>2. /\ ~(x[1] < y[1] \/ (x[1] = y[1] /\ x[2] < y[2]))
        /\ ~(y[1] < x[1] \/ (y[1] = x[1] /\ y[2] < x[2]))
    BY <1>6, <1>8, <1>9, <2>1
  <2>3. x[1] = y[1] /\ x[2] = y[2]
    BY <1>1, <2>1, <2>2
  <2> QED BY <2>1, <2>3
<1>10. ASSUME NEW k \in 0 .. OutEdgeCount - 1 PROVE \E it \in Items : Place(it) = k
  <2> DEFINE Past == {o \in Nat : o <= vs.m => Offsets[o] <= k}
  <2>1. 0 \in Past
    BY <1>2
  <2>2. vs.m \notin Past
    BY <1>1, <1>2, <1>6
  <2>3. PICK o \in Nat : o \in Past /\ o + 1 \notin Past
    <3> HIDE DEF Past
    <3> QED BY <1>1, <2>1, <2>2, SetInduction
  <2>4. o \in 0 .. vs.m - 1 /\ o \in 0 .. vs.m /\ o + 1 \in 0 .. vs.m /\ Offsets[o] <= k /\ k < Offsets[o + 1]
    <3>1. o + 1 <= vs.m /\ ~(Offsets[o + 1] <= k)
      BY <2>3
    <3>2. o + 1 \in 0 .. vs.m /\ o \in 0 .. vs.m
      BY <1>1, <3>1
    <3>3. Offsets[o + 1] \in Nat
      BY <1>2, <3>2
    <3> QED BY <1>1, <2>3, <3>1, <3>2, <3>3
  <2> DEFINE j == k - Offsets[o]
  <2>5. /\ Offsets[o] \in Nat /\ Offsets[o + 1] = Offsets[o] + OutDegree(vs.s[o])
        /\ OutDegree(vs.s[o]) \in Nat /\ OutDegree(vs.s[o]) <= m
    BY <1>2, <1>4, <2>4
  <2>6. j \in 0 .. m - 1 /\ j < OutDegree(vs.s[o]) /\ Offsets[o] + j = k
    BY <1>1, <1>6, <2>4, <2>5
  <2>7. <<o, j>> \in Items
    BY <1>5, <2>4, <2>6
  <2>8. Place(<<o, j>>) = k
    BY <2>6 DEF Place
  <2> QED BY <2>7, <2>8
<1> QED BY <1>6, <1>7, <1>8, <1>9, <1>10

-----------------------------------------------------------------------------
(* The blocks of sparse_no_filter *)

Base(b) == Offsets[BlockOff(b)]

\* The boundary of a block is the first index whose offset is large enough.
LEMMA BlockBoundaries ==
  ASSUME SparseCall
  PROVE  /\ NBlocks \in Nat /\ (OutEdgeCount > 0 => NBlocks > 0)
         /\ \A b \in 0 .. NBlocks : BlockOff(b) \in 0 .. vs.m
         /\ BlockOff(NBlocks) = vs.m
         /\ NBlocks > 0 => BlockOff(0) = 0
         /\ \A b, c \in 0 .. NBlocks : b <= c => BlockOff(b) <= BlockOff(c)
<1>1. vs.m \in Nat /\ Offsets \in [0 .. vs.m -> Nat] /\ OutEdgeCount \in Nat /\ BSize \in Nat /\ BSize > 0
  <2>1. vs.m \in Nat /\ Offsets \in [0 .. vs.m -> Nat]
    BY OffsetsAreSums DEF SparseCall, Indices, Offsets
  <2>2. BSize \in Nat \ {0}
    BY EdgeMapAssumption
  <2> QED BY <2>1, <2>2, PlacesAreSlots
<1>2. NBlocks \in Nat /\ (OutEdgeCount > 0 => NBlocks > 0)
  <2>1. \A a, d \in Nat : d > 0 => (a \div d) \in Nat /\ (a >= d => (a \div d) > 0)
    OBVIOUS
  <2>2. OutEdgeCount + BSize - 1 \in Nat /\ (OutEdgeCount > 0 => OutEdgeCount + BSize - 1 >= BSize)
    BY <1>1
  <2> QED BY <1>1, <2>1, <2>2 DEF NBlocks
<1>3. BlockOff(NBlocks) = vs.m
  BY DEF BlockOff
<1> DEFINE Large(b, k) == k < vs.m => Offsets[k] >= b * BSize
<1>4. ASSUME NEW b \in 0 .. NBlocks, b # NBlocks
      PROVE  /\ BlockOff(b) \in 0 .. vs.m /\ Large(b, BlockOff(b))
             /\ \A k \in 0 .. BlockOff(b) - 1 : Offsets[k] < b * BSize
  <2> DEFINE L == {k \in 0 .. vs.m : Large(b, k)}
  <2>1. b * BSize \in Int
    BY <1>1, <1>2
  <2>2. PICK k \in L : \A k2 \in L : k <= k2
    <3>1. L \in SUBSET Nat /\ vs.m \in L
      BY <1>1
    <3> HIDE DEF L
    <3> QED BY <3>1, LeastMember
  <2>3. ASSUME NEW k2 \in 0 .. k - 1 PROVE Offsets[k2] < b * BSize
    <3>1. k2 \in 0 .. vs.m /\ k2 < vs.m /\ ~(k <= k2)
      BY <1>1
    <3>2. ~(Offsets[k2] >= b * BSize)
      BY <2>2, <3>1
    <3>3. Offsets[k2] \in Nat
      BY <1>1, <3>1
    <3> HIDE DEF L
    <3> QED BY <2>1, <3>2, <3>3
  <2>4. \E k3 \in 0 .. vs.m : /\ k3 < vs.m => Offsets[k3] >= b * BSize
                              /\ \A k2 \in 0 .. k3 - 1 : Offsets[k2] < b * BSize
    BY <2>2, <2>3
  <2>5. BlockOff(b) = CHOOSE k3 \in 0 .. vs.m :
                        /\ k3 < vs.m => Offsets[k3] >= b * BSize
                        /\ \A k2 \in 0 .. k3 - 1 : Offsets[k2] < b * BSize
    BY <1>4 DEF BlockOff
  <2> HIDE DEF L
  <2> QED BY <2>4, <2>5
<1>5. \A b \in 0 .. NBlocks : BlockOff(b) \in 0 .. vs.m
  BY <1>1, <1>3, <1>4
<1>6. ASSUME NBlocks > 0 PROVE BlockOff(0) = 0
  <2>1. 0 \in 0 .. NBlocks /\ 0 # NBlocks /\ 0 * BSize = 0
    BY <1>1, <1>2, <1>6
  <2>2. BlockOff(0) \in 0 .. vs.m /\ \A k \in 0 .. BlockOff(0) - 1 : Offsets[k] < 0
    BY <1>4, <2>1
  <2>3. ASSUME BlockOff(0) # 0 PROVE FALSE
    <3>1. 0 \in 0 .. BlockOff(0) - 1 /\ 0 \in 0 .. vs.m
      BY <1>1, <2>2, <2>3
    <3>2. Offsets[0] < 0 /\ Offsets[0] \in Nat
      BY <1>1, <2>2, <3>1
    <3> QED BY <3>2
  <2> QED BY <2>3
<1>7. ASSUME NEW b \in 0 .. NBlocks, NEW c \in 0 .. NBlocks, b <= c
      PROVE  BlockOff(b) <= BlockOff(c)
  <2>1. CASE c = NBlocks
    BY <1>1, <1>3, <1>5, <2>1
  <2>2. CASE c # NBlocks /\ b # NBlocks
    <3>1. b * BSize \in Int /\ c * BSize \in Int /\ b * BSize <= c * BSize
      BY <1>1, <1>2, <1>7
    <3>2. ASSUME BlockOff(c) < BlockOff(b) PROVE FALSE
      <4>1. BlockOff(b) \in 0 .. vs.m /\ BlockOff(c) \in 0 .. vs.m
        BY <1>5
      <4>2. BlockOff(c) < vs.m /\ BlockOff(c) \in 0 .. BlockOff(b) - 1
        BY <1>1, <3>2, <4>1
      <4>3. Offsets[BlockOff(c)] >= c * BSize /\ Offsets[BlockOff(c)] < b * BSize
        BY <1>4, <2>2, <4>2
      <4>4. Offsets[BlockOff(c)] \in Nat
        BY <1>1, <4>1
      <4> QED BY <3>1, <4>3, <4>4
    <3> QED BY <1>1, <1>5, <3>2
  <2>3. CASE b = NBlocks /\ c # NBlocks
    BY <1>2, <1>7, <2>3
  <2> QED BY <2>1, <2>2, <2>3
<1> QED BY <1>2, <1>3, <1>5, <1>6, <1>7

\* The blocks split the edges out of the frontier, and each item lies in its block.
LEMMA ItemsLieInBlocks ==
  ASSUME SparseCall
  PROVE  /\ NBlocks \in Nat
         /\ \A b \in 0 .. NBlocks : Base(b) \in Nat /\ Base(b) <= OutEdgeCount
         /\ \A b, c \in 0 .. NBlocks : b <= c => Base(b) <= Base(c)
         /\ \A it \in Items : /\ BlockOf(it[1]) \in 0 .. NBlocks - 1
                              /\ Base(BlockOf(it[1])) <= Place(it)
                              /\ Place(it) < Base(BlockOf(it[1]) + 1)
         /\ \A k \in 0 .. OutEdgeCount - 1 :
              \E b \in 0 .. NBlocks - 1 : Base(b) <= k /\ k < Base(b + 1)
<1>1. /\ vs.m \in Nat /\ Indices(vs) /\ Offsets \in [0 .. vs.m -> Nat] /\ OutEdgeCount = Offsets[vs.m]
      /\ OutEdgeCount \in Nat
  BY OffsetsAreSums, PlacesAreSlots DEF SparseCall, Indices, Offsets, OutEdgeCount
<1>2. \A i, j \in 0 .. vs.m : i <= j => Offsets[i] <= Offsets[j]
  BY <1>1, OffsetsIncrease DEF Offsets
<1>3. /\ NBlocks \in Nat /\ (OutEdgeCount > 0 => NBlocks > 0)
      /\ \A b \in 0 .. NBlocks : BlockOff(b) \in 0 .. vs.m
      /\ BlockOff(NBlocks) = vs.m
      /\ NBlocks > 0 => BlockOff(0) = 0
      /\ \A b, c \in 0 .. NBlocks : b <= c => BlockOff(b) <= BlockOff(c)
  BY BlockBoundaries
<1>4. \A b \in 0 .. NBlocks : Base(b) \in Nat /\ Base(b) <= OutEdgeCount
  BY <1>1, <1>2, <1>3 DEF Base
<1>5. \A b, c \in 0 .. NBlocks : b <= c => Base(b) <= Base(c)
  BY <1>2, <1>3 DEF Base
<1>6. ASSUME NEW it \in Items
      PROVE  /\ BlockOf(it[1]) \in 0 .. NBlocks - 1
             /\ Base(BlockOf(it[1])) <= Place(it)
             /\ Place(it) < Base(BlockOf(it[1]) + 1)
  <2>1. /\ it[1] \in 0 .. vs.m - 1 /\ Offsets[it[1]] \in Nat /\ Offsets[it[1] + 1] \in Nat
        /\ Offsets[it[1]] <= Place(it) /\ Place(it) < Offsets[it[1] + 1]
        /\ Place(it) \in 0 .. OutEdgeCount - 1
    BY PlacesAreSlots
  <2>2. NBlocks > 0
    BY <1>1, <1>3, <2>1
  <2> DEFINE Left == {b \in Nat : b <= NBlocks => BlockOff(b) <= it[1]}
  <2>3. 0 \in Left
    BY <1>1, <1>3, <2>1, <2>2
  <2>4. NBlocks \notin Left
    BY <1>1, <1>3, <2>1
  <2>5. PICK b \in Nat : b \in Left /\ b + 1 \notin Left
    <3> HIDE DEF Left
    <3> QED BY <1>3, <2>3, <2>4, SetInduction
  <2>6. b \in 0 .. NBlocks - 1 /\ BlockOff(b) <= it[1] /\ it[1] < BlockOff(b + 1)
    <3>1. b + 1 <= NBlocks /\ ~(BlockOff(b + 1) <= it[1])
      BY <2>5
    <3>2. b \in 0 .. NBlocks - 1 /\ b + 1 \in 0 .. NBlocks
      BY <1>3, <3>1
    <3>3. BlockOff(b + 1) \in Int /\ it[1] \in Int
      BY <1>1, <1>3, <2>1, <3>2
    <3>4. BlockOff(b) <= it[1]
      BY <1>3, <2>5, <3>2
    <3> HIDE DEF Left
    <3> QED BY <3>1, <3>2, <3>3, <3>4
  <2> DEFINE c == BlockOf(it[1])
  <2>7. c \in 0 .. NBlocks - 1 /\ BlockOff(c) <= it[1] /\ it[1] < BlockOff(c + 1)
    BY <2>6 DEF BlockOf
  <2> HIDE DEF c
  <2>8. /\ c \in 0 .. NBlocks /\ c + 1 \in 0 .. NBlocks
        /\ BlockOff(c) \in 0 .. vs.m /\ BlockOff(c + 1) \in 0 .. vs.m
    BY <1>3, <2>7
  <2>9. Offsets[BlockOff(c)] <= Offsets[it[1]] /\ Offsets[it[1] + 1] <= Offsets[BlockOff(c + 1)]
    <3>1. it[1] \in 0 .. vs.m /\ it[1] + 1 \in 0 .. vs.m
      BY <1>1, <2>1
    <3>2. BlockOff(c + 1) \in Int /\ it[1] \in Int
      BY <1>1, <2>8, <3>1
    <3>3. it[1] + 1 <= BlockOff(c + 1)
      BY <2>7, <3>2
    <3> QED BY <1>2, <2>7, <2>8, <3>1, <3>3
  <2>10. Offsets[BlockOff(c)] \in Nat /\ Offsets[BlockOff(c + 1)] \in Nat /\ Place(it) \in Int
    BY <1>1, <2>1, <2>8
  <2> QED BY <2>1, <2>7, <2>9, <2>10 DEF c, Base
<1>7. ASSUME NEW k \in 0 .. OutEdgeCount - 1
      PROVE  \E b \in 0 .. NBlocks - 1 : Base(b) <= k /\ k < Base(b + 1)
  BY <1>6, PlacesAreSlots
<1> QED BY <1>3, <1>4, <1>5, <1>6, <1>7

-----------------------------------------------------------------------------
(* The output while the traversal runs *)

\* An item that is looked at has those before it done, and, in the dense traversal,
\* lies in an iteration of the outer loop that has begun.
Working ==
  phase = "map" =>
    /\ st \in [Items -> {"todo", "upd", "chk", "done"}]
    /\ \A it \in Items : st[it] \in {"upd", "chk"} => \A y \in Before(it) : st[y] = "done"
    /\ mode = "dense" => /\ begun \subseteq V
                         /\ \A it \in Items : st[it] \in {"upd", "chk"} => it[1] \in begun
    /\ mode # "dense" => \A it \in Items : st[it] # "chk"

\* get_emsparse_gen: an item's entry is written when its update has answered.
Filled ==
  /\ outEdges \in [0 .. OutEdgeCount - 1 -> V \cup {UINT_E_MAX, UNINIT}]
  /\ \A it \in Items : outEdges[Place(it)] = UNINIT <=> st[it] \in {"todo", "upd"}

\* sparse_no_filter: a block has written its first cts[b] entries, and no more than
\* the items it is past.
Packed ==
  /\ outEdges \in [0 .. OutEdgeCount - 1 -> V \cup {UNINIT}]
  /\ cts \in [0 .. NBlocks - 1 -> Nat]
  /\ \A b \in 0 .. NBlocks - 1 :
       /\ Base(b) + cts[b] <= Base(b + 1)
       /\ \A i \in 0 .. OutEdgeCount - 1 :
            Base(b) <= i /\ i < Base(b + 1) => (outEdges[i] = UNINIT <=> i >= Base(b) + cts[b])
  /\ \A it \in Items : st[it] # "done" => Base(BlockOf(it[1])) + cts[BlockOf(it[1])] <= Place(it)

\* get_emdense_gen: a vertex has its bit when its iteration has begun.
Marked ==
  /\ next \in [V -> BOOLEAN \cup {UNINIT}]
  /\ \A v \in V : next[v] = UNINIT <=> mode = "dense" /\ v \notin begun

Output ==
  phase = "map" /\ ShouldOutput =>
    /\ mode = "sparse" => Filled
    /\ mode = "nofilter" => Packed
    /\ ~IsSparse => Marked

CallInv == phase # "abort" /\ WellShaped(vs) /\ Mapping /\ Working /\ Output

\* Where the output holds v.
Found(v) == IF IsSparse THEN {i \in DOMAIN outEdges : outEdges[i] = v}
            ELSE {x \in {v} : next[x] = TRUE}

\* What the answer r of an item's update does to it.
Adds(it, r) ==
  \A v \in V : IF r /\ v = Dst(it)
               THEN \E x : Found(v)' = Found(v) \cup {x} /\ (IsSparse => x \notin Found(v))
               ELSE Found(v)' = Found(v)

\* What all steps of the traversal leave alone.
Mapped == /\ phase = "map" /\ phase' = "map"
          /\ vs' = vs /\ mode' = mode /\ fl' = fl

LEMMA CallFrame ==
  ASSUME vs' = vs, mode' = mode, fl' = fl
  PROVE  /\ Items' = Items /\ IsSparse' = IsSparse /\ SparseCall' = SparseCall
         /\ ShouldOutput' = ShouldOutput /\ Members(vs)' = Members(vs)
         /\ \A it : Src(it)' = Src(it) /\ Dst(it)' = Dst(it) /\ Place(it)' = Place(it)
         /\ OutEdgeCount' = OutEdgeCount /\ NBlocks' = NBlocks
         /\ \A o : RunsParallel(o)' = RunsParallel(o) /\ BlockOf(o)' = BlockOf(o)
         /\ \A b : Base(b)' = Base(b)
         /\ \A it : Before(it)' = Before(it)
<1>1. Items' = Items
  BY DEF Items, ItemsOf, OwnersOf, DegreeIn, IsIn
<1>2. IsSparse' = IsSparse
  BY DEF IsSparse
<1>3. SparseCall' = SparseCall
  BY <1>2 DEF SparseCall, Indices
<1>4. ShouldOutput' = ShouldOutput
  BY DEF ShouldOutput
<1>5. Members(vs)' = Members(vs)
  BY DEF Members
<1>6. \A o : Vertex(o)' = Vertex(o)
  BY <1>2 DEF Vertex
<1>7. \A it : Src(it)' = Src(it) /\ Dst(it)' = Dst(it)
  BY <1>6 DEF Src, Dst, ForwardNeighbor
<1>8. Offsets' = Offsets
  BY DEF Offsets
<1>9. OutEdgeCount' = OutEdgeCount
  BY <1>8 DEF OutEdgeCount
<1>10. \A it : Place(it)' = Place(it)
  BY <1>8 DEF Place
<1>11. NBlocks' = NBlocks
  BY <1>9 DEF NBlocks
<1>12. \A b : BlockOff(b)' = BlockOff(b)
  BY <1>8, <1>11 DEF BlockOff
<1>13. \A b : Base(b)' = Base(b)
  BY <1>8, <1>12 DEF Base
<1>14. \A o : BlockOf(o)' = BlockOf(o)
  BY <1>11, <1>12 DEF BlockOf
<1>15. \A o : RunsParallel(o)' = RunsParallel(o)
  BY DEF RunsParallel, Degree, DegreeIn
<1>16. \A it : Before(it)' = Before(it)
  BY <1>1, <1>14, <1>15 DEF Before
<1> QED BY <1>1, <1>2, <1>3, <1>4, <1>5, <1>7, <1>9, <1>10, <1>11, <1>13, <1>14, <1>15, <1>16

LEMMA MappedFrame ==
  ASSUME Mapped
  PROVE  /\ Items' = Items /\ IsSparse' = IsSparse /\ SparseCall' = SparseCall
         /\ ShouldOutput' = ShouldOutput /\ Members(vs)' = Members(vs)
         /\ \A it : Src(it)' = Src(it) /\ Dst(it)' = Dst(it) /\ Place(it)' = Place(it)
         /\ OutEdgeCount' = OutEdgeCount /\ NBlocks' = NBlocks
         /\ \A o : RunsParallel(o)' = RunsParallel(o) /\ BlockOf(o)' = BlockOf(o)
         /\ \A b : Base(b)' = Base(b)
         /\ \A it : Before(it)' = Before(it)
BY CallFrame DEF Mapped

\* The steps go to vertices.
LEMMA ItemVertices ==
  ASSUME WellShaped(vs), Mapping, phase = "map"
  PROVE  /\ IsSparse => SparseCall
         /\ \A it \in Items : Dst(it) \in V /\ (~IsSparse => it[1] \in V)
<1>1. vs.m \in Nat /\ n \in Nat \ {0} /\ m \in Nat /\ Beyond \in V
  BY GraphAssumption DEF WellShaped, IsSubset
<1>2. IsSparse => SparseCall
  BY <1>1 DEF SparseCall, Indices, Mapping
<1>3. ASSUME NEW it \in Items
      PROVE  /\ it[1] \in OwnersOf(vs, mode) /\ it[2] \in 0 .. m - 1
             /\ it[2] < DegreeIn(vs, mode, it[1])
  BY DEF Items, ItemsOf
<1>4. ASSUME NEW it \in Items, ~IsSparse PROVE it[1] \in V
  BY <1>3, <1>4 DEF OwnersOf, Mapping, IsSparse
<1>5. ASSUME NEW v \in V, NEW j \in Nat PROVE OutNeighbor(v, j) \in V
  <2>1. offset[v] \in Nat /\ \A i \in 0 .. m - 1 : E[i] \in V
    BY <1>1, GraphAssumption DEF IsCSR
  <2> QED BY <1>1, <2>1 DEF OutNeighbor
<1>6. ASSUME NEW it \in Items PROVE Dst(it) \in V
  <2>1. CASE IsSparse
    <3>1. Vertex(it[1]) \in V
      BY <1>2, <1>3, <2>1 DEF OwnersOf, Vertex, IsSparse, SparseCall, Indices
    <3>2. Dst(it) = OutNeighbor(Vertex(it[1]), it[2])
      BY <2>1 DEF Dst, IsSparse
    <3> QED BY <1>1, <1>3, <1>5, <3>1, <3>2
  <2>2. CASE mode = "dense"
    BY <1>4, <2>2 DEF Dst, IsSparse
  <2>3. CASE mode = "forward"
    <3>1. it[1] \in V /\ offset[it[1]] \in Nat /\ it[2] \in Nat
      BY <1>1, <1>3, <1>4, <2>3, GraphAssumption DEF IsCSR, IsSparse
    <3>2. (IF Nvm THEN offset[it[1]] + it[2] ELSE it[2]) \in Nat
      BY <3>1
    <3>3. Dst(it) = OutNeighbor(it[1], IF Nvm THEN offset[it[1]] + it[2] ELSE it[2])
      BY <2>3 DEF Dst, ForwardNeighbor
    <3> QED BY <1>5, <3>1, <3>2, <3>3
  <2> QED BY <2>1, <2>2, <2>3 DEF Mapping, IsSparse
<1> QED BY <1>2, <1>4, <1>6

-----------------------------------------------------------------------------
\* Entries of an array are found where they are written.
LEMMA FoundInArray ==
  ASSUME Mapped, IsSparse, NEW k, NEW val, outEdges' = [outEdges EXCEPT ![k] = val],
         k \in DOMAIN outEdges, outEdges[k] = UNINIT
  PROVE  /\ val \notin V => \A v \in V : Found(v)' = Found(v)
         /\ \A v \in V : IF v = val THEN Found(v)' = Found(v) \cup {k} /\ k \notin Found(v)
                                    ELSE Found(v)' = Found(v)
<1>1. UNINIT \notin V
  BY EdgeMapAssumption
<1>2. \A v : /\ Found(v) = {i \in DOMAIN outEdges : outEdges[i] = v}
             /\ Found(v)' = {i \in DOMAIN outEdges : outEdges'[i] = v}
  BY MappedFrame DEF Found
<1> QED BY <1>1, <1>2

LEMMA FoundStays ==
  ASSUME Mapped, outEdges' = outEdges, next' = next
  PROVE  \A v : Found(v)' = Found(v)
BY MappedFrame DEF Found

\* get_emsparse_gen.
LEMMA FilledStep ==
  ASSUME Mapped, SparseCall, mode = "sparse", Filled, \A x \in Items : Dst(x) \in V,
         NEW it \in Items, NEW r \in BOOLEAN, Emit(it, r),
         st[it] \in {"todo", "upd"},
         \A x \in Items \ {it} : st'[x] = st[x], st'[it] = "done"
  PROVE  Filled' /\ Adds(it, r)
<1> DEFINE val == IF r THEN Dst(it) ELSE UINT_E_MAX
<1>1. outEdges' = [outEdges EXCEPT ![Place(it)] = val]
  BY DEF Emit, Place
<1>2. /\ Place(it) \in 0 .. OutEdgeCount - 1
      /\ \A x, y \in Items : Place(x) = Place(y) => x = y
      /\ \A x \in Items : Place(x) \in 0 .. OutEdgeCount - 1
  BY PlacesAreSlots
<1>3. /\ UINT_E_MAX \notin V /\ UNINIT \notin V /\ UNINIT # UINT_E_MAX
  BY EdgeMapAssumption
<1>4. val \in V \cup {UINT_E_MAX} /\ val # UNINIT
  BY <1>3
<1> HIDE DEF val
<1>5. outEdges' \in [0 .. OutEdgeCount - 1 -> V \cup {UINT_E_MAX, UNINIT}]
  BY <1>1, <1>4 DEF Filled
<1>6. ASSUME NEW x \in Items PROVE outEdges'[Place(x)] = UNINIT <=> st'[x] \in {"todo", "upd"}
  <2>1. CASE x = it
    BY <1>1, <1>2, <1>4, <2>1 DEF Filled
  <2>2. CASE x # it
    BY <1>1, <1>2, <2>2 DEF Filled
  <2> QED BY <2>1, <2>2
<1>7. Filled'
  BY <1>5, <1>6, MappedFrame DEF Filled
<1>8. Place(it) \in DOMAIN outEdges /\ outEdges[Place(it)] = UNINIT
  BY <1>2 DEF Filled
<1>9. \A v \in V : IF v = val THEN Found(v)' = Found(v) \cup {Place(it)} /\ Place(it) \notin Found(v)
                              ELSE Found(v)' = Found(v)
  BY <1>1, <1>8, FoundInArray DEF SparseCall
<1>10. Adds(it, r)
  BY <1>3, <1>9 DEF Adds, val
<1> QED BY <1>7, <1>10

\* Of two items of a block, one is before the other.
LEMMA BlockOrder ==
  ASSUME SparseCall, mode = "nofilter", NEW x \in Items, NEW y \in Items, x # y,
         BlockOf(x[1]) = BlockOf(y[1]), y \notin Before(x)
  PROVE  Place(x) < Place(y)
<1>1. /\ x[1] \in Int /\ y[1] \in Int /\ x[2] \in Int /\ y[2] \in Int
      /\ x = <<x[1], x[2]>> /\ y = <<y[1], y[2]>>
  BY PlacesAreSlots
<1>2. x[1] < y[1] \/ (x[1] = y[1] /\ x[2] < y[2])
  BY <1>1 DEF Before
<1> QED BY <1>2, PlacesAreSlots

\* The g of sparse_no_filter.
LEMMA PackedStep ==
  ASSUME Mapped, SparseCall, mode = "nofilter", Packed, \A x \in Items : Dst(x) \in V,
         NEW it \in Items, NEW r \in BOOLEAN, Emit(it, r),
         st[it] # "done", \A y \in Before(it) : st[y] = "done",
         \A x \in Items \ {it} : st'[x] = st[x], st'[it] = "done"
  PROVE  Packed' /\ Adds(it, r)
<1>1. CASE ~r
  <2>1. outEdges' = outEdges /\ cts' = cts
    BY <1>1 DEF Emit
  <2>2. Packed'
    BY <2>1, MappedFrame DEF Packed
  <2>3. Adds(it, r)
    BY <1>1, <2>1, MappedFrame DEF Adds, Found, SparseCall
  <2> QED BY <2>2, <2>3
<1>2. CASE r
  <2> DEFINE B == BlockOf(it[1])
             slot == Base(B) + cts[B]
  <2>1. /\ outEdges' = [outEdges EXCEPT ![slot] = Dst(it)]
        /\ cts' = [cts EXCEPT ![B] = @ + 1]
    BY <1>2 DEF Emit, Base
  <2>2. /\ NBlocks \in Nat /\ OutEdgeCount \in Nat
        /\ \A b \in 0 .. NBlocks : Base(b) \in Nat /\ Base(b) <= OutEdgeCount
        /\ \A b, c \in 0 .. NBlocks : b <= c => Base(b) <= Base(c)
        /\ \A x \in Items : /\ BlockOf(x[1]) \in 0 .. NBlocks - 1
                            /\ Base(BlockOf(x[1])) <= Place(x)
                            /\ Place(x) < Base(BlockOf(x[1]) + 1)
                            /\ Place(x) \in 0 .. OutEdgeCount - 1
    BY ItemsLieInBlocks, PlacesAreSlots
  <2>3. B \in 0 .. NBlocks - 1 /\ B \in 0 .. NBlocks /\ B + 1 \in 0 .. NBlocks
    BY <2>2
  <2>4. cts[B] \in Nat /\ Base(B) \in Nat /\ Base(B + 1) \in Nat
    BY <2>2, <2>3 DEF Packed
  <2>5. slot <= Place(it)
    BY DEF Packed
  <2>6. Place(it) \in Nat /\ Place(it) < Base(B + 1) /\ Place(it) < OutEdgeCount
    BY <2>2
  <2>7. slot \in 0 .. OutEdgeCount - 1 /\ slot < Base(B + 1) /\ Base(B) <= slot
    BY <2>2, <2>4, <2>5, <2>6
  <2>8. slot \in DOMAIN outEdges /\ outEdges[slot] = UNINIT
    BY <2>3, <2>4, <2>7 DEF Packed
  <2> HIDE DEF slot, B
  <2>9. UNINIT \notin V
    BY EdgeMapAssumption
  <2>10. /\ outEdges' \in [0 .. OutEdgeCount - 1 -> V \cup {UNINIT}]
         /\ cts' \in [0 .. NBlocks - 1 -> Nat]
    <3>1. Dst(it) \in V \cup {UNINIT} /\ cts[B] + 1 \in Nat
      BY <2>4
    <3> QED BY <2>1, <3>1 DEF Packed
  <2>11. ASSUME NEW b \in 0 .. NBlocks - 1
         PROVE  /\ Base(b) + cts'[b] <= Base(b + 1)
                /\ \A i \in 0 .. OutEdgeCount - 1 :
                     Base(b) <= i /\ i < Base(b + 1) =>
                       (outEdges'[i] = UNINIT <=> i >= Base(b) + cts'[b])
    <3>1. CASE b = B
      <4>1. cts'[b] = cts[B] + 1 /\ slot = Base(B) + cts[B]
        BY <2>1, <2>3, <3>1 DEF slot, Packed
      <4>2. Base(b) + cts'[b] = slot + 1
        BY <2>4, <3>1, <4>1
      <4>3. Base(b) + cts'[b] <= Base(b + 1)
        BY <2>4, <2>7, <3>1, <4>2
      <4>4. ASSUME NEW i \in 0 .. OutEdgeCount - 1, Base(b) <= i, i < Base(b + 1)
            PROVE  outEdges'[i] = UNINIT <=> i >= slot + 1
        <5>1. outEdges[i] = UNINIT <=> i >= slot
          BY <2>3, <3>1, <4>1, <4>4 DEF Packed
        <5>2. i = slot => outEdges'[i] # UNINIT
          BY <2>1, <2>8, <2>9
        <5>3. i # slot => outEdges'[i] = outEdges[i]
          BY <2>1, <2>10 DEF Packed
        <5> QED BY <2>7, <5>1, <5>2, <5>3
      <4> QED BY <4>2, <4>3, <4>4
    <3>2. CASE b # B
      <4>1. cts'[b] = cts[b]
        BY <2>1, <3>2 DEF Packed
      <4>2. ASSUME NEW i \in 0 .. OutEdgeCount - 1, Base(b) <= i, i < Base(b + 1)
            PROVE  i # slot
        <5>1. b < B \/ B < b
          BY <2>2, <2>3, <3>2
        <5>2. CASE b < B
          <6>1. b + 1 \in 0 .. NBlocks /\ b + 1 <= B
            BY <2>2, <2>3, <5>2
          <6>2. Base(b + 1) <= Base(B)
            BY <2>2, <2>3, <6>1
          <6>3. Base(b + 1) \in Nat
            BY <2>2, <6>1
          <6> QED BY <2>4, <2>7, <4>2, <6>2, <6>3
        <5>3. CASE B < b
          <6>1. b \in 0 .. NBlocks /\ B + 1 <= b
            BY <2>2, <2>3, <5>3
          <6>2. Base(B + 1) <= Base(b)
            BY <2>2, <2>3, <6>1
          <6>3. Base(b) \in Nat
            BY <2>2, <6>1
          <6> QED BY <2>4, <2>7, <4>2, <6>2, <6>3
        <5> QED BY <5>1, <5>2, <5>3
      <4>3. \A i \in 0 .. OutEdgeCount - 1 : i # slot => outEdges'[i] = outEdges[i]
        BY <2>1, <2>10 DEF Packed
      <4> QED BY <4>1, <4>2, <4>3 DEF Packed
    <3> QED BY <3>1, <3>2
  <2>12. ASSUME NEW x \in Items, st'[x] # "done"
         PROVE  Base(BlockOf(x[1])) + cts'[BlockOf(x[1])] <= Place(x)
    <3>1. x # it /\ st[x] # "done"
      BY <2>12
    <3>2. Base(BlockOf(x[1])) + cts[BlockOf(x[1])] <= Place(x)
      BY <3>1 DEF Packed
    <3>3. CASE BlockOf(x[1]) = B
      <4>1. Place(it) < Place(x)
        <5>1. x \notin Before(it)
          BY <3>1
        <5> QED BY <3>1, <3>3, <5>1, BlockOrder DEF B
      <4>2. cts'[B] = cts[B] + 1 /\ Place(x) \in Nat /\ slot = Base(B) + cts[B]
        BY <2>1, <2>2, <2>3 DEF Packed, slot
      <4> QED BY <2>4, <2>5, <2>6, <3>3, <4>1, <4>2
    <3>4. CASE BlockOf(x[1]) # B
      <4>1. cts'[BlockOf(x[1])] = cts[BlockOf(x[1])]
        BY <2>1, <2>2, <3>4 DEF Packed
      <4> QED BY <3>2, <4>1
    <3> QED BY <3>3, <3>4
  <2>13. Packed'
    BY <2>10, <2>11, <2>12, MappedFrame DEF Packed
  <2>14. \A v \in V : IF v = Dst(it) THEN Found(v)' = Found(v) \cup {slot} /\ slot \notin Found(v)
                                     ELSE Found(v)' = Found(v)
    <3> DEFINE val == Dst(it)
    <3>1. outEdges' = [outEdges EXCEPT ![slot] = val] /\ IsSparse
      BY <2>1 DEF SparseCall
    <3> HIDE DEF val
    <3>2. \A v \in V : IF v = val THEN Found(v)' = Found(v) \cup {slot} /\ slot \notin Found(v)
                                   ELSE Found(v)' = Found(v)
      BY <2>8, <3>1, FoundInArray
    <3> QED BY <3>2 DEF val
  <2>15. Adds(it, r)
    BY <1>2, <2>14 DEF Adds
  <2> QED BY <2>13, <2>15
<1> QED BY <1>1, <1>2

\* get_emdense_gen and get_emdense_forward_gen.
LEMMA MarkedStep ==
  ASSUME Mapped, mode \in {"dense", "forward"}, Marked, begun' = begun,
         NEW it \in Items, NEW r \in BOOLEAN, Mark(it, r),
         mode = "dense" => it[1] \in begun
  PROVE  Marked' /\ Adds(it, r)
<1>1. ~IsSparse /\ ~IsSparse' /\ UNINIT \notin BOOLEAN /\ Dst(it)' = Dst(it)
  BY EdgeMapAssumption, MappedFrame DEF IsSparse
<1>2. \A v \in V : next'[v] = IF r /\ v = Dst(it) THEN TRUE ELSE next[v]
  BY DEF Mark, Marked
<1>3. next' \in [V -> BOOLEAN \cup {UNINIT}]
  <2>1. TRUE \in BOOLEAN \cup {UNINIT}
    OBVIOUS
  <2> QED BY <2>1 DEF Mark, Marked
<1>4. mode = "dense" => Dst(it) \in begun
  BY DEF Dst
<1>5. Marked'
  <2>1. \A v \in V : next'[v] = UNINIT <=> mode = "dense" /\ v \notin begun
    BY <1>1, <1>2, <1>4 DEF Marked
  <2> QED BY <1>3, <2>1 DEF Marked, Mapped
<1>6. ASSUME NEW v \in V
      PROVE  IF r /\ v = Dst(it) THEN Found(v)' = Found(v) \cup {v} ELSE Found(v)' = Found(v)
  <2>1. Found(v) = {x \in {v} : next[x] = TRUE} /\ Found(v)' = {x \in {v} : next'[x] = TRUE}
    BY <1>1 DEF Found
  <2> QED BY <1>2, <2>1
<1> QED BY <1>1, <1>5, <1>6 DEF Adds

-----------------------------------------------------------------------------
(* The steps of the traversal keep CallInv *)

LEMMA MappingStep ==
  ASSUME Mapping, Mapped
  PROVE  Mapping'
BY MappedFrame DEF Mapping, Mapped

LEMMA WorkingStep ==
  ASSUME Working, Mapped, begun \subseteq begun', mode = "dense" => begun' \subseteq V,
         st' \in [Items -> {"todo", "upd", "chk", "done"}],
         \A x \in Items :
           /\ st[x] = "done" => st'[x] = "done"
           /\ st'[x] = "chk" => mode = "dense"
           /\ st'[x] \in {"upd", "chk"} =>
                \/ st[x] \in {"upd", "chk"}
                \/ (\A y \in Before(x) : st[y] = "done") /\ (mode = "dense" => x[1] \in begun)
  PROVE  Working'
<1>1. Items' = Items /\ \A x : Before(x)' = Before(x)
  BY MappedFrame
<1>2. \A x \in Items : Before(x) \subseteq Items
  BY DEF Before
<1>3. \A x \in Items : st'[x] \in {"upd", "chk"} => \A y \in Before(x) : st'[y] = "done"
  BY <1>2 DEF Working, Mapped
<1>4. mode = "dense" => \A x \in Items : st'[x] \in {"upd", "chk"} => x[1] \in begun'
  BY DEF Working, Mapped
<1> QED BY <1>1, <1>3, <1>4 DEF Working, Mapped

\* A step that writes no output.
LEMMA QuietStep ==
  ASSUME CallInv, Mapped, UNCHANGED <<outEdges, cts, next, begun>>,
         st' \in [Items -> {"todo", "upd", "chk", "done"}],
         \A x \in Items :
           /\ st[x] = "done" => st'[x] = "done"
           /\ mode # "dense" => st'[x] # "chk" /\ (st'[x] = "done" => st[x] = "done")
           /\ st'[x] \in {"upd", "chk"} =>
                \/ st[x] \in {"upd", "chk"}
                \/ (\A y \in Before(x) : st[y] = "done") /\ (mode = "dense" => x[1] \in begun)
  PROVE  CallInv' /\ \A v : Found(v)' = Found(v)
<1>1. Working /\ Mapping /\ Output
  BY DEF CallInv
<1>2. Working'
  BY <1>1, WorkingStep DEF Working, Mapped
<1>3. \A v : Found(v)' = Found(v)
  BY FoundStays
<1>4. mode # "dense" => \A x \in Items : st[x] \in {"todo", "upd"} <=> st'[x] \in {"todo", "upd"}
  BY <1>1 DEF Working, Mapped
<1>5. mode = "sparse" /\ Filled => Filled'
  BY <1>4, MappedFrame DEF Filled
<1>6. mode = "nofilter" /\ Packed => Packed'
  <2>1. mode = "nofilter" => \A x \in Items : st'[x] # "done" => st[x] # "done"
    OBVIOUS
  <2> QED BY <2>1, MappedFrame DEF Packed
<1>7. Marked => Marked'
  BY DEF Marked, Mapped
<1>8. Output'
  BY <1>1, <1>5, <1>6, <1>7, MappedFrame DEF Output, Mapped
<1>9. Mapping' /\ WellShaped(vs)' /\ phase' # "abort"
  BY <1>1, MappingStep DEF CallInv, Mapped, WellShaped, Agrees
<1> QED BY <1>2, <1>3, <1>8, <1>9 DEF CallInv

\* A step that stores what an item's update answered.
LEMMA WriteStep ==
  ASSUME CallInv, Mapped, NEW it \in Items, NEW r \in BOOLEAN, Write(it, r), begun' = begun,
         st[it] \in {"todo", "upd"}, \A y \in Before(it) : st[y] = "done",
         mode = "dense" => it[1] \in begun,
         NEW a \in {"chk", "done"}, a = "chk" => mode = "dense",
         st' = [st EXCEPT ![it] = a]
  PROVE  CallInv' /\ (ShouldOutput => Adds(it, r))
<1>1. Working /\ Mapping /\ Output /\ WellShaped(vs) /\ phase = "map"
  BY DEF CallInv, Mapped
<1>2. /\ st \in [Items -> {"todo", "upd", "chk", "done"}]
      /\ mode \in {"sparse", "nofilter", "dense", "forward"}
  BY <1>1 DEF Working, Mapping
<1>3. /\ st' \in [Items -> {"todo", "upd", "chk", "done"}]
      /\ st'[it] = a /\ \A x \in Items \ {it} : st'[x] = st[x]
  BY <1>2
<1>4. Working'
  <2>1. mode = "dense" => begun \subseteq V
    BY <1>1 DEF Working
  <2>2. mode # "dense" => \A x \in Items : st[x] # "chk"
    BY <1>1 DEF Working
  <2> QED BY <1>1, <1>2, <1>3, <2>1, <2>2, WorkingStep
<1>5. /\ IsSparse => SparseCall
      /\ \A x \in Items : Dst(x) \in V /\ (~IsSparse => x[1] \in V)
  BY <1>1, ItemVertices
<1>6. ASSUME ShouldOutput, mode = "sparse" PROVE Filled' /\ Adds(it, r)
  <2>1. Filled /\ Emit(it, r) /\ st'[it] = "done" /\ SparseCall
    BY <1>1, <1>3, <1>5, <1>6 DEF Output, Write, IsSparse
  <2> QED BY <1>3, <1>5, <1>6, <2>1, FilledStep
<1>7. ASSUME ShouldOutput, mode = "nofilter" PROVE Packed' /\ Adds(it, r)
  <2>1. Packed /\ Emit(it, r) /\ st'[it] = "done" /\ SparseCall /\ st[it] # "done"
    BY <1>1, <1>3, <1>5, <1>7 DEF Output, Write, IsSparse
  <2> QED BY <1>3, <1>5, <1>7, <2>1, PackedStep
<1>8. ASSUME ShouldOutput, ~IsSparse PROVE Marked' /\ Adds(it, r)
  <2>1. Marked /\ Mark(it, r) /\ mode \in {"dense", "forward"}
    BY <1>1, <1>2, <1>8 DEF Output, Write, IsSparse
  <2> QED BY <2>1, MarkedStep
<1>9. Output' /\ (ShouldOutput => Adds(it, r))
  BY <1>2, <1>6, <1>7, <1>8, MappedFrame DEF Output, Mapped, IsSparse
<1>10. Mapping' /\ WellShaped(vs)' /\ phase' # "abort"
  BY <1>1, MappingStep DEF Mapped, WellShaped, Agrees
<1> QED BY <1>4, <1>9, <1>10 DEF CallInv

LEMMA DenseVertexStep ==
  ASSUME CallInv, NEW v \in V, NEW c \in BOOLEAN, DenseVertex(v, c)
  PROVE  Mapped /\ CallInv' /\ (ShouldOutput => \A w \in V : Found(w)' = Found(w))
<1>1. /\ Mapped /\ Working /\ Mapping /\ Output /\ mode = "dense" /\ ~IsSparse
      /\ begun' = begun \cup {v} /\ v \notin begun
      /\ st' = [it \in Items |-> IF it[1] = v /\ ~c THEN "done" ELSE st[it]]
  BY DEF CallInv, DenseVertex, Mapped, IsSparse
<1>2. st \in [Items -> {"todo", "upd", "chk", "done"}] /\ begun \subseteq V
  BY <1>1 DEF Working, Mapped
<1>3. st' \in [Items -> {"todo", "upd", "chk", "done"}] /\ begun' \subseteq V
  BY <1>1, <1>2
<1>4. Working'
  <2>1. /\ \A x \in Items : st[x] = "done" => st'[x] = "done"
        /\ \A x \in Items : st'[x] \in {"upd", "chk"} => st[x] \in {"upd", "chk"}
    BY <1>1
  <2> QED BY <1>1, <1>3, <2>1, WorkingStep
<1>5. ASSUME ShouldOutput PROVE Marked' /\ \A w \in V : Found(w)' = Found(w)
  <2>1. Marked /\ next' = [next EXCEPT ![v] = FALSE] /\ UNINIT \notin BOOLEAN
    BY <1>1, <1>5, EdgeMapAssumption DEF Output, Mapped, DenseVertex
  <2>2. next[v] = UNINIT
    BY <1>1, <2>1 DEF Marked
  <2>3. \A w \in V : next'[w] = IF w = v THEN FALSE ELSE next[w]
    BY <2>1 DEF Marked
  <2>4. next' \in [V -> BOOLEAN \cup {UNINIT}]
    <3>1. FALSE \in BOOLEAN \cup {UNINIT}
      OBVIOUS
    <3> QED BY <2>1, <3>1 DEF Marked
  <2>5. \A w \in V : next'[w] = UNINIT <=> w \notin begun'
    BY <1>1, <2>1, <2>3 DEF Marked
  <2>6. ASSUME NEW w \in V PROVE Found(w)' = Found(w)
    <3>1. Found(w) = {x \in {w} : next[x] = TRUE} /\ Found(w)' = {x \in {w} : next'[x] = TRUE}
      BY <1>1, MappedFrame DEF Found
    <3>2. UNINIT # TRUE
      BY <2>1
    <3> QED BY <2>2, <2>3, <3>1, <3>2
  <2> QED BY <1>1, <2>4, <2>5, <2>6 DEF Marked, Mapped
<1>6. Output'
  BY <1>1, <1>5, MappedFrame DEF Output, Mapped
<1>7. Mapping' /\ WellShaped(vs)' /\ phase' # "abort"
  BY <1>1, MappingStep DEF CallInv, Mapped, WellShaped, Agrees
<1> QED BY <1>1, <1>4, <1>5, <1>6, <1>7 DEF CallInv

LEMMA InNghStep ==
  ASSUME CallInv, NEW it \in Items, InNgh(it)
  PROVE  Mapped /\ CallInv' /\ \A v : Found(v)' = Found(v)
<1>1. /\ Mapped /\ Working /\ mode = "dense" /\ UNCHANGED <<outEdges, cts, next, begun>>
      /\ st[it] = "todo" /\ it[1] \in begun /\ \A y \in Before(it) : st[y] = "done"
  BY DEF CallInv, InNgh, Mapped, Ready
<1>2. PICK a \in {"upd", "chk", "done"} : st' = [st EXCEPT ![it] = a]
  BY DEF InNgh
<1>3. st \in [Items -> {"todo", "upd", "chk", "done"}]
  BY <1>1 DEF Working, Mapped
<1>4. /\ st' \in [Items -> {"todo", "upd", "chk", "done"}]
      /\ st'[it] = a /\ \A x \in Items \ {it} : st'[x] = st[x]
  BY <1>2, <1>3
<1> QED BY <1>1, <1>4, QuietStep

LEMMA BreakEarlyStep ==
  ASSUME CallInv, NEW it \in Items, NEW c \in BOOLEAN, BreakEarly(it, c)
  PROVE  Mapped /\ CallInv' /\ \A v : Found(v)' = Found(v)
<1>1. /\ Mapped /\ Working /\ UNCHANGED <<outEdges, cts, next, begun>> /\ st[it] = "chk"
      /\ st' = [x \in Items |-> IF x = it \/ (~c /\ x[1] = it[1]) THEN "done" ELSE st[x]]
  BY DEF CallInv, BreakEarly, Mapped
<1>2. st \in [Items -> {"todo", "upd", "chk", "done"}] /\ mode = "dense"
  BY <1>1 DEF Working, Mapped
<1>3. /\ st' \in [Items -> {"todo", "upd", "chk", "done"}]
      /\ \A x \in Items : st'[x] = "done" \/ st'[x] = st[x]
  BY <1>1, <1>2
<1> QED BY <1>1, <1>2, <1>3, QuietStep

LEMMA OutNghStep ==
  ASSUME CallInv, NEW it \in Items, NEW c \in BOOLEAN, OutNgh(it, c)
  PROVE  Mapped /\ CallInv' /\ (ShouldOutput => \A v \in V : Found(v)' = Found(v))
<1>1. /\ Mapped /\ Working /\ mode # "dense" /\ begun' = begun
      /\ st[it] = "todo" /\ \A y \in Before(it) : st[y] = "done"
      /\ st' = [st EXCEPT ![it] = IF c THEN "upd" ELSE "done"]
  BY DEF CallInv, OutNgh, Mapped, Ready
<1>2. st \in [Items -> {"todo", "upd", "chk", "done"}] /\ \A x \in Items : st[x] # "chk"
  BY <1>1 DEF Working, Mapped
<1>3. CASE c
  <2>1. /\ st' \in [Items -> {"todo", "upd", "chk", "done"}]
        /\ st'[it] = "upd" /\ \A x \in Items \ {it} : st'[x] = st[x]
    BY <1>1, <1>2, <1>3
  <2>2. UNCHANGED <<outEdges, cts, next, begun>>
    BY <1>3 DEF OutNgh
  <2> QED BY <1>1, <1>2, <2>1, <2>2, QuietStep
<1>4. CASE ~c
  <2>1. Write(it, FALSE) /\ st' = [st EXCEPT ![it] = "done"]
    BY <1>1, <1>4 DEF OutNgh
  <2>2. CallInv' /\ (ShouldOutput => Adds(it, FALSE))
    BY <1>1, <2>1, WriteStep
  <2> QED BY <1>1, <2>2 DEF Adds
<1> QED BY <1>3, <1>4

LEMMA UpdatedStep ==
  ASSUME CallInv, NEW it \in Items, NEW r \in BOOLEAN, Updated(it, r)
  PROVE  Mapped /\ CallInv' /\ (ShouldOutput => Adds(it, r))
<1>1. /\ Mapped /\ Working /\ begun' = begun /\ st[it] = "upd" /\ Write(it, r)
  BY DEF CallInv, Updated, Mapped
<1>2. /\ \A y \in Before(it) : st[y] = "done"
      /\ mode = "dense" => it[1] \in begun
  BY <1>1 DEF Working, Mapped
<1>3. PICK a \in {"chk", "done"} : st' = [st EXCEPT ![it] = a] /\ (a = "chk" => mode = "dense")
  BY DEF Updated
<1> QED BY <1>1, <1>2, <1>3, WriteStep

-----------------------------------------------------------------------------
(* The call begins *)

\* What ItemsLieInBlocks says of a traversal that is about to start.
BlocksOrdered == \A b \in 0 .. NBlocks - 1 : /\ Base(b) \in Nat /\ Base(b) <= Base(b + 1)
PlacesInBlocks == \A it \in Items : /\ BlockOf(it[1]) \in 0 .. NBlocks - 1
                                    /\ Base(BlockOf(it[1])) <= Place(it)
                                    /\ Base(BlockOf(it[1])) \in Nat
                                    /\ Place(it) \in 0 .. OutEdgeCount - 1

LEMMA BlocksHold == SparseCall => OutEdgeCount \in Nat /\ BlocksOrdered /\ PlacesInBlocks
<1> SUFFICES ASSUME SparseCall PROVE OutEdgeCount \in Nat /\ BlocksOrdered /\ PlacesInBlocks
  OBVIOUS
<1>1. /\ NBlocks \in Nat
      /\ \A b \in 0 .. NBlocks : Base(b) \in Nat
      /\ \A b, c \in 0 .. NBlocks : b <= c => Base(b) <= Base(c)
      /\ \A it \in Items : /\ BlockOf(it[1]) \in 0 .. NBlocks - 1
                           /\ Base(BlockOf(it[1])) <= Place(it)
  BY ItemsLieInBlocks
<1>2. ASSUME NEW b \in 0 .. NBlocks - 1 PROVE Base(b) \in Nat /\ Base(b) <= Base(b + 1)
  <2>1. b \in 0 .. NBlocks /\ b + 1 \in 0 .. NBlocks /\ b <= b + 1
    BY <1>1
  <2> QED BY <1>1, <2>1
<1> QED BY <1>1, <1>2, PlacesAreSlots DEF BlocksOrdered, PlacesInBlocks

LEMMA BlocksHoldNext == SparseCall' => (OutEdgeCount \in Nat /\ BlocksOrdered /\ PlacesInBlocks)'
BY BlocksHold, PTL

\* An array nobody has written: nothing is found.
LEMMA EnterSparseOutput ==
  ASSUME SparseCall', mode' \in {"sparse", "nofilter"},
         st' = [it \in Items' |-> "todo"],
         ShouldOutput' => outEdges' = [i \in 0 .. OutEdgeCount' - 1 |-> UNINIT],
         cts' = [b \in 0 .. NBlocks' - 1 |-> 0]
  PROVE  Output' /\ (ShouldOutput' => \A v \in V : Found(v)' = {})
<1>1. SparseCall' => (OutEdgeCount \in Nat /\ BlocksOrdered /\ PlacesInBlocks)'
  BY BlocksHoldNext
<1>2. IsSparse' /\ UNINIT \notin V
  BY EdgeMapAssumption DEF IsSparse
<1>3. ASSUME ShouldOutput', mode' = "sparse" PROVE Filled'
  <2>1. \A it \in Items' : Place(it)' \in 0 .. OutEdgeCount' - 1
    BY <1>1 DEF PlacesInBlocks
  <2> QED BY <1>3, <2>1 DEF Filled
<1>4. ASSUME ShouldOutput', mode' = "nofilter" PROVE Packed'
  <2>1. /\ outEdges' \in [0 .. OutEdgeCount' - 1 -> V \cup {UNINIT}]
        /\ cts' \in [0 .. NBlocks' - 1 -> Nat]
    BY <1>4
  <2>2. ASSUME NEW b \in (0 .. NBlocks - 1)'
        PROVE  /\ Base(b)' + cts'[b] <= Base(b + 1)'
               /\ \A i \in (0 .. OutEdgeCount - 1)' :
                    Base(b)' <= i /\ i < Base(b + 1)' =>
                      (outEdges'[i] = UNINIT <=> i >= Base(b)' + cts'[b])
    <3>1. cts'[b] = 0 /\ Base(b)' \in Nat /\ Base(b)' <= Base(b + 1)'
      BY <1>1 DEF BlocksOrdered
    <3> QED BY <1>4, <3>1
  <2>3. ASSUME NEW it \in Items'
        PROVE  (Base(BlockOf(it[1])) + cts[BlockOf(it[1])] <= Place(it))'
    <3>1. (/\ BlockOf(it[1]) \in 0 .. NBlocks - 1 /\ Base(BlockOf(it[1])) <= Place(it)
           /\ Base(BlockOf(it[1])) \in Nat)'
      BY <1>1 DEF PlacesInBlocks
    <3>2. (cts[BlockOf(it[1])] = 0)'
      BY <3>1
    <3> QED BY <3>1, <3>2
  <2> QED BY <2>1, <2>2, <2>3 DEF Packed
<1>5. ASSUME ShouldOutput', NEW v \in V PROVE Found(v)' = {}
  BY <1>2, <1>5 DEF Found
<1> QED BY <1>2, <1>3, <1>4, <1>5 DEF Output

\* Entering the call: the frontier keeps its members, and nothing is found yet.
LEMMA EnterStep ==
  ASSUME CallInv, EnterCall
  PROVE  /\ CallInv' /\ Members(vs)' = Members(vs)
         /\ phase' = "map" /\ ShouldOutput => \A v \in V : Found(v)' = {}
         /\ phase' \in {"map", "crash"} => res' = res
         /\ phase' = "ret" => res' = EmptySubset
<1>1. WellShaped(vs) /\ phase = "call"
  BY DEF CallInv, EnterCall, CallEmpty, CallDense, CallSparse, CallDies, Starts
<1>2. /\ ~BadM(vs) /\ WellShaped(ToSparse(vs)) /\ Members(ToSparse(vs)) = Members(vs)
      /\ ToSparse(vs).m = vs.m
      /\ vs.m > 0 => /\ ToSparse(vs).s \in [0 .. vs.m - 1 -> V]
                     /\ Members(ToSparse(vs)) = Entries(ToSparse(vs).s, vs.m)
  BY <1>1, ToSparseKeepsMembers
<1>3. \A S \in {vs, ToSparse(vs)} :
        /\ WellShaped(ToDense(S, V)) /\ Members(ToDense(S, V)) = Members(vs)
        /\ ToDense(S, V).isDense /\ ToDense(S, V).d \in [V -> BOOLEAN]
  BY <1>1, <1>2, ToDenseKeepsMembers
<1>4. CASE CallEmpty
  <2>1. vs' \in {vs, ToSparse(vs)} /\ phase' = "ret" /\ res' = EmptySubset
    BY <1>4 DEF CallEmpty, Returning
  <2>2. Members(vs)' = Members(vs) /\ WellShaped(vs)'
    BY <1>1, <1>2, <2>1 DEF WellShaped, Agrees
  <2> QED BY <2>1, <2>2 DEF CallInv, Mapping, Working, Output
<1>5. CASE CallDense
  <2>1. /\ vs' \in {ToDense(vs, V), ToDense(ToSparse(vs), V)} /\ phase' = "map" /\ res' = res
        /\ mode' \in {"dense", "forward"} /\ fl' = fl
        /\ st' = [it \in Items' |-> "todo"]
        /\ begun' = IF mode' = "forward" THEN OwnersOf(vs', mode') ELSE {}
        /\ next' = [v \in V |-> IF mode' = "forward" THEN FALSE ELSE UNINIT]
    BY <1>5 DEF CallDense, Items, ChosenMode
  <2>2. /\ WellShaped(vs)' /\ Members(vs)' = Members(vs)
        /\ vs'.isDense /\ vs'.d \in [V -> BOOLEAN]
    BY <1>3, <2>1 DEF WellShaped, Agrees
  <2>3. Mapping' /\ ~IsSparse'
    BY <2>1, <2>2 DEF Mapping, IsSparse, Members
  <2>4. Working'
    BY <2>1 DEF Working
  <2>5. UNINIT \notin BOOLEAN
    BY EdgeMapAssumption
  <2>6. Marked'
    <3>1. CASE mode' = "forward"
      <4>1. \A v \in V : FALSE \in BOOLEAN \cup {UNINIT}
        OBVIOUS
      <4> QED BY <2>1, <2>5, <3>1, <4>1 DEF Marked
    <3>2. CASE mode' = "dense"
      BY <2>1, <3>2 DEF Marked
    <3> QED BY <2>1, <3>1, <3>2
  <2>7. Output'
    BY <2>3, <2>6 DEF Output, IsSparse
  <2>8. ASSUME NEW v \in V PROVE Found(v)' = {}
    <3>1. next'[v] # TRUE
      BY <2>1, <2>5
    <3>2. Found(v)' = {x \in {v} : next'[x] = TRUE}
      BY <2>3 DEF Found
    <3> QED BY <3>1, <3>2
  <2> QED BY <2>1, <2>2, <2>3, <2>4, <2>7, <2>8 DEF CallInv
<1>6. CASE CallSparse
  <2>1. /\ vs' = ToSparse(vs) /\ vs.m > 0 /\ phase' = "map" /\ res' = res
        /\ mode' \in {"sparse", "nofilter"} /\ fl' = fl
        /\ st' = [it \in Items' |-> "todo"]
        /\ outEdges' = IF ShouldOutput THEN [i \in 0 .. OffsetsOf(vs')[vs.m] - 1 |-> UNINIT]
                       ELSE <<>>
        /\ cts' = [b \in 0 .. NBlocks' - 1 |-> 0]
    BY <1>6 DEF CallSparse, Starts, Items, ChosenMode
  <2>2. /\ WellShaped(vs)' /\ Members(vs)' = Members(vs) /\ vs'.m = vs.m
        /\ vs'.s \in [0 .. vs.m - 1 -> V] /\ Members(vs)' = Entries(vs'.s, vs.m)
    BY <1>2, <2>1 DEF WellShaped, Agrees
  <2>3. Mapping'
    BY <2>1, <2>2 DEF Mapping, IsSparse
  <2>4. Working'
    BY <2>1 DEF Working
  <2>5. SparseCall' /\ OutEdgeCount' = OffsetsOf(vs')[vs.m] /\ ShouldOutput' = ShouldOutput
    <3>1. vs.m \in Nat
      BY <1>1 DEF WellShaped, IsSubset
    <3>2. IsSparse' /\ ShouldOutput' = ShouldOutput
      BY <2>1 DEF IsSparse, ShouldOutput
    <3>3. OutEdgeCount' = OffsetsOf(vs')[vs.m]
      BY <2>2 DEF OutEdgeCount, Offsets
    <3> QED BY <2>2, <3>1, <3>2, <3>3 DEF SparseCall, Indices
  <2>6. ShouldOutput' => outEdges' = [i \in 0 .. OutEdgeCount' - 1 |-> UNINIT]
    BY <2>1, <2>5
  <2>7. Output' /\ (ShouldOutput => \A v \in V : Found(v)' = {})
    BY <2>1, <2>5, <2>6, EnterSparseOutput
  <2> QED BY <2>1, <2>2, <2>3, <2>4, <2>7 DEF CallInv
<1>7. CASE CallDies
  <2>1. vs' = vs /\ phase' = "crash" /\ res' = res
    BY <1>2, <1>7 DEF CallDies
  <2>2. Members(vs)' = Members(vs) /\ WellShaped(vs)'
    BY <1>1, <2>1 DEF WellShaped, Agrees, Members
  <2> QED BY <2>1, <2>2 DEF CallInv, Mapping, Working, Output
<1> QED BY <1>4, <1>5, <1>6, <1>7 DEF EnterCall

-----------------------------------------------------------------------------
(* The call ends *)

\* filterf drops the empty entries alone.
LEMMA NonMaxCounts ==
  ASSUME NEW k \in Nat, NEW arr \in [0 .. k - 1 -> V \cup {UINT_E_MAX}]
  PROVE  /\ \E l \in Nat : NonMax(arr) \in [0 .. l - 1 -> V]
         /\ \A v \in V : Count(NonMax(arr), v) = Count(arr, v)
<1> DEFINE K == {i \in DOMAIN arr : arr[i] # UINT_E_MAX}
<1>1. K \in SUBSET Int /\ IsFiniteSet(K)
  <2>1. IsFiniteSet(0 .. k - 1)
    BY FS_Interval
  <2> QED BY <2>1, FS_Subset
<1> HIDE DEF K
<1>2. NonMax(arr) = Keep(arr, K)
  BY DEF NonMax, K
<1>3. /\ Cardinality(K) \in Nat /\ DOMAIN Keep(arr, K) = 0 .. Cardinality(K) - 1
      /\ \A i \in 0 .. Cardinality(K) - 1 : \E x \in K : Keep(arr, K)[i] = arr[x]
  BY <1>1, KeepCounts
<1>8. \A v : Count(Keep(arr, K), v) = CountAt(arr, K, v)
  BY <1>1, KeepCounts
<1> DEFINE l == Cardinality(K)
<1>4. Keep(arr, K) = [i \in 0 .. l - 1 |-> arr[Nth(K, i)]]
  BY DEF Keep
<1> HIDE DEF l
<1>5. \A i \in 0 .. l - 1 : Keep(arr, K)[i] \in V
  BY <1>3 DEF K, l
<1>6. Keep(arr, K) \in [0 .. l - 1 -> V]
  BY <1>4, <1>5
<1>7. ASSUME NEW v \in V PROVE Count(Keep(arr, K), v) = Count(arr, v)
  <2>1. {x \in K : arr[x] = v} = {i \in DOMAIN arr : arr[i] = v}
    BY EdgeMapAssumption DEF K
  <2> QED BY <1>8, <2>1 DEF Count, CountAt
<1> QED BY <1>2, <1>3, <1>6, <1>7 DEF l

\* remDuplicates leaves one entry of each key.
LEMMA RemDuplicatesCounts ==
  ASSUME NEW k \in Nat, NEW arr \in [0 .. k - 1 -> V \cup {UINT_E_MAX}],
         NEW u \in RemDuplicates(arr)
  PROVE  /\ u \in [0 .. k - 1 -> V \cup {UINT_E_MAX}]
         /\ \A v \in V : Count(u, v) = IF Count(arr, v) = 0 THEN 0 ELSE 1
<1> DEFINE keys == {arr[i] : i \in DOMAIN arr} \ {UINT_E_MAX}
<1>1. PICK w \in [keys -> DOMAIN arr] :
        /\ \A key \in keys : arr[w[key]] = key
        /\ u = [i \in DOMAIN arr |-> IF arr[i] \in keys /\ w[arr[i]] # i
                                     THEN UINT_E_MAX ELSE arr[i]]
  BY DEF RemDuplicates
<1>2. u \in [0 .. k - 1 -> V \cup {UINT_E_MAX}]
  BY <1>1
<1>3. ASSUME NEW v \in V PROVE Count(u, v) = IF Count(arr, v) = 0 THEN 0 ELSE 1
  <2> DEFINE A == {i \in DOMAIN arr : arr[i] = v}
             U == {i \in DOMAIN u : u[i] = v}
  <2>1. IsFiniteSet(A)
    <3>1. IsFiniteSet(0 .. k - 1)
      BY FS_Interval
    <3> QED BY <3>1, FS_Subset
  <2>2. v # UINT_E_MAX
    BY EdgeMapAssumption
  <2>3. CASE A = {}
    <3>1. U = {}
      BY <1>1, <2>2, <2>3
    <3> QED BY <2>3, <3>1, FS_EmptySet DEF Count, CountAt
  <2>4. CASE A # {}
    <3>1. v \in keys
      BY <2>2, <2>4
    <3>2. w[v] \in DOMAIN arr /\ arr[w[v]] = v
      BY <1>1, <3>1
    <3>3. U = {w[v]}
      BY <1>1, <2>2, <3>1, <3>2
    <3>4. Cardinality(U) = 1
      BY <3>3, FS_Singleton
    <3>5. Cardinality(A) # 0
      BY <2>1, <2>4, FS_EmptySet
    <3> QED BY <3>4, <3>5 DEF Count, CountAt
  <2> QED BY <2>3, <2>4
<1> QED BY <1>2, <1>3

\* No array is the null pointer.
NullIsNoArray == \A l \in Nat : NULL \notin [0 .. l - 1 -> V]

LEMMA OfArrayIsWellShaped ==
  ASSUME NullIsNoArray, NEW l \in Nat, NEW arr \in [0 .. l - 1 -> V]
  PROVE  WellShaped(OfArray(arr))
<1>1. Cardinality(DOMAIN arr) = l
  <2>1. Cardinality(0 .. l - 1) = IF 0 > l - 1 THEN 0 ELSE (l - 1) - 0 + 1
    BY FS_Interval
  <2> QED BY <2>1
<1>2. OfArray(arr) = [s |-> arr, d |-> NULL, m |-> l, isDense |-> FALSE]
  BY <1>1 DEF OfArray, OfIndices
<1> QED BY <1>2 DEF WellShaped, IsSubset, Agrees, NullIsNoArray

LEMMA OfBitsIsWellShaped ==
  ASSUME NEW bits \in [V -> BOOLEAN]
  PROVE  WellShaped(OfBits(bits))
<1>1. Trues(bits) \subseteq V /\ IsFiniteSet(V)
  BY VertexSet DEF Trues
<1>2. Cardinality(Trues(bits)) \in Nat
  BY <1>1, FS_Subset, FS_CardinalityType
<1>3. bits # NULL
  BY EdgeMapAssumption
<1> QED BY <1>2, <1>3 DEF WellShaped, IsSubset, Agrees, OfBits

\* A subset made of an array of vertices.
LEMMA OfArrayCounts ==
  ASSUME NEW l \in Nat, NEW arr \in [0 .. l - 1 -> V]
  PROVE  /\ ~OfArray(arr).isDense
         /\ OfArray(arr).m = l /\ OfArray(arr).s = arr
         /\ \A v \in V : /\ IsFiniteSet({i \in DOMAIN arr : arr[i] = v})
                         /\ v \in Members(OfArray(arr)) <=> Count(arr, v) # 0
         /\ Members(OfArray(arr)) \subseteq V
<1>1. Cardinality(DOMAIN arr) = l /\ IsFiniteSet(0 .. l - 1)
  <2>1. /\ IsFiniteSet(0 .. l - 1)
        /\ Cardinality(0 .. l - 1) = IF 0 > l - 1 THEN 0 ELSE (l - 1) - 0 + 1
    BY FS_Interval
  <2> QED BY <2>1
<1>2. OfArray(arr) = [s |-> arr, d |-> NULL, m |-> l, isDense |-> FALSE]
  BY <1>1 DEF OfArray, OfIndices
<1>4. Members(OfArray(arr)) = {arr[i] : i \in 0 .. l - 1}
  BY <1>2 DEF Members, Entries
<1>5. ASSUME NEW v \in V
      PROVE  /\ IsFiniteSet({i \in DOMAIN arr : arr[i] = v})
             /\ v \in Members(OfArray(arr)) <=> Count(arr, v) # 0
  <2>1. IsFiniteSet({i \in DOMAIN arr : arr[i] = v})
    BY <1>1, FS_Subset
  <2>2. Count(arr, v) = 0 <=> {i \in DOMAIN arr : arr[i] = v} = {}
    BY <2>1, FS_EmptySet DEF Count, CountAt
  <2> QED BY <1>4, <2>1, <2>2
<1>6. Members(OfArray(arr)) \subseteq V
  BY <1>4
<1>7. ~OfArray(arr).isDense /\ OfArray(arr).m = l /\ OfArray(arr).s = arr
  BY <1>2
<1> QED BY <1>5, <1>6, <1>7, Zenon

\* sparse_no_filter copies what the blocks have written, and nothing else.
LEMMA CopyBlocksCounts ==
  ASSUME SparseCall, Packed
  PROVE  /\ \E l \in Nat : CopyBlocks \in [0 .. l - 1 -> V]
         /\ \A v \in V : Count(CopyBlocks, v) = Count(outEdges, v)
<1> DEFINE K == {i \in DOMAIN outEdges : outEdges[i] # UNINIT}
           written == {b \in 0 .. NBlocks - 1 : BlockOff(b) # BlockOff(b + 1)}
           from == UNION {{Offsets[BlockOff(b)] + k : k \in 0 .. cts[b] - 1} : b \in written}
<1>1. /\ NBlocks \in Nat /\ OutEdgeCount \in Nat
      /\ \A b \in 0 .. NBlocks : Base(b) \in Nat /\ Base(b) <= OutEdgeCount
      /\ \A k \in 0 .. OutEdgeCount - 1 :
           \E b \in 0 .. NBlocks - 1 : Base(b) <= k /\ k < Base(b + 1)
  BY ItemsLieInBlocks, PlacesAreSlots
<1>2. /\ outEdges \in [0 .. OutEdgeCount - 1 -> V \cup {UNINIT}]
      /\ cts \in [0 .. NBlocks - 1 -> Nat]
  BY DEF Packed
<1>3. ASSUME NEW x \in from PROVE x \in K
  <2>1. PICK b \in written : \E k \in 0 .. cts[b] - 1 : x = Base(b) + k
    BY DEF Base
  <2>2. PICK k \in 0 .. cts[b] - 1 : x = Base(b) + k
    BY <2>1
  <2>3. b \in 0 .. NBlocks - 1 /\ b \in 0 .. NBlocks /\ b + 1 \in 0 .. NBlocks
    BY <1>1
  <2>4. /\ Base(b) \in Nat /\ Base(b + 1) \in Nat /\ cts[b] \in Nat
        /\ Base(b + 1) <= OutEdgeCount
    BY <1>1, <1>2, <2>3
  <2>5. Base(b) + cts[b] <= Base(b + 1)
    BY <2>3 DEF Packed
  <2>6. /\ x \in 0 .. OutEdgeCount - 1 /\ Base(b) <= x /\ x < Base(b + 1)
        /\ ~(x >= Base(b) + cts[b])
    BY <1>1, <2>2, <2>4, <2>5
  <2>7. outEdges[x] # UNINIT
    BY <2>3, <2>6 DEF Packed
  <2> QED BY <1>2, <2>6, <2>7
<1>4. ASSUME NEW x \in K PROVE x \in from
  <2>1. x \in 0 .. OutEdgeCount - 1 /\ outEdges[x] # UNINIT
    BY <1>2
  <2>2. PICK b \in 0 .. NBlocks - 1 : Base(b) <= x /\ x < Base(b + 1)
    BY <1>1, <2>1
  <2>3. b \in 0 .. NBlocks /\ b + 1 \in 0 .. NBlocks /\ cts[b] \in Nat /\ Base(b) \in Nat
    BY <1>1, <1>2
  <2>4. ~(x >= Base(b) + cts[b])
    BY <2>1, <2>2 DEF Packed
  <2>5. x - Base(b) \in 0 .. cts[b] - 1 /\ x = Base(b) + (x - Base(b))
    BY <2>1, <2>2, <2>3, <2>4
  <2>6. BlockOff(b) # BlockOff(b + 1)
    <3>1. Base(b) # Base(b + 1)
      BY <1>1, <2>1, <2>2, <2>3
    <3> QED BY <3>1 DEF Base
  <2>7. b \in written /\ x \in {Offsets[BlockOff(b)] + k : k \in 0 .. cts[b] - 1}
    BY <2>5, <2>6 DEF Base
  <2> QED BY <2>7
<1>5. from = K
  <2> HIDE DEF from, K
  <2> QED BY <1>3, <1>4
<1>6. CopyBlocks = Keep(outEdges, K)
  <2>1. CopyBlocks = Keep(outEdges, from)
    BY DEF CopyBlocks
  <2> HIDE DEF from, K
  <2> QED BY <1>5, <2>1
<1>7. K \in SUBSET Int /\ IsFiniteSet(K)
  <2>1. IsFiniteSet(0 .. OutEdgeCount - 1)
    BY <1>1, FS_Interval
  <2>2. K \in SUBSET (0 .. OutEdgeCount - 1) /\ K \in SUBSET Int
    BY <1>1, <1>2
  <2> HIDE DEF K
  <2> QED BY <2>1, <2>2, FS_Subset
<1>8. \A i \in K : outEdges[i] \in V
  BY <1>2
<1>9. \A v \in V : CountAt(outEdges, K, v) = Count(outEdges, v)
  <2>1. \A v \in V : {x \in K : outEdges[x] = v} = {x \in DOMAIN outEdges : outEdges[x] = v}
    BY EdgeMapAssumption
  <2> HIDE DEF K
  <2>2. ASSUME NEW v \in V PROVE CountAt(outEdges, K, v) = CountAt(outEdges, DOMAIN outEdges, v)
    <3>1. {x \in K : outEdges[x] = v} = {x \in DOMAIN outEdges : outEdges[x] = v}
      BY <2>1
    <3> QED BY <3>1, Zenon DEF CountAt
  <2> QED BY <2>2 DEF Count
<1> HIDE DEF K, from, written
<1>10. /\ Cardinality(K) \in Nat /\ DOMAIN Keep(outEdges, K) = 0 .. Cardinality(K) - 1
       /\ \A i \in 0 .. Cardinality(K) - 1 : \E x \in K : Keep(outEdges, K)[i] = outEdges[x]
  BY <1>7, KeepCounts
<1>11. \A v : Count(Keep(outEdges, K), v) = CountAt(outEdges, K, v)
  BY <1>7, KeepCounts
<1> DEFINE l == Cardinality(K)
<1>12. Keep(outEdges, K) = [i \in 0 .. l - 1 |-> outEdges[Nth(K, i)]]
  BY DEF Keep
<1> HIDE DEF l
<1>13. \A i \in 0 .. l - 1 : Keep(outEdges, K)[i] \in V
  BY <1>8, <1>10 DEF l
<1>14. Keep(outEdges, K) \in [0 .. l - 1 -> V]
  BY <1>12, <1>13
<1> QED BY <1>6, <1>9, <1>10, <1>11, <1>14 DEF l

\* The sparse traversals return what they found, once each when duplicates go.
LEMMA SparseDelivers ==
  ASSUME CallInv, ReturnSparse, ShouldOutput
  PROVE  \E l \in Nat : \E arr \in [0 .. l - 1 -> V] :
           /\ res' = OfArray(arr)
           /\ \A v \in V : Count(arr, v) = IF "remove_duplicates" \notin fl \/ Found(v) = {}
                                           THEN Cardinality(Found(v)) ELSE 1
<1>1. /\ phase = "map" /\ IsSparse /\ WellShaped(vs) /\ Mapping /\ Output
      /\ \A it \in Items : st[it] = "done"
  BY DEF CallInv, ReturnSparse, Joined
<1>2. SparseCall
  BY <1>1, ItemVertices
<1>3. OutEdgeCount \in Nat /\ \A k \in 0 .. OutEdgeCount - 1 : \E it \in Items : Place(it) = k
  BY <1>2, PlacesAreSlots
<1>4. \A v \in V : Count(outEdges, v) = Cardinality(Found(v))
  BY <1>1 DEF Count, CountAt, Found
<1> DEFINE out == IF mode = "nofilter" THEN CopyBlocks ELSE outEdges
<1>5. \E k \in Nat : out \in [0 .. k - 1 -> V \cup {UINT_E_MAX}]
  <2>1. CASE mode = "sparse"
    <3>1. Filled
      BY <1>1, <2>1 DEF Output
    <3>2. \A k \in 0 .. OutEdgeCount - 1 : outEdges[k] # UNINIT
      BY <1>1, <1>3, <3>1 DEF Filled
    <3> QED BY <1>3, <2>1, <3>1, <3>2 DEF Filled
  <2>2. CASE mode = "nofilter"
    <3>1. Packed
      BY <1>1, <2>2 DEF Output
    <3>2. PICK l \in Nat : CopyBlocks \in [0 .. l - 1 -> V]
      BY <1>2, <3>1, CopyBlocksCounts
    <3> QED BY <2>2, <3>2
  <2> QED BY <1>1, <2>1, <2>2 DEF IsSparse
<1>6. \A v \in V : Count(out, v) = Cardinality(Found(v))
  <2>1. CASE mode = "nofilter"
    <3>1. Packed
      BY <1>1, <2>1 DEF Output
    <3> QED BY <1>2, <1>4, <2>1, <3>1, CopyBlocksCounts
  <2>2. CASE mode # "nofilter"
    BY <1>4, <2>2
  <2> QED BY <2>1, <2>2
<1>7. mode = "nofilter" => \E l \in Nat : out \in [0 .. l - 1 -> V]
  <2> SUFFICES ASSUME mode = "nofilter" PROVE \E l \in Nat : CopyBlocks \in [0 .. l - 1 -> V]
    OBVIOUS
  <2>1. Packed
    BY <1>1 DEF Output
  <2> QED BY <1>2, <2>1, CopyBlocksCounts
<1>8. \/ /\ "remove_duplicates" \in fl
         /\ \E u \in RemDuplicates(out) : res' = OfArray(NonMax(u))
      \/ /\ "remove_duplicates" \notin fl
         /\ res' = OfArray(IF mode = "sparse" THEN NonMax(out) ELSE out)
  BY DEF ReturnSparse, Returning
<1> HIDE DEF out
<1>9. PICK k \in Nat : out \in [0 .. k - 1 -> V \cup {UINT_E_MAX}]
  BY <1>5
<1>10. ASSUME NEW v \in V
       PROVE  Found(v) = {} <=> Cardinality(Found(v)) = 0
  <2>1. IsFiniteSet(Found(v))
    <3>1. IsFiniteSet(0 .. OutEdgeCount - 1)
      BY <1>3, FS_Interval
    <3>2. DOMAIN outEdges = 0 .. OutEdgeCount - 1
      BY <1>1 DEF Output, Filled, Packed, IsSparse
    <3>3. Found(v) \subseteq 0 .. OutEdgeCount - 1
      BY <1>1, <3>2 DEF Found
    <3> QED BY <3>1, <3>3, FS_Subset
  <2> QED BY <2>1, FS_EmptySet
<1>11. CASE "remove_duplicates" \in fl
  <2>1. PICK u \in RemDuplicates(out) : res' = OfArray(NonMax(u))
    BY <1>8, <1>11
  <2>2. /\ u \in [0 .. k - 1 -> V \cup {UINT_E_MAX}]
        /\ \A v \in V : Count(u, v) = IF Count(out, v) = 0 THEN 0 ELSE 1
    BY <1>9, RemDuplicatesCounts
  <2>3. /\ \E l \in Nat : NonMax(u) \in [0 .. l - 1 -> V]
        /\ \A v \in V : Count(NonMax(u), v) = Count(u, v)
    BY <2>2, NonMaxCounts
  <2>4. \A v \in V : Count(NonMax(u), v) = IF Found(v) = {} THEN Cardinality(Found(v)) ELSE 1
    BY <1>6, <1>10, <2>2, <2>3
  <2> QED BY <1>11, <2>1, <2>3, <2>4
<1>12. CASE "remove_duplicates" \notin fl
  <2> DEFINE arr == IF mode = "sparse" THEN NonMax(out) ELSE out
  <2>1. res' = OfArray(arr)
    BY <1>8, <1>12
  <2>2. CASE mode = "sparse"
    <3>1. /\ \E l \in Nat : NonMax(out) \in [0 .. l - 1 -> V]
          /\ \A v \in V : Count(NonMax(out), v) = Count(out, v)
      BY <1>9, NonMaxCounts
    <3>2. arr = NonMax(out)
      BY <2>2
    <3> QED BY <1>6, <1>12, <2>1, <3>1, <3>2
  <2>3. CASE mode # "sparse"
    <3>1. arr = out /\ mode = "nofilter"
      BY <1>1, <2>3 DEF IsSparse
    <3> QED BY <1>6, <1>7, <1>12, <2>1, <3>1
  <2> QED BY <2>2, <2>3
<1> QED BY <1>11, <1>12

\* The dense traversals return the vertices whose bit was set.
LEMMA DenseDelivers ==
  ASSUME CallInv, ReturnDense, ShouldOutput
  PROVE  \E bits \in [V -> BOOLEAN] :
           res' = OfBits(bits) /\ \A v \in V : bits[v] <=> Found(v) # {}
<1>1. /\ phase = "map" /\ ~IsSparse /\ mode \in {"dense", "forward"}
      /\ Marked /\ res' = OfBits(next) /\ (mode = "dense" => begun = V)
  BY DEF CallInv, ReturnDense, Joined, Output, Returning, IsSparse
<1>2. \A v \in V : next[v] # UNINIT
  BY <1>1 DEF Marked
<1>3. next \in [V -> BOOLEAN]
  BY <1>1, <1>2 DEF Marked
<1>4. ASSUME NEW v \in V PROVE next[v] <=> Found(v) # {}
  <2>1. Found(v) = {x \in {v} : next[x] = TRUE}
    BY <1>1 DEF Found
  <2>2. next[v] \in BOOLEAN
    BY <1>3
  <2> QED BY <2>1, <2>2
<1> QED BY <1>1, <1>3, <1>4

\* A call that returns delivers what its updates answered TRUE for.
LEMMA LeaveStep ==
  ASSUME CallInv, LeaveCall
  PROVE  /\ CallInv' /\ phase = "map" /\ phase' = "ret"
         /\ \A it \in Items : st[it] = "done"
         /\ UNCHANGED <<fl, vs, mode, begun, st, outEdges, cts, next>>
         /\ \A v \in V : Found(v)' = Found(v)
         /\ ~ShouldOutput => res' = EmptySubset
         /\ ShouldOutput => /\ Members(res') = {v \in V : Found(v) # {}}
                            /\ NullIsNoArray => WellShaped(res')
<1>1. /\ phase = "map" /\ phase' = "ret" /\ WellShaped(vs) /\ Mapping
      /\ UNCHANGED <<fl, vs, mode, begun, st, outEdges, cts, next>>
      /\ \A it \in Items : st[it] = "done"
  BY DEF CallInv, LeaveCall, ReturnDense, ReturnSparse, Returning, Joined
<1>2. CallInv'
  BY <1>1 DEF CallInv, Mapping, Working, Output, WellShaped, Agrees
<1>3. \A v \in V : Found(v)' = Found(v)
  BY <1>1 DEF Found, IsSparse
<1>4. ~ShouldOutput => res' = EmptySubset
  BY DEF LeaveCall, ReturnDense, ReturnSparse, Returning
<1>5. CASE ShouldOutput /\ ReturnSparse
  <2>1. PICK l \in Nat : \E arr \in [0 .. l - 1 -> V] :
           /\ res' = OfArray(arr)
           /\ \A v \in V : Count(arr, v) = IF "remove_duplicates" \notin fl \/ Found(v) = {}
                                           THEN Cardinality(Found(v)) ELSE 1
    BY <1>5, SparseDelivers
  <2>2. PICK arr \in [0 .. l - 1 -> V] :
           /\ res' = OfArray(arr)
           /\ \A v \in V : Count(arr, v) = IF "remove_duplicates" \notin fl \/ Found(v) = {}
                                           THEN Cardinality(Found(v)) ELSE 1
    BY <2>1
  <2>3. /\ Members(OfArray(arr)) \subseteq V
        /\ \A v \in V : v \in Members(OfArray(arr)) <=> Count(arr, v) # 0
    BY OfArrayCounts
  <2>4. ASSUME NEW v \in V PROVE Found(v) = {} <=> Cardinality(Found(v)) = 0
    <3>1. SparseCall /\ IsSparse
      BY <1>1, <1>5, ItemVertices DEF ReturnSparse
    <3>2. OutEdgeCount \in Nat
      BY <3>1, PlacesAreSlots
    <3>3. IsFiniteSet(0 .. OutEdgeCount - 1)
      BY <3>2, FS_Interval
    <3>4. DOMAIN outEdges = 0 .. OutEdgeCount - 1
      BY <1>1, <1>5, <3>1 DEF CallInv, Output, Filled, Packed, IsSparse
    <3>5. Found(v) \subseteq 0 .. OutEdgeCount - 1
      BY <3>1, <3>4 DEF Found
    <3> QED BY <3>3, <3>5, FS_Subset, FS_EmptySet
  <2>5. Members(res') = {v \in V : Found(v) # {}}
    BY <2>2, <2>3, <2>4
  <2>6. NullIsNoArray => WellShaped(res')
    BY <2>2, OfArrayIsWellShaped
  <2> QED BY <1>1, <1>2, <1>3, <1>4, <1>5, <2>5, <2>6
<1>6. CASE ShouldOutput /\ ReturnDense
  <2>1. PICK bits \in [V -> BOOLEAN] :
           res' = OfBits(bits) /\ \A v \in V : bits[v] <=> Found(v) # {}
    BY <1>6, DenseDelivers
  <2>2. Members(OfBits(bits)) = {v \in V : bits[v]}
    BY DEF Members, OfBits, Trues
  <2>3. WellShaped(OfBits(bits))
    BY OfBitsIsWellShaped
  <2> QED BY <1>1, <1>2, <1>3, <1>4, <1>6, <2>1, <2>2, <2>3
<1>7. CASE ~ShouldOutput
  BY <1>1, <1>2, <1>3, <1>4, <1>7
<1> QED BY <1>5, <1>6, <1>7 DEF LeaveCall

\* An array without repetitions has as many entries as members.
LEMMA DistinctEntries ==
  ASSUME NEW l \in Nat, NEW arr \in [0 .. l - 1 -> V], \A v \in V : Count(arr, v) \in {0, 1}
  PROVE  Cardinality({arr[i] : i \in 0 .. l - 1}) = l
<1> DEFINE I == 0 .. l - 1
           M == {arr[i] : i \in 0 .. l - 1}
<1>1. IsFiniteSet(I) /\ Cardinality(I) = l
  <2>1. /\ IsFiniteSet(0 .. l - 1)
        /\ Cardinality(0 .. l - 1) = IF 0 > l - 1 THEN 0 ELSE (l - 1) - 0 + 1
    BY FS_Interval
  <2> QED BY <2>1
<1>2. arr \in [I -> M] /\ \A y \in M : \E i \in I : arr[i] = y
  OBVIOUS
<1>3. arr \in Surjection(I, M)
  <2> HIDE DEF I, M
  <2> QED BY <1>2, Fun_IsSurj
<1>4. ASSUME NEW i \in I, NEW j \in I, arr[i] = arr[j], i # j PROVE FALSE
  <2> DEFINE A == {x \in DOMAIN arr : arr[x] = arr[i]}
  <2>1. {i, j} \in SUBSET A /\ A \in SUBSET I /\ arr[i] \in V
    BY <1>4
  <2>2. IsFiniteSet(A)
    BY <1>1, <2>1, FS_Subset
  <2>3. Cardinality({i}) = 1 /\ IsFiniteSet({i})
    BY FS_Singleton
  <2>4. Cardinality({i} \cup {j}) = 2
    <3> HIDE DEF A, I, M
    <3>1. j \notin {i}
      BY <1>4
    <3>2. Cardinality({i} \cup {j}) = Cardinality({i}) + 1
      BY <2>3, <3>1, FS_AddElement
    <3> QED BY <2>3, <3>2
  <2>5. {i} \cup {j} = {i, j}
    OBVIOUS
  <2>6. Cardinality({i, j}) <= Cardinality(A) /\ Cardinality(A) \in Nat
    BY <2>1, <2>2, FS_Subset, FS_CardinalityType
  <2>7. Cardinality(A) \in {0, 1}
    BY <2>1 DEF Count, CountAt
  <2> QED BY <2>4, <2>5, <2>6, <2>7
<1>5. arr \in Injection(I, M)
  <2> HIDE DEF I, M
  <2> QED BY <1>2, <1>4, Fun_IsInj
<1> HIDE DEF I, M
<1>6. Cardinality(M) = Cardinality(I)
  BY <1>1, <1>3, <1>5, FS_Surjection
<1> QED BY <1>1, <1>6 DEF M

\* When no vertex was found twice, the stored count of what is returned is its size.
LEMMA LeaveCounts ==
  ASSUME CallInv, LeaveCall, ShouldOutput,
         \A v \in V : Found(v) = {} \/ \E x \in Found(v) : Found(v) = {x}
  PROVE  res'.m = Cardinality(Members(res'))
<1>1. \A v \in V : Cardinality(Found(v)) \in {0, 1} /\ (Found(v) = {} => Cardinality(Found(v)) = 0)
  BY FS_EmptySet, FS_Singleton
<1>2. CASE ReturnSparse
  <2>1. PICK l \in Nat : \E arr \in [0 .. l - 1 -> V] :
           /\ res' = OfArray(arr)
           /\ \A v \in V : Count(arr, v) = IF "remove_duplicates" \notin fl \/ Found(v) = {}
                                           THEN Cardinality(Found(v)) ELSE 1
    BY <1>2, SparseDelivers
  <2>2. PICK arr \in [0 .. l - 1 -> V] :
           /\ res' = OfArray(arr)
           /\ \A v \in V : Count(arr, v) = IF "remove_duplicates" \notin fl \/ Found(v) = {}
                                           THEN Cardinality(Found(v)) ELSE 1
    BY <2>1
  <2>3. \A v \in V : Count(arr, v) \in {0, 1}
    BY <1>1, <2>2
  <2>4. Cardinality({arr[i] : i \in 0 .. l - 1}) = l
    BY <2>3, DistinctEntries
  <2>5. ~OfArray(arr).isDense /\ OfArray(arr).m = l /\ OfArray(arr).s = arr
    BY OfArrayCounts
  <2>6. Members(OfArray(arr)) = {arr[i] : i \in 0 .. l - 1}
    BY <2>5 DEF Members, Entries
  <2> QED BY <2>2, <2>4, <2>5, <2>6
<1>3. CASE ReturnDense
  <2>1. PICK bits \in [V -> BOOLEAN] : res' = OfBits(bits)
    BY <1>3, DenseDelivers
  <2>2. Members(OfBits(bits)) = Trues(bits) /\ OfBits(bits).m = Cardinality(Trues(bits))
    BY DEF Members, OfBits
  <2> QED BY <2>1, <2>2
<1> QED BY <1>2, <1>3 DEF LeaveCall

-----------------------------------------------------------------------------
(* Edges and work items *)

\* All but decode_nvm's dense-forward traversal.
Faithful == mode = "forward" => ~Nvm

\* A work item stands for an edge, out of the frontier except in the dense traversal.
LEMMA ItemsAreEdges ==
  ASSUME WellShaped(vs), Mapping, phase = "map", Faithful, NEW it \in Items
  PROVE  /\ <<Src(it), Dst(it)>> \in Edges
         /\ mode # "dense" => Src(it) \in Members(vs)
<1>1. /\ it[1] \in OwnersOf(vs, mode) /\ it[2] \in 0 .. m - 1
      /\ it[2] < DegreeIn(vs, mode, it[1])
  BY DEF Items, ItemsOf
<1>2. m \in Nat
  BY VertexSet
<1>3. CASE IsSparse
  <2>1. /\ it[1] \in 0 .. vs.m - 1 /\ it[2] < OutDegree(vs.s[it[1]])
        /\ Src(it) = vs.s[it[1]] /\ Dst(it) = OutNeighbor(vs.s[it[1]], it[2])
    BY <1>1, <1>3 DEF OwnersOf, DegreeIn, Src, Dst, Vertex, IsSparse
  <2>2. Src(it) \in V /\ Src(it) \in Members(vs)
    BY <1>3, <2>1 DEF Mapping, Entries
  <2>3. it[2] \in 0 .. OutDegree(Src(it)) - 1
    BY <1>1, <1>2, <2>1, <2>2, DegreeBounds
  <2>4. Dst(it) \in V
    BY <2>1, <2>2, <2>3, DegreeBounds
  <2> QED BY <2>1, <2>2, <2>3, <2>4 DEF Edges
<1>4. CASE mode = "dense"
  <2>1. /\ it[1] \in V /\ it[2] < InDegree(it[1])
        /\ Src(it) = InNeighbor(it[1], it[2]) /\ Dst(it) = it[1]
    BY <1>1, <1>4 DEF OwnersOf, DegreeIn, Src, Dst
  <2>2. it[2] \in 0 .. InDegree(it[1]) - 1
    BY <1>1, <1>2, <2>1, DegreeBounds
  <2>3. Src(it) \in V
    BY <2>1, <2>2, DegreeBounds
  <2>4. \E j \in 0 .. OutDegree(Src(it)) - 1 : OutNeighbor(Src(it), j) = Dst(it)
    BY <2>1, <2>2, GraphAssumption DEF IsTranspose
  <2> QED BY <1>4, <2>1, <2>3, <2>4 DEF Edges
<1>5. CASE mode = "forward"
  <2>1. /\ it[1] \in V /\ vs.d[it[1]] /\ it[2] < OutDegree(it[1])
        /\ Src(it) = it[1] /\ Dst(it) = OutNeighbor(it[1], it[2])
    BY <1>1, <1>5 DEF OwnersOf, DegreeIn, Src, Dst, Vertex, IsSparse, IsIn, ForwardNeighbor, Faithful
  <2>2. it[2] \in 0 .. OutDegree(it[1]) - 1
    BY <1>1, <1>2, <2>1, DegreeBounds
  <2>3. Dst(it) \in V
    BY <2>1, <2>2, DegreeBounds
  <2>4. Src(it) \in Members(vs)
    BY <1>5, <2>1 DEF Mapping, IsSparse, Trues
  <2> QED BY <2>1, <2>2, <2>3, <2>4 DEF Edges
<1> QED BY <1>3, <1>4, <1>5 DEF Mapping, IsSparse

\* Every edge out of the frontier has an item, whichever traversal runs.
LEMMA EdgesHaveItems ==
  ASSUME WellShaped(vs), Mapping, phase = "map", Faithful, NEW e \in Edges, e[1] \in Members(vs)
  PROVE  \E it \in Items : Src(it) = e[1] /\ Dst(it) = e[2]
<1>1. e[1] \in V /\ e[2] \in V /\ m \in Nat /\ vs.m \in Nat
  BY VertexSet DEF Edges, WellShaped, IsSubset
<1>2. PICK j \in 0 .. OutDegree(e[1]) - 1 : OutNeighbor(e[1], j) = e[2]
  BY DEF Edges
<1>3. j \in 0 .. m - 1 /\ j < OutDegree(e[1])
  BY <1>1, <1>2, DegreeBounds
<1>4. CASE IsSparse
  <2>1. PICK o \in 0 .. vs.m - 1 : vs.s[o] = e[1]
    BY <1>1, <1>4 DEF Mapping, Entries
  <2>2. <<o, j>> \in Items
    BY <1>3, <1>4, <2>1 DEF Items, ItemsOf, OwnersOf, DegreeIn, IsSparse
  <2>3. Src(<<o, j>>) = e[1] /\ Dst(<<o, j>>) = e[2]
    BY <1>2, <1>4, <2>1 DEF Src, Dst, Vertex, IsSparse
  <2> QED BY <2>2, <2>3
<1>5. CASE mode = "dense"
  <2>1. PICK k \in 0 .. InDegree(e[2]) - 1 : InNeighbor(e[2], k) = e[1]
    BY <1>1, <1>2, GraphAssumption DEF IsTranspose
  <2>2. k \in 0 .. m - 1 /\ k < InDegree(e[2])
    BY <1>1, <2>1, DegreeBounds
  <2>3. <<e[2], k>> \in Items
    BY <1>1, <1>5, <2>2 DEF Items, ItemsOf, OwnersOf, DegreeIn
  <2>4. Src(<<e[2], k>>) = e[1] /\ Dst(<<e[2], k>>) = e[2]
    BY <1>5, <2>1 DEF Src, Dst
  <2> QED BY <2>3, <2>4
<1>6. CASE mode = "forward"
  <2>1. vs.d[e[1]]
    BY <1>6 DEF Mapping, IsSparse, Trues
  <2>2. <<e[1], j>> \in Items
    BY <1>1, <1>3, <1>6, <2>1 DEF Items, ItemsOf, OwnersOf, DegreeIn, IsIn
  <2>3. Src(<<e[1], j>>) = e[1] /\ Dst(<<e[1], j>>) = e[2]
    BY <1>2, <1>6 DEF Src, Dst, Vertex, IsSparse, ForwardNeighbor, Faithful
  <2> QED BY <2>2, <2>3
<1> QED BY <1>4, <1>5, <1>6 DEF Mapping, IsSparse

\* A call that returns at once has no edge to take.
LEMMA EmptyCall ==
  ASSUME WellShaped(vs), CallEmpty
  PROVE  \A e \in Edges : e[1] \notin Members(vs)
<1>1. CASE vs.m = 0
  <2>1. Entries(vs.s, 0) = {}
    BY DEF Entries
  <2>2. vs.isDense => Trues(vs.d) = {}
    BY <1>1, <2>1, NoMembers DEF WellShaped, IsSubset
  <2> QED BY <1>1, <2>1, <2>2 DEF Members
<1>2. CASE NoOutEdges
  <2>1. \A e \in Edges : e[1] \in V /\ OutDegree(e[1]) # 0
    BY DegreeBounds DEF Edges
  <2> QED BY <1>2, <2>1 DEF NoOutEdges
<1> QED BY <1>1, <1>2 DEF CallEmpty
=============================================================================
