--------------------------- MODULE Programs_proofs ---------------------------
(***************************************************************************)
(* Proofs about programs that do not interact.  Radii rests on the steps   *)
(* of the detailed edgeMap.  BellmanFord, ComponentsShortcut, HyperCC,     *)
(* HyperSSSP and DeltaStepping, over the abstract edgeMap (EdgeCall), need *)
(* nothing of it: each is an instance with its own constants, and the      *)
(* variables that Programs shares out.  The last part goes from the        *)
(* specification of each program, those of Cores_proofs too, to AllSpec,   *)
(* where a behaviour runs one of them: what the runs check of all of them  *)
(* holds for all constants.                                                *)
(***************************************************************************)
EXTENDS AllPrograms, EdgeMap_proofs, Cores_proofs

-----------------------------------------------------------------------------
(* What lies within k edges, for a set G of edges between the N members of *)
(* U: the balls of Radii, the components of Components-Shortcut and        *)
(* HyperCC.                                                                *)
CloseIn(G, U, N) ==
  LET Close[k \in 0 .. N] ==
        IF k = 0 THEN [v \in U |-> {v}]
        ELSE LET near == Close[k - 1]
             IN  [v \in U |-> near[v] \cup {e[2] : e \in {e \in G : e[1] \in near[v]}}]
  IN Close

EdgesOn(G, U, N) == /\ IsFiniteSet(U) /\ Cardinality(U) = N
                    /\ \A e \in G : e[1] \in U /\ e[2] \in U

\* The recursive definition computes each table from the one before.
LEMMA CloseGrows ==
  ASSUME NEW G, NEW U, NEW N \in Nat
  PROVE  /\ \A v \in U : CloseIn(G, U, N)[0][v] = {v}
         /\ \A k \in 0 .. N - 1 : \A v \in U :
              CloseIn(G, U, N)[k + 1][v] =
                CloseIn(G, U, N)[k][v] \cup {e[2] : e \in {e \in G : e[1] \in CloseIn(G, U, N)[k][v]}}
<1> DEFINE Out(S) == S \cup {e[2] : e \in {e \in G : e[1] \in S}}
           Begin == [v \in U |-> {v}]
           Balls(g, k) == g = [i \in 0 .. k |-> IF i = 0 THEN Begin ELSE [v \in U |-> Out(g[i - 1][v])]]
           Upto == {k \in Nat : \E g : Balls(g, k)}
           C == CloseIn(G, U, N)
<1>1. 0 \in Upto
  <2>1. Balls([i \in 0 .. 0 |-> Begin], 0)
    OBVIOUS
  <2> QED BY <2>1
<1>2. ASSUME NEW k \in Nat, k \in Upto PROVE k + 1 \in Upto
  <2> SUFFICES \E g : Balls(g, k + 1)
    OBVIOUS
  <2>1. PICK g : Balls(g, k)
    BY <1>2
  <2> DEFINE h == [i \in 0 .. k + 1 |-> IF i = 0 THEN Begin ELSE [v \in U |-> Out(g[i - 1][v])]]
  <2> HIDE DEF Out, Begin
  <2>2. ASSUME NEW i \in 0 .. k + 1, i # 0 PROVE h[i - 1] = g[i - 1]
    <3>1. i - 1 \in 0 .. k /\ i - 1 \in 0 .. k + 1
      BY <2>2
    <3> QED BY <2>1, <3>1
  <2>3. h = [i \in 0 .. k + 1 |-> IF i = 0 THEN Begin ELSE [v \in U |-> Out(h[i - 1][v])]]
    BY <2>2
  <2> HIDE DEF h
  <2>4. Balls(h, k + 1)
    BY <2>3
  <2> QED BY <2>4
<1>3. \E g : Balls(g, N)
  <2> HIDE DEF Upto
  <2>1. N \in Upto
    BY <1>1, <1>2, SetInduction, ZenonT(30)
  <2> QED BY <2>1 DEF Upto
<1>4. Balls(C, N)
  BY <1>3, Zenon DEF CloseIn
<1> HIDE DEF Out, C
<1>5. \A i \in 0 .. N : C[i] = IF i = 0 THEN Begin ELSE [v \in U |-> Out(C[i - 1][v])]
  BY <1>4
<1>6. ASSUME NEW k \in 0 .. N - 1, NEW v \in U PROVE C[k + 1][v] = Out(C[k][v])
  <2>1. k + 1 \in 0 .. N /\ k + 1 # 0 /\ (k + 1) - 1 = k
    OBVIOUS
  <2>2. C[k + 1] = [w \in U |-> Out(C[k][w])]
    BY <1>5, <2>1
  <2> QED BY <2>2
<1>7. \A v \in U : C[0][v] = {v}
  <2>1. 0 \in 0 .. N
    OBVIOUS
  <2>2. C[0] = Begin
    BY <1>5, <2>1
  <2> QED BY <2>2
<1> QED BY <1>6, <1>7 DEF Out, C

\* Edges lead from what is within k edges to what is within k + 1, which has nothing else.
LEMMA CloseSteps ==
  ASSUME NEW G, NEW U, NEW N \in Nat, EdgesOn(G, U, N), NEW C, C = CloseIn(G, U, N)
  PROVE  /\ \A k \in 0 .. N : \A v \in U : C[k][v] \subseteq U
         /\ \A k \in 0 .. N - 1 : \A v \in U :
              /\ C[k][v] \subseteq C[k + 1][v]
              /\ \A e \in G : e[1] \in C[k][v] => e[2] \in C[k + 1][v]
              /\ \A w \in C[k + 1][v] \ C[k][v] : \E e \in G : e[1] \in C[k][v] /\ e[2] = w
<1>1. /\ \A v \in U : C[0][v] = {v}
      /\ \A k \in 0 .. N - 1 : \A v \in U : C[k + 1][v] = C[k][v] \cup {e[2] : e \in {e \in G : e[1] \in C[k][v]}}
  BY CloseGrows
<1>2. \A e \in G : e[1] \in U /\ e[2] \in U
  BY DEF EdgesOn
<1>3. \A k \in 0 .. N : \A v \in U : C[k][v] \subseteq U
  <2> DEFINE In == {k \in Nat : k <= N => \A v \in U : C[k][v] \subseteq U}
  <2>1. 0 \in In
    BY <1>1
  <2>2. ASSUME NEW k \in Nat, k \in In PROVE k + 1 \in In
    <3> SUFFICES ASSUME k + 1 <= N, NEW v \in U PROVE C[k + 1][v] \subseteq U
      OBVIOUS
    <3>1. k \in 0 .. N - 1 /\ C[k][v] \subseteq U
      BY <2>2
    <3> QED BY <1>1, <1>2, <3>1
  <2> HIDE DEF In
  <2>3. \A k \in Nat : k \in In
    BY <2>1, <2>2, SetInduction
  <2> QED BY <2>3 DEF In
<1>4. ASSUME NEW k \in 0 .. N - 1, NEW v \in U
      PROVE  /\ C[k][v] \subseteq C[k + 1][v]
             /\ \A e \in G : e[1] \in C[k][v] => e[2] \in C[k + 1][v]
             /\ \A w \in C[k + 1][v] \ C[k][v] : \E e \in G : e[1] \in C[k][v] /\ e[2] = w
  <2>1. C[k + 1][v] = C[k][v] \cup {e[2] : e \in {e \in G : e[1] \in C[k][v]}}
    BY <1>1
  <2> QED BY <2>1
<1> QED BY <1>3, <1>4

\* It grows with the number of edges,
LEMMA CloseNests ==
  ASSUME NEW G, NEW U, NEW N \in Nat, EdgesOn(G, U, N), NEW C, C = CloseIn(G, U, N),
         NEW v \in U, NEW i \in 0 .. N, NEW j \in i .. N
  PROVE  C[i][v] \subseteq C[j][v]
<1> DEFINE In == {k \in Nat : i + k <= N => C[i][v] \subseteq C[i + k][v]}
<1>1. 0 \in In
  OBVIOUS
<1>2. ASSUME NEW k \in Nat, k \in In PROVE k + 1 \in In
  <2> SUFFICES ASSUME i + (k + 1) <= N PROVE C[i][v] \subseteq C[i + (k + 1)][v]
    OBVIOUS
  <2>1. i + k \in 0 .. N - 1 /\ C[i][v] \subseteq C[i + k][v] /\ i + (k + 1) = (i + k) + 1
    BY <1>2
  <2>2. \A l \in 0 .. N - 1 : C[l][v] \subseteq C[l + 1][v]
    BY CloseSteps
  <2> QED BY <2>1, <2>2
<1> HIDE DEF In
<1>3. \A k \in Nat : k \in In
  BY <1>1, <1>2, SetInduction
<1>4. j - i \in In /\ i + (j - i) = j /\ j <= N
  BY <1>3
<1> QED BY <1>4 DEF In

\* and once it does not, it has stopped growing,
LEMMA CloseStops ==
  ASSUME NEW G, NEW U, NEW N \in Nat, NEW C, C = CloseIn(G, U, N),
         NEW v \in U, NEW j \in 0 .. N - 1, C[j + 1][v] = C[j][v], NEW i \in j .. N
  PROVE  C[i][v] = C[j][v]
<1> DEFINE Same == {k \in Nat : j + k <= N => C[j + k][v] = C[j][v]}
<1>1. 0 \in Same
  OBVIOUS
<1>2. ASSUME NEW k \in Nat, k \in Same PROVE k + 1 \in Same
  <2> SUFFICES ASSUME j + (k + 1) <= N PROVE C[j + (k + 1)][v] = C[j][v]
    OBVIOUS
  <2>1. j + k \in 0 .. N - 1 /\ C[j + k][v] = C[j][v] /\ j + (k + 1) = (j + k) + 1
    BY <1>2
  <2>2. /\ C[(j + k) + 1][v] = C[j + k][v] \cup {e[2] : e \in {e \in G : e[1] \in C[j + k][v]}}
        /\ C[j + 1][v] = C[j][v] \cup {e[2] : e \in {e \in G : e[1] \in C[j][v]}}
    BY <2>1, CloseGrows
  <2> QED BY <2>1, <2>2
<1> HIDE DEF Same
<1>3. \A k \in Nat : k \in Same
  BY <1>1, <1>2, SetInduction
<1>4. i - j \in Same /\ j + (i - j) = i /\ i <= N
  BY <1>3
<1> QED BY <1>4 DEF Same

\* so that it has more than k members if the k-th edge still brought one.
LEMMA CloseIsMany ==
  ASSUME NEW G, NEW U, NEW N \in Nat, EdgesOn(G, U, N), NEW C, C = CloseIn(G, U, N),
         NEW v \in U, NEW k \in 1 .. N, C[k][v] # C[k - 1][v]
  PROVE  Cardinality(C[k][v]) > k /\ Cardinality(C[k][v]) <= N
<1> DEFINE Many == {j \in Nat : j <= k => Cardinality(C[j][v]) > j}
<1>1. \A j \in 0 .. N : /\ IsFiniteSet(C[j][v]) /\ Cardinality(C[j][v]) \in Nat
                        /\ Cardinality(C[j][v]) <= N
  <2> TAKE j \in 0 .. N
  <2>1. C[j][v] \in SUBSET U /\ IsFiniteSet(U) /\ Cardinality(U) = N
    BY CloseSteps DEF EdgesOn
  <2> QED BY <2>1, FS_Subset, FS_CardinalityType
<1>2. 0 \in Many
  <2>1. C[0][v] = {v}
    BY CloseGrows
  <2>2. Cardinality({v}) = 1
    BY FS_Singleton
  <2>3. Cardinality(C[0][v]) > 0
    BY <2>1, <2>2
  <2> QED BY <2>3
<1>3. ASSUME NEW j \in Nat, j \in Many PROVE j + 1 \in Many
  <2> SUFFICES ASSUME j + 1 <= k PROVE Cardinality(C[j + 1][v]) > j + 1
    OBVIOUS
  <2>1. j \in 0 .. N - 1 /\ j \in 0 .. N /\ j + 1 \in 0 .. N /\ Cardinality(C[j][v]) > j
    BY <1>3
  <2>2. C[j][v] # C[j + 1][v]
    <3> SUFFICES ASSUME C[j + 1][v] = C[j][v] PROVE FALSE
      OBVIOUS
    <3>1. k \in j .. N /\ k - 1 \in j .. N
      BY <2>1
    <3>2. C[k][v] = C[j][v] /\ C[k - 1][v] = C[j][v]
      BY <2>1, <3>1, CloseStops
    <3> QED BY <3>2
  <2>3. C[j][v] \subseteq C[j + 1][v]
    BY <2>1, CloseSteps
  <2>4. /\ Cardinality(C[j][v]) <= Cardinality(C[j + 1][v])
        /\ Cardinality(C[j][v]) # Cardinality(C[j + 1][v])
    BY <1>1, <2>1, <2>2, <2>3, FS_Subset
  <2> QED BY <1>1, <2>1, <2>4
<1> HIDE DEF Many
<1>4. k \in Many
  BY <1>2, <1>3, SetInduction
<1> QED BY <1>1, <1>4 DEF Many

\* Within N edges is all that can be reached: the least set with v that no edge leaves,
\* and where edges have no direction a component.
LEMMA CloseIsClosed ==
  ASSUME NEW G, NEW U, NEW N \in Nat, EdgesOn(G, U, N), NEW v \in U
  PROVE  /\ v \in CloseIn(G, U, N)[N][v] /\ CloseIn(G, U, N)[N][v] \subseteq U
         /\ \A e \in G : e[1] \in CloseIn(G, U, N)[N][v] => e[2] \in CloseIn(G, U, N)[N][v]
         /\ \A S : v \in S /\ (\A e \in G : e[1] \in S => e[2] \in S) => CloseIn(G, U, N)[N][v] \subseteq S
<1> DEFINE C == CloseIn(G, U, N)
<1>1. /\ C[0][v] = {v}
      /\ \A k \in 0 .. N - 1 : C[k + 1][v] = C[k][v] \cup {e[2] : e \in {e \in G : e[1] \in C[k][v]}}
  BY CloseGrows
<1> HIDE DEF C
<1>2. N # 0
  BY FS_EmptySet DEF EdgesOn
<1>3. v \in C[N][v] /\ C[N][v] \subseteq U
  <2>1. 0 \in 0 .. N /\ N \in 0 .. N
    OBVIOUS
  <2> QED BY <1>1, <2>1, CloseNests, CloseSteps DEF C
<1>4. \A e \in G : e[1] \in C[N][v] => e[2] \in C[N][v]
  <2>1. N \in 1 .. N /\ N - 1 \in 0 .. N - 1 /\ (N - 1) + 1 = N
    BY <1>2
  <2>2. C[N][v] = C[N - 1][v]
    <3> SUFFICES ASSUME C[N][v] # C[N - 1][v] PROVE FALSE
      OBVIOUS
    <3>1. Cardinality(C[N][v]) > N /\ Cardinality(C[N][v]) <= N
      BY <2>1, CloseIsMany DEF C
    <3>2. Cardinality(C[N][v]) \in Nat
      BY <1>3, FS_Subset, FS_CardinalityType DEF EdgesOn
    <3> QED BY <3>1, <3>2
  <2> QED BY <1>1, <2>1, <2>2
<1>5. ASSUME NEW S, v \in S, \A e \in G : e[1] \in S => e[2] \in S PROVE C[N][v] \subseteq S
  <2> DEFINE In == {k \in Nat : k <= N => C[k][v] \subseteq S}
  <2>1. 0 \in In
    BY <1>1, <1>5
  <2>2. ASSUME NEW k \in Nat, k \in In PROVE k + 1 \in In
    <3> SUFFICES ASSUME k + 1 <= N PROVE C[k + 1][v] \subseteq S
      OBVIOUS
    <3>1. k \in 0 .. N - 1 /\ C[k][v] \subseteq S
      BY <2>2
    <3> QED BY <1>1, <1>5, <3>1
  <2> HIDE DEF In
  <2>3. N \in In
    BY <2>1, <2>2, SetInduction
  <2> QED BY <2>3 DEF In
<1> QED BY <1>3, <1>4, <1>5 DEF C

LEMMA ComponentIsOne ==
  ASSUME NEW G, NEW U, NEW N \in Nat, EdgesOn(G, U, N), \A e \in G : <<e[2], e[1]>> \in G,
         NEW v \in U, NEW u \in CloseIn(G, U, N)[N][v]
  PROVE  CloseIn(G, U, N)[N][u] = CloseIn(G, U, N)[N][v]
<1> DEFINE K(x) == CloseIn(G, U, N)[N][x]
<1>1. \A x \in U : /\ x \in K(x) /\ K(x) \subseteq U
                   /\ \A e \in G : e[1] \in K(x) => e[2] \in K(x)
                   /\ \A S : x \in S /\ (\A e \in G : e[1] \in S => e[2] \in S) => K(x) \subseteq S
  BY CloseIsClosed
<1>2. u \in K(v)
  OBVIOUS
<1> HIDE DEF K
<1>3. u \in U /\ K(u) \subseteq K(v)
  BY <1>1, <1>2
<1>4. v \in K(u)
  <2> DEFINE S == {w \in U : v \in K(w)}
  <2>1. v \in S
    BY <1>1
  <2>2. ASSUME NEW e \in G, e[1] \in S PROVE e[2] \in S
    <3>1. e[1] \in U /\ e[2] \in U /\ v \in K(e[1])
      BY <2>2 DEF EdgesOn
    <3>2. e[1] \in K(e[2])
      <4> DEFINE b == <<e[2], e[1]>>
      <4>1. b \in G /\ b[1] = e[2] /\ b[2] = e[1]
        OBVIOUS
      <4> QED BY <1>1, <3>1, <4>1
    <3>3. K(e[1]) \subseteq K(e[2])
      BY <1>1, <3>1, <3>2
    <3> QED BY <3>1, <3>3
  <2> HIDE DEF S
  <2>3. K(v) \subseteq S
    BY <1>1, <2>1, <2>2
  <2> QED BY <1>2, <2>3 DEF S
<1>5. K(v) \subseteq K(u)
  BY <1>1, <1>3, <1>4
<1> QED BY <1>3, <1>5 DEF K

\* Radii's balls are such tables.
LEMMA BallsAreClose == EdgesOn(Edges, V, n) /\ Ball = CloseIn(Edges, V, n) /\ n \in Nat
<1>1. \A e \in Edges : e[1] \in V /\ e[2] \in V
  BY DEF Edges
<1> QED BY <1>1, VertexSet DEF EdgesOn, Ball, CloseIn

LEMMA BallsGrow ==
  /\ \A v \in V : Ball[0][v] = {v}
  /\ \A k \in 0 .. n - 1 : \A v \in V :
       Ball[k + 1][v] = Ball[k][v] \cup {e[2] : e \in {e \in Edges : e[1] \in Ball[k][v]}}
  BY BallsAreClose, CloseGrows

LEMMA BallSteps ==
  /\ \A k \in 0 .. n : \A v \in V : Ball[k][v] \subseteq V
  /\ \A k \in 0 .. n - 1 : \A v \in V :
       /\ Ball[k][v] \subseteq Ball[k + 1][v]
       /\ \A e \in Edges : e[1] \in Ball[k][v] => e[2] \in Ball[k + 1][v]
       /\ \A w \in Ball[k + 1][v] \ Ball[k][v] : \E e \in Edges : e[1] \in Ball[k][v] /\ e[2] = w
  BY BallsAreClose, CloseSteps

LEMMA BallsNest ==
  ASSUME NEW v \in V, NEW i \in 0 .. n, NEW j \in i .. n
  PROVE  Ball[i][v] \subseteq Ball[j][v]
  BY BallsAreClose, CloseNests

LEMMA BallsStop ==
  ASSUME NEW u \in V, NEW j \in 0 .. n - 1, Ball[j + 1][u] = Ball[j][u], NEW i \in j .. n
  PROVE  Ball[i][u] = Ball[j][u]
  BY BallsAreClose, CloseStops
\* The distance is the least radius of a ball that has the vertex.
LEMMA DistanceIsLeast ==
  ASSUME NEW u \in V, NEW v \in Ball[n][u]
  PROVE  /\ Distance(u, v) \in 0 .. n
         /\ \A k \in 0 .. n : v \in Ball[k][u] <=> Distance(u, v) <= k
<1>1. n \in Nat
  BY VertexSet
<1> DEFINE R == {k \in Nat : k <= n /\ v \in Ball[k][u]}
           D == Distance(u, v)
<1>2. PICK x \in R : \A y \in R : x <= y
  <2>1. n \in R
    BY <1>1
  <2> QED BY <2>1, LeastMember
<1>3. x \in 0 .. n /\ v \in Ball[x][u] /\ (x > 0 => v \notin Ball[x - 1][u])
  <2>1. ASSUME x > 0, v \in Ball[x - 1][u] PROVE FALSE
    <3>1. x - 1 \in R
      BY <1>1, <1>2, <2>1
    <3> QED BY <1>2, <3>1
  <2> QED BY <1>1, <1>2, <2>1
<1>4. D \in 0 .. n /\ v \in Ball[D][u] /\ (D > 0 => v \notin Ball[D - 1][u])
  BY <1>3 DEF Distance
<1>5. ASSUME NEW k \in 0 .. n PROVE v \in Ball[k][u] <=> D <= k
  <2>1. D <= k => v \in Ball[k][u]
    <3> HIDE DEF D
    <3> SUFFICES ASSUME D <= k PROVE v \in Ball[k][u]
      OBVIOUS
    <3>1. k \in D .. n
      BY <1>4
    <3> QED BY <1>4, <3>1, BallsNest
  <2>2. D > k => v \notin Ball[k][u]
    <3> HIDE DEF D
    <3> SUFFICES ASSUME D > k PROVE v \notin Ball[k][u]
      OBVIOUS
    <3>1. D - 1 \in k .. n /\ D > 0
      BY <1>1, <1>4
    <3> QED BY <1>4, <3>1, BallsNest
  <2> QED BY <1>4, <2>1, <2>2
<1> QED BY <1>4, <1>5

\* The sources of S within k steps of v, and the vertices some source is k steps from.
Near(S, v, k) == {i \in S : v \in Ball[k][starts[i]]}
Front(S, k) == {v \in V : \E i \in S : v \in Ball[k][starts[i]] /\ (k > 0 => v \notin Ball[k - 1][starts[i]])}

\* The largest distance of v from a source within k steps.
Farthest(S, k, v, x) == IF Near(S, v, k) = {} THEN x = -1
                        ELSE x \in 0 .. k /\ v \in Front(S, x) /\ Near(S, v, x) = Near(S, v, k)

\* A vertex has new sources just when it is in the front, and it has them from vertices
\* of the front before.
LEMMA FrontFacts ==
  ASSUME SamplesInGraph, NEW S \in SUBSET Samples
  PROVE  /\ \A v \in V : Near(S, v, 0) = {i \in S : starts[i] = v}
         /\ \A v \in V : v \in Front(S, 0) <=> Near(S, v, 0) # {}
         /\ \A k \in 0 .. n : \A e \in Edges : e[1] \notin Front(S, k) => Near(S, e[1], k) \subseteq Near(S, e[2], k)
         /\ \A k \in 0 .. n - 1 :
              /\ \A v \in V : Near(S, v, k) \subseteq Near(S, v, k + 1)
              /\ \A v \in V : v \in Front(S, k + 1) <=> Near(S, v, k + 1) # Near(S, v, k)
              /\ \A e \in Edges : Near(S, e[1], k) \subseteq Near(S, e[2], k + 1)
              /\ \A v \in V : \A i \in Near(S, v, k + 1) \ Near(S, v, k) :
                   \E e \in Edges : e[1] \in Front(S, k) /\ e[2] = v /\ i \in Near(S, e[1], k)
<1>1. n \in Nat \ {0} /\ \A i \in S : starts[i] \in V
  BY VertexSet, GraphAssumption DEF SamplesInGraph, Samples
<1>2. \A v \in V : Near(S, v, 0) = {i \in S : starts[i] = v}
  BY <1>1, BallsGrow DEF Near
<1>3. \A v \in V : v \in Front(S, 0) <=> Near(S, v, 0) # {}
  BY DEF Near, Front
<1>4. \A e \in Edges : e[1] \in V /\ e[2] \in V
  BY DEF Edges
<1>5. ASSUME NEW k \in 0 .. n - 1, NEW v \in V PROVE Near(S, v, k) \subseteq Near(S, v, k + 1)
  BY <1>1, BallSteps DEF Near
<1>6. ASSUME NEW k \in 0 .. n - 1, NEW e \in Edges PROVE Near(S, e[1], k) \subseteq Near(S, e[2], k + 1)
  BY <1>1, BallSteps DEF Near
<1>7. ASSUME NEW k \in 0 .. n - 1 PROVE \A v \in V : v \in Front(S, k + 1) <=> Near(S, v, k + 1) # Near(S, v, k)
  <2>1. k + 1 > 0 /\ (k + 1) - 1 = k
    BY <1>1
  <2>2. Front(S, k + 1) = {v \in V : \E i \in S : v \in Ball[k + 1][starts[i]] /\ v \notin Ball[k][starts[i]]}
    BY <2>1 DEF Front
  <2>3. \A v \in V : (\E i \in S : v \in Ball[k + 1][starts[i]] /\ v \notin Ball[k][starts[i]])
                       <=> Near(S, v, k + 1) # Near(S, v, k)
    BY <1>5 DEF Near
  <2> QED BY <2>2, <2>3
<1>8. ASSUME NEW k \in 0 .. n, NEW e \in Edges, e[1] \notin Front(S, k)
      PROVE  Near(S, e[1], k) \subseteq Near(S, e[2], k)
  <2>1. CASE k = 0
    BY <1>3, <1>4, <1>8, <2>1
  <2>2. CASE k # 0
    <3>1. k - 1 \in 0 .. n - 1 /\ (k - 1) + 1 = k
      BY <1>1, <2>2
    <3>2. Near(S, e[1], (k - 1) + 1) = Near(S, e[1], k - 1)
      BY <1>4, <1>7, <1>8, <3>1
    <3>3. Near(S, e[1], k - 1) \subseteq Near(S, e[2], (k - 1) + 1)
      BY <1>6, <3>1
    <3> QED BY <3>1, <3>2, <3>3
  <2> QED BY <2>1, <2>2
<1>9. ASSUME NEW k \in 0 .. n - 1, NEW v \in V, NEW i \in Near(S, v, k + 1) \ Near(S, v, k)
      PROVE  \E e \in Edges : e[1] \in Front(S, k) /\ e[2] = v /\ i \in Near(S, e[1], k)
  <2>1. i \in S /\ v \in Ball[k + 1][starts[i]] \ Ball[k][starts[i]]
    BY DEF Near
  <2>2. PICK e \in Edges : e[1] \in Ball[k][starts[i]] /\ e[2] = v
    BY <1>1, <2>1, BallSteps
  <2>3. i \in Near(S, e[1], k)
    BY <2>1, <2>2 DEF Near
  <2>4. k \in 0 .. n
    BY <1>1
  <2>5. e[1] \in Front(S, k)
    BY <1>8, <2>2, <2>3, <2>4
  <2> QED BY <2>2, <2>3, <2>5
<1> QED BY <1>2, <1>3, <1>5, <1>6, <1>7, <1>8, <1>9

\* Every round with a front adds a vertex to some ball, so there are at most n of them.
LEMMA FrontsAreFew ==
  ASSUME SamplesInGraph, NEW S \in SUBSET Samples, NEW k \in 0 .. n, Front(S, k) # {}
  PROVE  k \in 0 .. n - 1
<1>1. n \in Nat \ {0} /\ \A i \in S : starts[i] \in V
  BY VertexSet, GraphAssumption DEF SamplesInGraph, Samples
<1>2. PICK v \in V, i \in S : v \in Ball[k][starts[i]] /\ (k > 0 => v \notin Ball[k - 1][starts[i]])
  BY DEF Front
<1> DEFINE u == starts[i]
           Many == {j \in Nat : j <= k => Cardinality(Ball[j][u]) > j}
<1>3. u \in V
  BY <1>1
<1> HIDE DEF u
<1>4. \A j \in 0 .. n : Ball[j][u] \in SUBSET V /\ IsFiniteSet(Ball[j][u]) /\ Cardinality(Ball[j][u]) \in Nat
                        /\ Cardinality(Ball[j][u]) <= n
  <2> TAKE j \in 0 .. n
  <2>1. Ball[j][u] \in SUBSET V
    BY <1>3, BallSteps
  <2> QED BY <2>1, VertexSet, FS_Subset, FS_CardinalityType
<1>5. 0 \in Many
  <2>1. Ball[0][u] = {u} /\ Cardinality({u}) = 1
    BY <1>3, BallsGrow, FS_Singleton
  <2> QED BY <2>1
<1>6. ASSUME NEW j \in Nat, j \in Many PROVE j + 1 \in Many
  <2> SUFFICES ASSUME j + 1 <= k PROVE Cardinality(Ball[j + 1][u]) > j + 1
    OBVIOUS
  <2>1. j \in 0 .. n - 1 /\ j \in 0 .. n /\ j + 1 \in 0 .. n /\ Cardinality(Ball[j][u]) > j
    BY <1>1, <1>6
  <2>2. Ball[j][u] # Ball[j + 1][u]
    <3> SUFFICES ASSUME Ball[j + 1][u] = Ball[j][u] PROVE FALSE
      OBVIOUS
    <3>1. k \in j .. n /\ k - 1 \in j .. n /\ k > 0
      BY <1>1, <2>1
    <3>2. Ball[k][u] = Ball[j][u] /\ Ball[k - 1][u] = Ball[j][u]
      BY <1>3, <2>1, <3>1, BallsStop
    <3> QED BY <1>2, <3>1, <3>2 DEF u
  <2>3. Ball[j][u] \subseteq Ball[j + 1][u]
    BY <1>3, <2>1, BallSteps
  <2>4. /\ Cardinality(Ball[j][u]) <= Cardinality(Ball[j + 1][u])
        /\ Cardinality(Ball[j][u]) # Cardinality(Ball[j + 1][u])
    BY <1>4, <2>1, <2>2, <2>3, FS_Subset
  <2> QED BY <1>4, <2>1, <2>4
<1> HIDE DEF Many
<1>7. \A j \in Nat : j \in Many
  BY <1>5, <1>6, SetInduction
<1>8. Cardinality(Ball[k][u]) > k
  BY <1>1, <1>7 DEF Many
<1> QED BY <1>1, <1>4, <1>8

\* With an empty front no vertex has a source left to come.
LEMMA FrontEnds ==
  ASSUME SamplesInGraph, NEW S \in SUBSET Samples, NEW k \in 0 .. n, Front(S, k) = {}, NEW v \in V
  PROVE  Near(S, v, n) = Near(S, v, k)
<1>1. n \in Nat \ {0} /\ \A i \in S : starts[i] \in V
  BY VertexSet, GraphAssumption DEF SamplesInGraph, Samples
<1>2. CASE k = 0
  <2>1. ASSUME NEW i \in S PROVE FALSE
    <3>1. Near(S, starts[i], 0) = {j \in S : starts[j] = starts[i]}
      BY <1>1, FrontFacts
    <3>2. \A w \in V : w \in Front(S, 0) <=> Near(S, w, 0) # {}
      BY FrontFacts
    <3> QED BY <1>1, <1>2, <3>1, <3>2
  <2> QED BY <2>1 DEF Near
<1>3. CASE k # 0
  <2>1. k - 1 \in 0 .. n - 1 /\ k - 1 \in 0 .. n /\ (k - 1) + 1 = k /\ n \in k - 1 .. n /\ k \in k - 1 .. n /\ k > 0
    BY <1>1, <1>3
  <2>2. ASSUME NEW i \in S PROVE Ball[n][starts[i]] = Ball[k][starts[i]]
    <3>1. starts[i] \in V /\ Ball[k][starts[i]] \subseteq V
      BY <1>1, BallSteps
    <3>2. Ball[k][starts[i]] \subseteq Ball[k - 1][starts[i]]
      BY <2>1, <3>1 DEF Front
    <3>3. Ball[k - 1][starts[i]] \subseteq Ball[(k - 1) + 1][starts[i]]
      BY <2>1, <3>1, BallSteps
    <3>4. Ball[(k - 1) + 1][starts[i]] = Ball[k - 1][starts[i]]
      BY <2>1, <3>2, <3>3
    <3> QED BY <2>1, <3>1, <3>4, BallsStop
  <2> QED BY <2>2 DEF Near
<1> QED BY <1>2, <1>3

\* What a round does to the largest distances.
LEMMA FarthestStep ==
  ASSUME SamplesInGraph, NEW S \in SUBSET Samples, NEW k \in 0 .. n - 1, NEW v \in V
  PROVE  /\ v \in Front(S, k + 1) => Farthest(S, k + 1, v, k + 1)
         /\ \A x : v \notin Front(S, k + 1) /\ Farthest(S, k, v, x) => Farthest(S, k + 1, v, x)
         /\ \A x : Farthest(S, k, v, x) => x \in Int /\ x # k + 1
<1>1. n \in Nat \ {0} /\ k + 1 \in 0 .. k + 1 /\ 0 .. k \subseteq 0 .. k + 1
  BY VertexSet, GraphAssumption
<1>2. /\ Near(S, v, k) \subseteq Near(S, v, k + 1)
      /\ v \in Front(S, k + 1) <=> Near(S, v, k + 1) # Near(S, v, k)
  BY FrontFacts
<1> QED BY <1>1, <1>2 DEF Farthest

-----------------------------------------------------------------------------
(* The rounds *)

Plain == fl = {} /\ (phase = "map" => mode \in {"sparse", "dense"})

Started(S, k) ==
  /\ S \subseteq Samples /\ k \in 0 .. n
  /\ Visited \in [V -> SUBSET Samples] /\ NextVisited \in [V -> SUBSET Samples] /\ radii \in [V -> Int]
  /\ synced \in BOOLEAN /\ (phase \in {"map", "ret"} => synced)
  /\ round = IF synced THEN k + 1 ELSE k
  /\ synced => k < n
  /\ phase # "map" => oldRadii = <<>>
  /\ Members(vs) = Front(S, k)
  /\ phase = "call" /\ k > 0 => vs.m = Cardinality(Front(S, k))

\* Between the calls the searches have come k steps; Visited is brought up to that by
\* the vertexMap.
Waiting(S, k) ==
  phase = "call" =>
    \A v \in V : /\ NextVisited[v] = Near(S, v, k)
                 /\ Visited[v] = IF synced THEN Near(S, v, k)
                                 ELSE IF k = 0 THEN {} ELSE Near(S, v, k - 1)
                 /\ Farthest(S, k, v, radii[v])

\* An updateAtomic past its writeOr has brought a new bit, and if radii[d] is still to be
\* set it has read it, or will, as it is.
Pushed(it) == /\ it \in Items /\ st[it] = "upd" /\ Atomic(it)
              /\ NextVisited[Dst(it)] # Visited[Dst(it)]
              /\ Visited[Src(it)] \subseteq NextVisited[Dst(it)]
              /\ radii[Dst(it)] # round => oldRadii[it] \in {NoRead, radii[Dst(it)]}

\* A vertex with a new bit has its radius set and one place in the output, or there is
\* an update that will see to it; a vertex without has neither.
Reached(S, k, v) ==
  /\ Visited[v] = Near(S, v, k)
  /\ Near(S, v, k) \subseteq NextVisited[v] /\ NextVisited[v] \subseteq Near(S, v, k + 1)
  /\ IF radii[v] = round
     THEN NextVisited[v] # Visited[v] /\ \E x \in Found(v) : Found(v) = {x}
     ELSE Farthest(S, k, v, radii[v]) /\ Found(v) = {}
  /\ NextVisited[v] # Visited[v] /\ radii[v] # round => \E it \in DOMAIN oldRadii : Dst(it) = v

Passed == \A it \in Items :
            /\ st[it] = "upd" => Src(it) \in Members(vs)
            /\ st[it] \in {"chk", "done"} /\ Src(it) \in Members(vs)
                 => Visited[Src(it)] \subseteq NextVisited[Dst(it)]

Searching(S, k) == phase = "map" => /\ \A v \in V : Reached(S, k, v)
                                    /\ \A it \in DOMAIN oldRadii : Pushed(it)
                                    /\ Passed

Returned(S, k) ==
  phase = "ret" =>
    /\ \A v \in V : /\ Visited[v] = Near(S, v, k) /\ NextVisited[v] = Near(S, v, k + 1)
                    /\ Farthest(S, k + 1, v, radii[v])
    /\ Members(res) = Front(S, k + 1) /\ res.m = Cardinality(Front(S, k + 1))

RadiiInv(S, k) == /\ CallInv /\ WellShaped(res) /\ Plain
                  /\ Started(S, k) /\ Waiting(S, k) /\ Searching(S, k) /\ Returned(S, k)

\* What the work items of the traversals without flags stand for.
LEMMA ItemFacts ==
  ASSUME CallInv, Plain, phase = "map"
  PROVE  /\ Faithful /\ ShouldOutput
         /\ \A it \in Items : /\ Src(it) \in V /\ Dst(it) \in V /\ <<Src(it), Dst(it)>> \in Edges
                              /\ mode # "dense" => Src(it) \in Members(vs)
<1>1. Faithful /\ ShouldOutput
  BY DEF Plain, Faithful, ShouldOutput
<1>2. \A it \in Items : /\ Dst(it) \in V /\ <<Src(it), Dst(it)>> \in Edges
                        /\ mode # "dense" => Src(it) \in Members(vs)
  BY <1>1, ItemVertices, ItemsAreEdges DEF CallInv
<1>3. \A a, b : <<a, b>> \in Edges => a \in V
  BY DEF Edges
<1> QED BY <1>1, <1>2, <1>3

\* Of the samples that hash to one vertex the initializing loop leaves one.
LEMMA InitRadiiInv ==
  ASSUME SamplesInGraph, NullIsNoArray, Init
  PROVE  RadiiInv(Surviving, 0)
<1>1. /\ vs = OfIndices(sampleSize, starts) /\ phase = "call" /\ fl = {} /\ res = EmptySubset
      /\ round = 0 /\ synced = FALSE /\ oldRadii = <<>>
      /\ Visited = [v \in V |-> {}]
      /\ radii = [v \in V |-> IF \E i \in Samples : starts[i] = v THEN 0 ELSE -1]
  BY DEF Init, InitCall
<1>2. /\ sampleSize \in Nat /\ sampleSize > 0 /\ starts \in [0 .. sampleSize - 1 -> V] /\ Samples = 0 .. sampleSize - 1
      /\ n \in Nat \ {0} /\ 0 \in 0 .. n
  BY VertexSet, GraphAssumption DEF SamplesInGraph, Samples
<1>3. /\ NextVisited \in [V -> {{}} \cup {{i} : i \in Samples}]
      /\ \A v \in V : IF \E i \in Samples : starts[i] = v
                      THEN \E i \in Samples : starts[i] = v /\ NextVisited[v] = {i}
                      ELSE NextVisited[v] = {}
  BY DEF Init
<1>4. NextVisited \in [V -> SUBSET Samples]
  <2>1. {{}} \cup {{i} : i \in Samples} \subseteq SUBSET Samples
    OBVIOUS
  <2> QED BY <1>3, <2>1
<1> DEFINE S == Surviving
<1>5. S \in SUBSET Samples /\ \A v \in V : NextVisited[v] = {i \in S : starts[i] = v}
  <2>1. \A v \in V : \A i \in NextVisited[v] : i \in Samples /\ starts[i] = v
    BY <1>3
  <2> QED BY <1>2, <2>1 DEF Surviving
<1> HIDE DEF S
<1>6. /\ \A v \in V : Near(S, v, 0) = {i \in S : starts[i] = v}
      /\ \A v \in V : v \in Front(S, 0) <=> Near(S, v, 0) # {}
  BY <1>5, FrontFacts
<1>7. \A v \in V : NextVisited[v] = Near(S, v, 0)
  BY <1>5, <1>6
<1>8. \A v \in V : v \in Front(S, 0) <=> \E i \in Samples : starts[i] = v
  BY <1>3, <1>6, <1>7
<1>9. vs.s = starts /\ vs.d = NULL /\ vs.m = sampleSize /\ vs.isDense = FALSE /\ DOMAIN vs = {"s", "d", "m", "isDense"}
  BY <1>1 DEF OfIndices
<1>10. Members(vs) = Front(S, 0)
  <2>1. Members(vs) = {starts[i] : i \in 0 .. sampleSize - 1}
    BY <1>9 DEF Members, Entries
  <2>2. Front(S, 0) \subseteq V
    BY DEF Front
  <2> QED BY <1>2, <1>8, <2>1, <2>2
<1>11. WellShaped(vs)
  <2>1. vs.s \in [0 .. vs.m - 1 -> V] /\ vs.m \in Nat /\ vs.isDense \in BOOLEAN
    BY <1>2, <1>9
  <2>2. vs.s # NULL
    <3>1. NULL \notin [0 .. sampleSize - 1 -> V]
      BY <1>2 DEF NullIsNoArray
    <3> QED BY <1>2, <1>9, <3>1
  <2> QED BY <1>9, <2>1, <2>2 DEF WellShaped, IsSubset, Agrees
<1>12. CallInv
  BY <1>1, <1>11 DEF CallInv, Mapping, Working, Output
<1>13. \A v \in V : Farthest(S, 0, v, radii[v])
  <2> TAKE v \in V
  <2>1. v \in Front(S, 0) <=> Near(S, v, 0) # {}
    BY <1>6
  <2>2. radii[v] = IF v \in Front(S, 0) THEN 0 ELSE -1
    BY <1>1, <1>8
  <2> QED BY <2>1, <2>2 DEF Farthest
<1>14. Visited \in [V -> SUBSET Samples] /\ radii \in [V -> Int]
  <2>1. \A v \in V : (IF \E i \in Samples : starts[i] = v THEN 0 ELSE -1) \in Int
    OBVIOUS
  <2> QED BY <1>1, <2>1
<1>15. Started(S, 0)
  <2>1. phase = "call" /\ round = 0 /\ synced = FALSE /\ oldRadii = <<>>
    BY <1>1
  <2>2. S \subseteq Samples /\ 0 \in 0 .. n
    BY <1>2, <1>5
  <2>3. synced \in BOOLEAN /\ (phase \in {"map", "ret"} => synced) /\ (synced => 0 < n)
        /\ round = (IF synced THEN 0 + 1 ELSE 0)
    BY <2>1
  <2> QED BY <1>4, <1>10, <1>14, <2>1, <2>2, <2>3 DEF Started
<1>16. Waiting(S, 0)
  BY <1>1, <1>7, <1>13 DEF Waiting
<1>17. Plain /\ Searching(S, 0) /\ Returned(S, 0)
  BY <1>1 DEF Plain, Searching, Returned
<1> QED BY <1>1, <1>12, <1>15, <1>16, <1>17, EmptyIsWellShaped DEF RadiiInv, S

\* round++ and the vertexMap: only the front's bits are behind.
LEMMA SyncKeepsRadiiInv ==
  ASSUME SamplesInGraph, NEW S, NEW k, RadiiInv(S, k), SyncVisited
  PROVE  RadiiInv(S, k)'
<1>1. /\ phase = "call" /\ synced = FALSE /\ vs.m > 0 /\ round' = round + 1 /\ synced' = TRUE
      /\ Visited' = [v \in V |-> IF v \in Members(vs) THEN NextVisited[v] ELSE Visited[v]]
      /\ UNCHANGED <<emVars, radii, NextVisited, oldRadii>>
  BY DEF SyncVisited, RadiiInv, Started
<1>2. S \in SUBSET Samples /\ k \in 0 .. n /\ round = k /\ n \in Nat
  BY <1>1, VertexSet DEF RadiiInv, Started
<1>12. Members(vs) = Front(S, k) /\ (k > 0 => vs.m = Cardinality(Front(S, k)))
  BY <1>1 DEF RadiiInv, Started
<1>13. /\ NextVisited \in [V -> SUBSET Samples] /\ Visited \in [V -> SUBSET Samples]
       /\ radii \in [V -> Int] /\ oldRadii = <<>>
  BY <1>1 DEF RadiiInv, Started
<1>14. \A v \in V : /\ NextVisited[v] = Near(S, v, k)
                    /\ Visited[v] = IF k = 0 THEN {} ELSE Near(S, v, k - 1)
                    /\ Farthest(S, k, v, radii[v])
  BY <1>1 DEF RadiiInv, Waiting
<1>3. k \in 0 .. n - 1
  <2>1. n \in Nat \ {0}
    BY VertexSet, GraphAssumption
  <2>2. ASSUME k > 0 PROVE Front(S, k) # {}
    BY <1>1, <1>12, <2>2, FS_EmptySet
  <2> QED BY <1>2, <2>1, <2>2, FrontsAreFew
<1>4. \A v \in V : Visited'[v] = Near(S, v, k)
  <2>1. ASSUME NEW v \in V, v \notin Front(S, k) PROVE Visited[v] = Near(S, v, k)
    <3>1. CASE k = 0
      BY <1>2, <1>14, <2>1, <3>1, FrontFacts
    <3>2. CASE k # 0
      <4>1. k - 1 \in 0 .. n - 1 /\ (k - 1) + 1 = k
        BY <1>2, <3>2
      <4>2. Near(S, v, (k - 1) + 1) = Near(S, v, k - 1)
        BY <1>2, <2>1, <4>1, FrontFacts
      <4> QED BY <1>14, <3>2, <4>1, <4>2
    <3> QED BY <3>1, <3>2
  <2> QED BY <1>1, <1>12, <1>14, <2>1
<1>5. UNCHANGED <<fl, vs, phase, mode, begun, st, outEdges, cts, next, res>>
  BY <1>1 DEF emVars
<1>6. Members(vs)' = Members(vs)
  BY <1>5 DEF Members
<1>7. Visited' \in [V -> SUBSET Samples]
  BY <1>1, <1>13
<1>8. Started(S, k)'
  <2>1. Samples' = Samples
    BY DEF Samples
  <2>2. phase' = "call" /\ round' = k + 1 /\ synced' = TRUE /\ oldRadii' = <<>> /\ vs'.m = vs.m /\ k < n
    BY <1>1, <1>2, <1>3, <1>5, <1>13
  <2>3. NextVisited' \in [V -> SUBSET Samples] /\ radii' \in [V -> Int] /\ S \subseteq Samples
    BY <1>1, <1>2, <1>13
  <2>4. synced' \in BOOLEAN /\ (phase' \in {"map", "ret"} => synced') /\ (synced' => k < n)
        /\ round' = (IF synced' THEN k + 1 ELSE k)
    BY <2>2
  <2> QED BY <1>2, <1>6, <1>7, <1>12, <2>1, <2>2, <2>3, <2>4 DEF Started
<1>9. Waiting(S, k)'
  BY <1>1, <1>4, <1>14 DEF Waiting
<1>10. Searching(S, k)' /\ Returned(S, k)' /\ Plain'
  BY <1>1, <1>5 DEF Searching, Returned, Plain, RadiiInv
<1>11. CallInv' /\ WellShaped(res)'
  BY <1>1, <1>5 DEF RadiiInv, CallInv, Mapping, Working, Output, WellShaped, Agrees
<1> QED BY <1>8, <1>9, <1>10, <1>11 DEF RadiiInv

\* A call begins with no new bit and no radius of its round.
LEMMA EnterKeepsRadiiInv ==
  ASSUME SamplesInGraph, NEW S, NEW k, RadiiInv(S, k), Enter
  PROVE  RadiiInv(S, k)'
<1>1. /\ CallInv /\ EnterCall /\ phase = "call" /\ synced = TRUE /\ fl = {} /\ fl' = fl /\ phase' # "call"
      /\ phase' \in {"map", "ret", "crash", "abort"}
      /\ UNCHANGED <<round, synced, radii, Visited, NextVisited, oldRadii>>
  BY DEF RadiiInv, Plain, Started, Enter, EnterCall, CallEmpty, CallDense, CallSparse, CallDies, Starts,
         Returning, radiiVars
<1>2. /\ CallInv' /\ Members(vs)' = Members(vs)
      /\ phase' = "map" => \A v \in V : Found(v)' = {}
      /\ res' = res \/ res' = EmptySubset
      /\ phase' = "ret" => res' = EmptySubset
  <2>1. ShouldOutput
    BY <1>1 DEF ShouldOutput
  <2>2. res' = res \/ res' = EmptySubset
    BY DEF Enter, EnterCall, CallEmpty, CallDense, CallSparse, CallDies, Returning
  <2> QED BY <1>1, <2>1, <2>2, EnterStep
<1>3. /\ S \in SUBSET Samples /\ k \in 0 .. n - 1 /\ k \in 0 .. n /\ n \in Nat /\ round = k + 1
      /\ Members(vs) = Front(S, k) /\ oldRadii = <<>>
  BY <1>1, VertexSet DEF RadiiInv, Started
<1>9. \A v \in V : /\ NextVisited[v] = Near(S, v, k)
                   /\ Visited[v] = Near(S, v, k)
                   /\ Farthest(S, k, v, radii[v])
  BY <1>1 DEF RadiiInv, Waiting
<1>4. WellShaped(res)'
  <2>1. WellShaped(res')
    BY <1>2, EmptyIsWellShaped DEF RadiiInv
  <2> QED BY <2>1 DEF WellShaped, Agrees
<1>5. Plain'
  <2>1. phase' = "map" => mode' = ChosenMode
    BY <1>1 DEF EnterCall, CallEmpty, CallDense, CallSparse, CallDies, Returning
  <2>2. ChosenMode \in {"sparse", "dense"}
    BY <1>1 DEF ChosenMode
  <2> QED BY <1>1, <2>1, <2>2 DEF Plain
<1>6. Started(S, k)' /\ Waiting(S, k)'
  BY <1>1, <1>2, <1>3 DEF RadiiInv, Started, Waiting, Samples
<1>7. Searching(S, k)'
  <2> SUFFICES ASSUME phase' = "map"
               PROVE  (\A v \in V : Reached(S, k, v)') /\ (\A it \in DOMAIN oldRadii' : Pushed(it)') /\ Passed'
    BY DEF Searching
  <2>1. \A it \in Items' : st'[it] = "todo"
    BY <1>1 DEF EnterCall, CallEmpty, CallDense, CallSparse, CallDies, Items, Returning
  <2>2. ASSUME NEW v \in V PROVE Reached(S, k, v)'
    <3>1. Near(S, v, k) \subseteq Near(S, v, k + 1) /\ radii[v] # k + 1 /\ Found(v)' = {}
      BY <1>2, <1>3, <1>9, FrontFacts, FarthestStep
    <3> QED BY <1>1, <1>3, <1>9, <3>1 DEF Reached
  <2>3. DOMAIN oldRadii' = {}
    BY <1>1, <1>3
  <2>4. Passed'
    BY <2>1 DEF Passed
  <2> QED BY <2>2, <2>3, <2>4
<1>8. Returned(S, k)'
  <2> SUFFICES ASSUME phase' = "ret"
               PROVE  /\ \A v \in V : Near(S, v, k + 1) = Near(S, v, k) /\ Farthest(S, k + 1, v, radii[v])
                      /\ Members(EmptySubset) = Front(S, k + 1) /\ EmptySubset.m = Cardinality(Front(S, k + 1))
    BY <1>1, <1>2, <1>9 DEF Returned, Members
  <2>1. CallEmpty
    BY <1>1 DEF EnterCall, CallDense, CallSparse, CallDies
  <2>2. \A e \in Edges : e[1] \notin Front(S, k)
    BY <1>1, <1>3, <2>1, EmptyCall DEF CallInv
  <2>3. ASSUME NEW v \in V PROVE Near(S, v, k + 1) = Near(S, v, k)
    <3>1. Near(S, v, k) \subseteq Near(S, v, k + 1)
      BY <1>3, FrontFacts
    <3>2. ASSUME NEW i \in Near(S, v, k + 1) \ Near(S, v, k) PROVE FALSE
      BY <1>3, <2>2, <3>2, FrontFacts
    <3> QED BY <3>1, <3>2
  <2>4. Front(S, k + 1) = {}
    <3>1. Front(S, k + 1) \subseteq V
      BY DEF Front
    <3> QED BY <1>3, <2>3, <3>1, FrontFacts
  <2>5. \A v \in V : Farthest(S, k + 1, v, radii[v])
    BY <1>3, <1>9, <2>4, FarthestStep
  <2>6. Members(EmptySubset) = {} /\ EmptySubset.m = 0
    BY DEF Members, EmptySubset, Entries
  <2>7. Cardinality({}) = 0
    BY FS_EmptySet
  <2> QED BY <2>3, <2>4, <2>5, <2>6, <2>7
<1> QED BY <1>2, <1>4, <1>5, <1>6, <1>7, <1>8 DEF RadiiInv

\* The joined call has brought every bit of the front a step further.
LEMMA LeaveKeepsRadiiInv ==
  ASSUME SamplesInGraph, NullIsNoArray, NEW S, NEW k, RadiiInv(S, k), Leave
  PROVE  RadiiInv(S, k)'
<1>1. /\ CallInv /\ LeaveCall /\ fl = {} /\ ShouldOutput
      /\ UNCHANGED <<round, synced, radii, Visited, NextVisited, oldRadii>>
  BY DEF RadiiInv, Plain, Leave, ShouldOutput, radiiVars
<1>2. /\ CallInv' /\ phase = "map" /\ phase' = "ret"
      /\ \A it \in Items : st[it] = "done"
      /\ fl' = fl /\ vs' = vs
      /\ Members(res') = {v \in V : Found(v) # {}}
      /\ WellShaped(res')
  BY <1>1, LeaveStep
<1>3. /\ S \in SUBSET Samples /\ k \in 0 .. n - 1 /\ n \in Nat /\ round = k + 1 /\ Members(vs) = Front(S, k)
      /\ synced = TRUE
  BY <1>1, <1>2, VertexSet DEF RadiiInv, Started
<1>4. (\A v \in V : Reached(S, k, v)) /\ (\A it \in DOMAIN oldRadii : Pushed(it)) /\ Passed
  BY <1>2 DEF RadiiInv, Searching
<1>5. DOMAIN oldRadii = {} /\ oldRadii = <<>>
  <2>1. DOMAIN oldRadii = {}
    BY <1>2, <1>4 DEF Pushed
  <2> QED BY <2>1
<1>6. \A v \in V : NextVisited[v] = Near(S, v, k + 1)
  <2> SUFFICES ASSUME NEW v \in V, NEW i \in Near(S, v, k + 1) \ Near(S, v, k) PROVE i \in NextVisited[v]
    BY <1>4 DEF Reached
  <2>1. PICK e \in Edges : e[1] \in Front(S, k) /\ e[2] = v /\ i \in Near(S, e[1], k)
    BY <1>3, FrontFacts
  <2>2. Faithful /\ e[1] \in V
    BY <1>2, ItemFacts DEF RadiiInv, Edges
  <2>3. PICK it \in Items : Src(it) = e[1] /\ Dst(it) = e[2]
    BY <1>1, <1>2, <1>3, <2>1, <2>2, EdgesHaveItems DEF CallInv
  <2>4. Visited[Src(it)] \subseteq NextVisited[Dst(it)]
    BY <1>2, <1>3, <1>4, <2>1, <2>3 DEF Passed
  <2>5. Visited[e[1]] = Near(S, e[1], k)
    BY <1>4, <2>2 DEF Reached
  <2> QED BY <2>1, <2>3, <2>4, <2>5
<1>7. ASSUME NEW v \in V PROVE v \in Front(S, k + 1) <=> radii[v] = round
  <2>1. radii[v] = round <=> NextVisited[v] # Visited[v]
    BY <1>4, <1>5 DEF Reached
  <2>2. Visited[v] = Near(S, v, k) /\ NextVisited[v] = Near(S, v, k + 1)
    BY <1>4, <1>6 DEF Reached
  <2>3. v \in Front(S, k + 1) <=> Near(S, v, k + 1) # Near(S, v, k)
    BY <1>3, FrontFacts
  <2> QED BY <2>1, <2>2, <2>3
<1>8. \A v \in V : Farthest(S, k + 1, v, radii[v])
  <2> TAKE v \in V
  <2>1. radii[v] # round => Farthest(S, k, v, radii[v])
    BY <1>4 DEF Reached
  <2> QED BY <1>3, <1>7, <2>1, FarthestStep
<1>9. \A v \in V : IF radii[v] = round THEN \E x \in Found(v) : Found(v) = {x} ELSE Found(v) = {}
  BY <1>4 DEF Reached
<1>10. Members(res') = Front(S, k + 1)
  <2>1. Front(S, k + 1) \subseteq V
    BY DEF Front
  <2>2. \A v \in V : Found(v) # {} <=> radii[v] = round
    BY <1>9
  <2> QED BY <1>2, <1>7, <2>1, <2>2
<1>11. res'.m = Cardinality(Members(res'))
  <2>1. \A v \in V : Found(v) = {} \/ \E x \in Found(v) : Found(v) = {x}
    BY <1>9
  <2> QED BY <1>1, <2>1, LeaveCounts
<1>12. \A v \in V : Visited[v] = Near(S, v, k)
  BY <1>4 DEF Reached
<1>13. Returned(S, k)'
  BY <1>1, <1>6, <1>8, <1>10, <1>11, <1>12 DEF Returned, Members
<1>14. Members(vs)' = Members(vs)
  BY <1>2 DEF Members
<1>15. Started(S, k)'
  <2>1. Started(S, k)
    BY DEF RadiiInv
  <2>2. synced' = TRUE /\ round' = k + 1 /\ k < n
    BY <1>1, <1>3
  <2> QED BY <1>1, <1>2, <1>5, <1>14, <2>1, <2>2 DEF Started, Samples
<1>16. WellShaped(res)' /\ Plain' /\ Waiting(S, k)' /\ Searching(S, k)'
  BY <1>1, <1>2 DEF WellShaped, Agrees, Plain, Waiting, Searching
<1> QED BY <1>2, <1>13, <1>15, <1>16 DEF RadiiInv

\* The output is the front of the next round.
LEMMA NextRoundKeepsRadiiInv ==
  ASSUME SamplesInGraph, NEW S, NEW k, RadiiInv(S, k), NextRound
  PROVE  k + 1 \in 0 .. n /\ RadiiInv(S, k + 1)'
<1>1. /\ phase = "ret" /\ phase' = "call" /\ vs' = res /\ res' = EmptySubset /\ fl' = fl /\ synced' = FALSE
      /\ UNCHANGED <<round, radii, Visited, NextVisited, oldRadii>>
  BY DEF NextRound, NextCall
<1>2. /\ k \in 0 .. n - 1 /\ k + 1 \in 0 .. n /\ (k + 1) - 1 = k /\ k + 1 # 0 /\ n \in Nat /\ round = k + 1
      /\ oldRadii = <<>> /\ S \subseteq Samples
  BY <1>1, VertexSet DEF RadiiInv, Started
<1>3. /\ \A v \in V : /\ Visited[v] = Near(S, v, k) /\ NextVisited[v] = Near(S, v, k + 1)
                      /\ Farthest(S, k + 1, v, radii[v])
      /\ Members(res) = Front(S, k + 1) /\ res.m = Cardinality(Front(S, k + 1))
  BY <1>1 DEF RadiiInv, Returned
<1>4. Members(vs)' = Members(res)
  BY <1>1 DEF Members
<1>5. WellShaped(vs)' /\ WellShaped(res)'
  <2>1. WellShaped(vs') /\ WellShaped(res')
    BY <1>1, EmptyIsWellShaped DEF RadiiInv
  <2> QED BY <2>1 DEF WellShaped, Agrees
<1>6. CallInv' /\ Plain' /\ Searching(S, k + 1)' /\ Returned(S, k + 1)'
  BY <1>1, <1>5 DEF RadiiInv, CallInv, Mapping, Working, Output, Plain, Searching, Returned
<1>7. Started(S, k + 1)'
  <2>1. /\ Visited' \in [V -> SUBSET Samples] /\ NextVisited' \in [V -> SUBSET Samples] /\ radii' \in [V -> Int]
        /\ Samples' = Samples
    BY <1>1 DEF RadiiInv, Started, Samples
  <2>2. /\ synced' \in BOOLEAN /\ (phase' \in {"map", "ret"} => synced') /\ (synced' => k + 1 < n)
        /\ round' = (IF synced' THEN (k + 1) + 1 ELSE k + 1)
    BY <1>1, <1>2
  <2>3. Members(vs)' = Front(S, k + 1) /\ vs'.m = Cardinality(Front(S, k + 1)) /\ oldRadii' = <<>>
    BY <1>1, <1>2, <1>3, <1>4
  <2> QED BY <1>2, <2>1, <2>2, <2>3 DEF Started
<1>8. Waiting(S, k + 1)'
  BY <1>1, <1>2, <1>3 DEF Waiting
<1> QED BY <1>2, <1>5, <1>6, <1>7, <1>8 DEF RadiiInv

-----------------------------------------------------------------------------
(* The traversal *)

\* What a step of the traversal has to show.
LEMMA TraversalKeepsRadiiInv ==
  ASSUME NEW S, NEW k, RadiiInv(S, k), Mapped, CallInv', UNCHANGED <<res, round, synced, Visited>>,
         NextVisited' \in [V -> SUBSET Samples], radii' \in [V -> Int],
         \A v \in V : Reached(S, k, v)', \A it \in DOMAIN oldRadii' : Pushed(it)', Passed'
  PROVE  RadiiInv(S, k)'
<1>1. /\ Members(vs)' = Members(vs) /\ phase = "map" /\ phase' = "map" /\ fl' = fl /\ mode' = mode
  BY MappedFrame DEF Mapped
<1>2. Started(S, k)'
  <2>1. Started(S, k) /\ synced = TRUE
    BY <1>1 DEF RadiiInv, Started
  <2> QED BY <1>1, <2>1 DEF Started, Samples
<1>3. WellShaped(res)' /\ Plain' /\ Waiting(S, k)' /\ Searching(S, k)' /\ Returned(S, k)'
  BY <1>1 DEF RadiiInv, WellShaped, Agrees, Plain, Waiting, Searching, Returned
<1> QED BY <1>2, <1>3 DEF RadiiInv

\* A step that brings no bit: an item that has passed its update, or skips it, comes from
\* outside the front or has nothing to bring.
LEMMA ScanKeepsRadiiInv ==
  ASSUME NEW S, NEW k, RadiiInv(S, k), Mapped, CallInv', UNCHANGED <<res, radiiVars>>,
         \A v \in V : Found(v)' = Found(v),
         \A x \in Items :
           \/ st'[x] = st[x]
           \/ /\ x \notin DOMAIN oldRadii
              /\ st'[x] = "upd" => Src(x) \in Members(vs)
              /\ st'[x] # "upd" => Src(x) \notin Members(vs) \/ Visited[Src(x)] \subseteq NextVisited[Dst(x)]
  PROVE  RadiiInv(S, k)'
<1>1. /\ Items' = Items /\ Members(vs)' = Members(vs) /\ phase = "map" /\ mode' = mode
      /\ \A it : Src(it)' = Src(it) /\ Dst(it)' = Dst(it)
      /\ \A o : RunsParallel(o)' = RunsParallel(o)
      /\ UNCHANGED <<round, synced, radii, Visited, NextVisited, oldRadii>>
  BY MappedFrame DEF Mapped, radiiVars
<1>2. (\A v \in V : Reached(S, k, v)) /\ (\A it \in DOMAIN oldRadii : Pushed(it)) /\ Passed
  BY <1>1 DEF RadiiInv, Searching
<1>3. \A v \in V : Reached(S, k, v)'
  BY <1>1, <1>2 DEF Reached
<1>4. ASSUME NEW it \in DOMAIN oldRadii' PROVE Pushed(it)'
  <2>1. Pushed(it) /\ st'[it] = "upd"
    BY <1>1, <1>2 DEF Pushed
  <2> QED BY <1>1, <2>1 DEF Pushed, Atomic
<1>5. Passed'
  <2>1. \A x \in Items : /\ st'[x] = "upd" => Src(x) \in Members(vs)
                         /\ st'[x] \in {"chk", "done"} /\ Src(x) \in Members(vs)
                              => Visited[Src(x)] \subseteq NextVisited[Dst(x)]
    BY <1>2 DEF Passed
  <2> QED BY <1>1, <2>1 DEF Passed
<1>6. NextVisited' \in [V -> SUBSET Samples] /\ radii' \in [V -> Int]
  BY <1>1 DEF RadiiInv, Started
<1> QED BY <1>1, <1>3, <1>4, <1>5, <1>6, TraversalKeepsRadiiInv

\* cond is always true: the loops skip only what comes from outside the front.
LEMMA LoopsKeepRadiiInv ==
  ASSUME NEW S, NEW k, RadiiInv(S, k), phase = "map",
         \/ \E v \in V : Loop(v)
         \/ \E it \in Items : ReadIn(it) \/ Break(it) \/ ReadOut(it)
  PROVE  RadiiInv(S, k)'
<1>1. /\ CallInv /\ Mapping /\ st \in [Items -> {"todo", "upd", "chk", "done"}]
      /\ Passed /\ ShouldOutput
      /\ \A it \in Items : mode # "dense" => Src(it) \in Members(vs)
      /\ \A it \in DOMAIN oldRadii : st[it] = "upd"
  BY ItemFacts DEF RadiiInv, CallInv, Working, Searching, Pushed
<1>2. ASSUME NEW v \in V, Loop(v) PROVE RadiiInv(S, k)'
  <2>1. /\ DenseVertex(v, TRUE) /\ UNCHANGED <<res, radiiVars>>
        /\ st' = [it \in Items |-> IF it[1] = v /\ ~TRUE THEN "done" ELSE st[it]]
    BY <1>2 DEF Loop, DenseVertex
  <2>2. Mapped /\ CallInv' /\ \A w \in V : Found(w)' = Found(w)
    BY <1>1, <2>1, DenseVertexStep
  <2>3. \A x \in Items : st'[x] = st[x]
    BY <2>1
  <2> QED BY <2>1, <2>2, <2>3, ScanKeepsRadiiInv
<1>3. ASSUME NEW it \in Items, ReadIn(it) PROVE RadiiInv(S, k)'
  <2>1. /\ InNgh(it) /\ UNCHANGED <<res, radiiVars>> /\ mode = "dense" /\ st[it] = "todo"
        /\ \/ IsIn(vs, Src(it)) /\ st' = [st EXCEPT ![it] = "upd"]
           \/ ~IsIn(vs, Src(it)) /\ \E a \in {"chk", "done"} : st' = [st EXCEPT ![it] = a]
    BY <1>3 DEF ReadIn, InNgh, Ready
  <2>2. Mapped /\ CallInv' /\ \A w \in V : Found(w)' = Found(w)
    BY <1>1, <2>1, InNghStep
  <2>3. Src(it) \in V
    BY ItemFacts DEF RadiiInv
  <2>4. IsIn(vs, Src(it)) <=> Src(it) \in Members(vs)
    BY <1>1, <2>1, <2>3 DEF Mapping, IsSparse, Trues, IsIn
  <2>5. \A x \in Items : \/ st'[x] = st[x]
                         \/ /\ x \notin DOMAIN oldRadii
                            /\ st'[x] = "upd" => Src(x) \in Members(vs)
                            /\ st'[x] # "upd" => Src(x) \notin Members(vs)
    BY <1>1, <2>1, <2>4
  <2> QED BY <2>1, <2>2, <2>5, ScanKeepsRadiiInv
<1>4. ASSUME NEW it \in Items, Break(it) PROVE RadiiInv(S, k)'
  <2>1. /\ BreakEarly(it, TRUE) /\ UNCHANGED <<res, radiiVars>> /\ st[it] = "chk"
        /\ st' = [x \in Items |-> IF x = it \/ (~TRUE /\ x[1] = it[1]) THEN "done" ELSE st[x]]
    BY <1>4 DEF Break, BreakEarly
  <2>2. Mapped /\ CallInv' /\ \A w \in V : Found(w)' = Found(w)
    BY <1>1, <2>1, BreakEarlyStep
  <2>3. \A x \in Items : \/ st'[x] = st[x]
                         \/ /\ x \notin DOMAIN oldRadii /\ st'[x] # "upd"
                            /\ Src(x) \notin Members(vs) \/ Visited[Src(x)] \subseteq NextVisited[Dst(x)]
    BY <1>1, <2>1 DEF Passed
  <2> QED BY <2>1, <2>2, <2>3, ScanKeepsRadiiInv
<1>5. ASSUME NEW it \in Items, ReadOut(it) PROVE RadiiInv(S, k)'
  <2>1. /\ OutNgh(it, TRUE) /\ UNCHANGED <<res, radiiVars>> /\ mode # "dense" /\ st[it] = "todo"
        /\ st' = [st EXCEPT ![it] = IF TRUE THEN "upd" ELSE "done"]
    BY <1>5 DEF ReadOut, OutNgh, Ready
  <2>2. Mapped /\ CallInv' /\ \A w \in V : Found(w)' = Found(w)
    BY <1>1, <2>1, OutNghStep
  <2>3. \A x \in Items : \/ st'[x] = st[x]
                         \/ x \notin DOMAIN oldRadii /\ st'[x] = "upd" /\ Src(x) \in Members(vs)
    BY <1>1, <2>1
  <2> QED BY <2>1, <2>2, <2>3, ScanKeepsRadiiInv
<1> QED BY <1>2, <1>3, <1>4, <1>5

\* What an update works on.
LEMMA UpdateFacts ==
  ASSUME SamplesInGraph, NEW S, NEW k, RadiiInv(S, k), phase = "map", NEW it \in Items, st[it] = "upd"
  PROVE  /\ CallInv /\ ShouldOutput /\ Passed
         /\ (\A v \in V : Reached(S, k, v)) /\ (\A x \in DOMAIN oldRadii : Pushed(x))
         /\ \A x \in Items : Src(x) \in V /\ Dst(x) \in V
         /\ NextVisited \in [V -> SUBSET Samples] /\ radii \in [V -> Int] /\ round \in Int
         /\ ToWrite(it) = Visited[Dst(it)] \cup Visited[Src(it)]
         /\ ToWrite(it) \subseteq Near(S, Dst(it), k + 1) /\ ToWrite(it) \subseteq Samples
         /\ ~Changes(it) => Visited[Src(it)] \subseteq NextVisited[Dst(it)]
<1>1. /\ CallInv /\ ShouldOutput /\ Passed /\ <<Src(it), Dst(it)>> \in Edges
      /\ (\A v \in V : Reached(S, k, v)) /\ (\A x \in DOMAIN oldRadii : Pushed(x))
      /\ \A x \in Items : Src(x) \in V /\ Dst(x) \in V
  BY ItemFacts DEF RadiiInv, Searching
<1>2. /\ NextVisited \in [V -> SUBSET Samples] /\ radii \in [V -> Int] /\ Visited \in [V -> SUBSET Samples]
      /\ S \in SUBSET Samples /\ k \in 0 .. n - 1 /\ round \in Int
  BY VertexSet DEF RadiiInv, Started
<1>3. /\ Near(S, Src(it), k) \subseteq Near(S, Dst(it), k + 1)
      /\ Near(S, Dst(it), k) \subseteq Near(S, Dst(it), k + 1)
  <2>1. \A e \in Edges : Near(S, e[1], k) \subseteq Near(S, e[2], k + 1)
    BY <1>2, FrontFacts
  <2>2. \A v \in V : Near(S, v, k) \subseteq Near(S, v, k + 1)
    BY <1>2, FrontFacts
  <2> QED BY <1>1, <2>1, <2>2
<1>4. /\ Visited[Src(it)] = Near(S, Src(it), k) /\ Visited[Dst(it)] = Near(S, Dst(it), k)
      /\ Visited[Dst(it)] \subseteq NextVisited[Dst(it)]
  BY <1>1 DEF Reached
<1>5. Visited[Src(it)] \subseteq Samples /\ Visited[Dst(it)] \subseteq Samples
  BY <1>1, <1>2
<1> QED BY <1>1, <1>2, <1>3, <1>4, <1>5 DEF ToWrite, Changes

\* What the or of new bits into NextVisited keeps: bits only come, and no more than are
\* due in this round.
LEMMA OrKeeps ==
  ASSUME SamplesInGraph, NEW S, NEW k, RadiiInv(S, k), phase = "map", NEW it \in Items, st[it] = "upd", Changes(it),
         NextVisited' = [NextVisited EXCEPT ![Dst(it)] = @ \cup ToWrite(it)], Visited' = Visited
  PROVE  /\ NextVisited' \in [V -> SUBSET Samples]
         /\ \A v \in V : v # Dst(it) => NextVisited'[v] = NextVisited[v]
         /\ Visited[Src(it)] \subseteq NextVisited'[Dst(it)] /\ NextVisited'[Dst(it)] # Visited[Dst(it)]
         /\ \A v \in V : /\ NextVisited[v] \subseteq NextVisited'[v]
                         /\ Near(S, v, k) \subseteq NextVisited'[v] /\ NextVisited'[v] \subseteq Near(S, v, k + 1)
                         /\ NextVisited[v] # Visited[v] => NextVisited'[v] # Visited[v]
<1> DEFINE d == Dst(it)
<1>1. /\ d \in V /\ NextVisited \in [V -> SUBSET Samples] /\ ToWrite(it) \subseteq Samples
      /\ ToWrite(it) = Visited[d] \cup Visited[Src(it)] /\ ToWrite(it) \subseteq Near(S, d, k + 1)
      /\ \A v \in V : Reached(S, k, v)
  BY UpdateFacts
<1>2. /\ NextVisited'[d] = NextVisited[d] \cup ToWrite(it)
      /\ \A v \in V : v # d => NextVisited'[v] = NextVisited[v]
      /\ NextVisited' \in [V -> SUBSET Samples]
  BY <1>1
<1>3. \A v \in V : /\ Visited[v] = Near(S, v, k) /\ Near(S, v, k) \subseteq NextVisited[v]
                   /\ NextVisited[v] \subseteq Near(S, v, k + 1)
  BY <1>1 DEF Reached
<1>4. Visited[d] # ToWrite(it)
  BY DEF Changes
<1> HIDE DEF d
<1>5. NextVisited'[d] # Visited[d]
  BY <1>1, <1>2, <1>3, <1>4
<1>6. \A v \in V : /\ NextVisited[v] \subseteq NextVisited'[v]
                   /\ Near(S, v, k) \subseteq NextVisited'[v] /\ NextVisited'[v] \subseteq Near(S, v, k + 1)
                   /\ NextVisited[v] # Visited[v] => NextVisited'[v] # Visited[v]
  <2> TAKE v \in V
  <2>1. CASE v = d
    BY <1>1, <1>2, <1>3, <1>5, <2>1
  <2>2. CASE v # d
    BY <1>1, <1>2, <1>3, <2>2
  <2> QED BY <2>1, <2>2
<1> QED BY <1>1, <1>2, <1>5, <1>6 DEF d

\* writeOr: the update that brought a new bit has still to see to the radius.
LEMMA WriteOrKeepsRadiiInv ==
  ASSUME SamplesInGraph, NEW S, NEW k, RadiiInv(S, k), NEW it \in Items, WriteOr(it)
  PROVE  RadiiInv(S, k)'
<1> DEFINE d == Dst(it)
<1>1. /\ phase = "map" /\ st[it] = "upd" /\ Atomic(it) /\ it \notin DOMAIN oldRadii
      /\ UNCHANGED <<round, synced, radii, Visited>>
  BY DEF WriteOr
<1>2. /\ CallInv /\ ShouldOutput /\ Passed
      /\ (\A v \in V : Reached(S, k, v)) /\ (\A x \in DOMAIN oldRadii : Pushed(x))
      /\ \A x \in Items : Src(x) \in V /\ Dst(x) \in V
      /\ radii \in [V -> Int]
      /\ ~Changes(it) => Visited[Src(it)] \subseteq NextVisited[d]
  BY <1>1, UpdateFacts
<1>3. CASE ~Changes(it)
  <2>1. Updated(it, FALSE) /\ UNCHANGED <<NextVisited, oldRadii>> /\ UNCHANGED <<res, radiiVars>>
    BY <1>1, <1>3 DEF WriteOr, Updated, radiiVars
  <2>2. Mapped /\ CallInv' /\ \A v \in V : Found(v)' = Found(v)
    BY <1>2, <2>1, UpdatedStep DEF Adds
  <2>3. \A x \in Items : st'[x] = st[x] \/ (x = it /\ st'[x] # "upd")
    BY <1>2, <2>1 DEF Updated, CallInv, Working
  <2> QED BY <1>1, <1>2, <1>3, <2>1, <2>2, <2>3, ScanKeepsRadiiInv
<1>4. CASE Changes(it)
  <2>1. /\ NextVisited' = [NextVisited EXCEPT ![d] = @ \cup ToWrite(it)]
        /\ oldRadii' = [x \in DOMAIN oldRadii \cup {it} |-> IF x = it THEN NoRead ELSE oldRadii[x]]
        /\ UNCHANGED <<fl, vs, phase, mode, begun, st, outEdges, cts, next, res>>
    BY <1>1, <1>4 DEF WriteOr, emVars
  <2>2. Mapped /\ Working
    BY <1>1, <1>2, <2>1 DEF Mapped, CallInv
  <2>3. CallInv' /\ \A v : Found(v)' = Found(v)
    BY <1>1, <1>2, <2>1, <2>2, QuietStep DEF Working
  <2>4. /\ Items' = Items /\ Members(vs)' = Members(vs)
        /\ \A x : Src(x)' = Src(x) /\ Dst(x)' = Dst(x)
        /\ \A o : RunsParallel(o)' = RunsParallel(o)
    BY <2>2, MappedFrame
  <2>5. /\ NextVisited' \in [V -> SUBSET Samples]
        /\ \A v \in V : v # d => NextVisited'[v] = NextVisited[v]
        /\ Visited[Src(it)] \subseteq NextVisited'[d] /\ NextVisited'[d] # Visited[d]
        /\ \A v \in V : /\ NextVisited[v] \subseteq NextVisited'[v]
                        /\ Near(S, v, k) \subseteq NextVisited'[v] /\ NextVisited'[v] \subseteq Near(S, v, k + 1)
                        /\ NextVisited[v] # Visited[v] => NextVisited'[v] # Visited[v]
    BY <1>1, <1>4, <2>1, OrKeeps
  <2>6. /\ DOMAIN oldRadii' = DOMAIN oldRadii \cup {it} /\ oldRadii'[it] = NoRead
        /\ \A x \in DOMAIN oldRadii : x # it /\ oldRadii'[x] = oldRadii[x]
    BY <1>1, <2>1
  <2>7. ASSUME NEW v \in V PROVE Reached(S, k, v)'
    <3>1. /\ Visited'[v] = Near(S, v, k)
          /\ Near(S, v, k) \subseteq NextVisited'[v] /\ NextVisited'[v] \subseteq Near(S, v, k + 1)
      BY <1>1, <1>2, <2>5 DEF Reached
    <3>2. IF radii'[v] = round'
          THEN NextVisited'[v] # Visited'[v] /\ \E x \in Found(v)' : Found(v)' = {x}
          ELSE Farthest(S, k, v, radii'[v]) /\ Found(v)' = {}
      BY <1>1, <1>2, <2>3, <2>5 DEF Reached
    <3>3. ASSUME NextVisited'[v] # Visited'[v], radii'[v] # round' PROVE \E x \in DOMAIN oldRadii' : Dst(x)' = v
      <4>1. CASE v = d
        BY <2>4, <2>6, <4>1
      <4>2. CASE v # d
        <5>1. \E x \in DOMAIN oldRadii : Dst(x) = v
          BY <1>1, <1>2, <2>5, <3>3, <4>2 DEF Reached
        <5> QED BY <2>4, <2>6, <5>1
      <4> QED BY <4>1, <4>2
    <3> QED BY <3>1, <3>2, <3>3 DEF Reached
  <2>8. ASSUME NEW x \in DOMAIN oldRadii' PROVE Pushed(x)'
    <3>1. CASE x = it
      BY <1>1, <2>1, <2>4, <2>5, <2>6, <3>1 DEF Pushed, Atomic
    <3>2. CASE x # it
      <4>1. x \in DOMAIN oldRadii /\ Pushed(x) /\ oldRadii'[x] = oldRadii[x]
        BY <1>2, <2>6, <3>2
      <4>2. Dst(x) \in V
        BY <1>2, <4>1 DEF Pushed
      <4>3. /\ NextVisited'[Dst(x)] # Visited[Dst(x)] /\ Visited[Src(x)] \subseteq NextVisited'[Dst(x)]
        BY <2>5, <4>1, <4>2 DEF Pushed
      <4> QED BY <1>1, <2>1, <2>4, <4>1, <4>3 DEF Pushed, Atomic
    <3> QED BY <3>1, <3>2
  <2>9. Passed'
    <3>1. \A x \in Items : NextVisited[Dst(x)] \subseteq NextVisited'[Dst(x)]
      BY <1>2, <2>5
    <3> QED BY <1>1, <1>2, <2>1, <2>4, <3>1 DEF Passed
  <2> QED BY <1>1, <1>2, <2>1, <2>2, <2>3, <2>5, <2>7, <2>8, <2>9, TraversalKeepsRadiiInv
<1> QED BY <1>3, <1>4

\* The read of radii[d].
LEMMA ReadRadiiKeepsRadiiInv ==
  ASSUME SamplesInGraph, NEW S, NEW k, RadiiInv(S, k), NEW it \in Items, ReadRadii(it)
  PROVE  RadiiInv(S, k)'
<1>1. /\ phase = "map" /\ it \in DOMAIN oldRadii
      /\ oldRadii' = [oldRadii EXCEPT ![it] = radii[Dst(it)]]
      /\ UNCHANGED <<fl, vs, phase, mode, begun, st, outEdges, cts, next, res>>
      /\ UNCHANGED <<round, synced, radii, Visited, NextVisited>>
  BY DEF ReadRadii, emVars
<1>2. /\ CallInv /\ Passed /\ (\A v \in V : Reached(S, k, v)) /\ (\A x \in DOMAIN oldRadii : Pushed(x))
      /\ NextVisited \in [V -> SUBSET Samples] /\ radii \in [V -> Int]
  BY <1>1 DEF RadiiInv, Searching, Started
<1>3. Mapped /\ Working
  BY <1>1, <1>2 DEF Mapped, CallInv
<1>4. CallInv' /\ \A v : Found(v)' = Found(v)
  BY <1>1, <1>2, <1>3, QuietStep DEF Working
<1>5. /\ Items' = Items /\ Members(vs)' = Members(vs)
      /\ \A x : Src(x)' = Src(x) /\ Dst(x)' = Dst(x)
      /\ \A o : RunsParallel(o)' = RunsParallel(o)
  BY <1>3, MappedFrame
<1>6. DOMAIN oldRadii' = DOMAIN oldRadii
  BY <1>1
<1>7. \A v \in V : Reached(S, k, v)'
  BY <1>1, <1>2, <1>4, <1>5, <1>6 DEF Reached
<1>8. ASSUME NEW x \in DOMAIN oldRadii' PROVE Pushed(x)'
  <2>1. Pushed(x) /\ oldRadii'[x] \in {oldRadii[x], radii[Dst(x)]}
    BY <1>1, <1>2, <1>6
  <2> QED BY <1>1, <1>5, <2>1 DEF Pushed, Atomic
<1>9. Passed'
  BY <1>1, <1>2, <1>5 DEF Passed
<1> QED BY <1>1, <1>2, <1>3, <1>4, <1>7, <1>8, <1>9, TraversalKeepsRadiiInv

\* The end of an update that brought a new bit: the radius is set, by it or before, and
\* only the one that set it answered TRUE.
LEMMA SetKeepsRadiiInv ==
  ASSUME SamplesInGraph, NEW S, NEW k, RadiiInv(S, k), phase = "map", NEW it \in Items,
         Updated(it, radii[Dst(it)] # round),
         radii' = IF radii[Dst(it)] # round THEN [radii EXCEPT ![Dst(it)] = round] ELSE radii,
         UNCHANGED <<round, synced, Visited>>, NextVisited' \in [V -> SUBSET Samples],
         \A v \in V : v # Dst(it) => NextVisited'[v] = NextVisited[v],
         Visited[Src(it)] \subseteq NextVisited'[Dst(it)], NextVisited'[Dst(it)] # Visited[Dst(it)],
         \A v \in V : /\ NextVisited[v] \subseteq NextVisited'[v]
                      /\ Near(S, v, k) \subseteq NextVisited'[v] /\ NextVisited'[v] \subseteq Near(S, v, k + 1)
                      /\ NextVisited[v] # Visited[v] => NextVisited'[v] # Visited[v],
         DOMAIN oldRadii' = DOMAIN oldRadii \ {it}, \A x \in DOMAIN oldRadii' : oldRadii'[x] = oldRadii[x]
  PROVE  RadiiInv(S, k)'
<1> DEFINE d == Dst(it)
           r == radii[d] # round
<1>1. /\ st[it] = "upd" /\ res' = res
  BY DEF Updated
<1>2. /\ CallInv /\ ShouldOutput /\ Passed
      /\ (\A v \in V : Reached(S, k, v)) /\ (\A x \in DOMAIN oldRadii : Pushed(x))
      /\ \A x \in Items : Src(x) \in V /\ Dst(x) \in V
      /\ radii \in [V -> Int] /\ round \in Int
  BY <1>1, UpdateFacts
<1>3. Mapped /\ CallInv' /\ Adds(it, r)
  BY <1>2, UpdatedStep
<1>4. st'[it] \in {"chk", "done"} /\ \A x \in Items : x # it => st'[x] = st[x]
  BY <1>2 DEF Updated, CallInv, Working
<1>5. /\ Items' = Items /\ Members(vs)' = Members(vs)
      /\ \A x : Src(x)' = Src(x) /\ Dst(x)' = Dst(x)
      /\ \A o : RunsParallel(o)' = RunsParallel(o)
      /\ mode' = mode
  BY <1>3, MappedFrame DEF Mapped
<1>6. d \in V /\ radii' \in [V -> Int] /\ radii'[d] = round /\ \A v \in V : v # d => radii'[v] = radii[v]
  BY <1>2
<1>7. ASSUME NEW v \in V PROVE Reached(S, k, v)'
  <2>1. /\ Visited'[v] = Near(S, v, k)
        /\ Near(S, v, k) \subseteq NextVisited'[v] /\ NextVisited'[v] \subseteq Near(S, v, k + 1)
    BY <1>2 DEF Reached
  <2>2. CASE v = d
    <3>1. \E x \in Found(v)' : Found(v)' = {x}
      <4>1. CASE r
        <5>1. Found(v) = {}
          BY <1>2, <2>2, <4>1 DEF Reached
        <5>2. \E x : Found(v)' = Found(v) \cup {x}
          BY <1>3, <2>2, <4>1 DEF Adds
        <5> QED BY <5>1, <5>2
      <4>2. CASE ~r
        <5>1. Found(v)' = Found(v)
          BY <1>3, <4>2 DEF Adds
        <5> QED BY <1>2, <2>2, <4>2, <5>1 DEF Reached
      <4> QED BY <4>1, <4>2
    <3>2. radii'[v] = round' /\ NextVisited'[v] # Visited'[v]
      BY <1>6, <2>2
    <3> QED BY <2>1, <3>1, <3>2 DEF Reached
  <2>3. CASE v # d
    <3>1. Found(v)' = Found(v) /\ radii'[v] = radii[v] /\ NextVisited'[v] = NextVisited[v] /\ Reached(S, k, v)
      BY <1>2, <1>3, <1>6, <2>3 DEF Adds
    <3>2. \A x \in DOMAIN oldRadii : Dst(x) = v => x \in DOMAIN oldRadii'
      BY <2>3
    <3> QED BY <1>5, <2>1, <3>1, <3>2 DEF Reached
  <2> QED BY <2>2, <2>3
<1>8. ASSUME NEW x \in DOMAIN oldRadii' PROVE Pushed(x)'
  <2>1. Pushed(x) /\ oldRadii'[x] = oldRadii[x] /\ x # it
    BY <1>2
  <2>2. Dst(x) \in V /\ st'[x] = "upd"
    BY <1>2, <1>4, <2>1 DEF Pushed
  <2>3. /\ NextVisited'[Dst(x)] # Visited[Dst(x)] /\ Visited[Src(x)] \subseteq NextVisited'[Dst(x)]
        /\ radii'[Dst(x)] # round => oldRadii[x] \in {NoRead, radii'[Dst(x)]}
    BY <1>6, <2>1, <2>2 DEF Pushed
  <2> QED BY <1>5, <2>1, <2>2, <2>3 DEF Pushed, Atomic
<1>9. Passed'
  <2>1. \A x \in Items : NextVisited[Dst(x)] \subseteq NextVisited'[Dst(x)]
    BY <1>2
  <2>2. \A x \in Items : /\ st'[x] = "upd" => Src(x) \in Members(vs)
                         /\ st'[x] \in {"chk", "done"} /\ Src(x) \in Members(vs)
                              => Visited[Src(x)] \subseteq NextVisited'[Dst(x)]
    BY <1>2, <1>4, <2>1 DEF Passed
  <2> QED BY <1>5, <2>2 DEF Passed
<1> QED BY <1>1, <1>3, <1>6, <1>7, <1>8, <1>9, TraversalKeepsRadiiInv

\* The CAS fails only where another one has set the radius.
LEMMA SwapRadiiKeepsRadiiInv ==
  ASSUME SamplesInGraph, NEW S, NEW k, RadiiInv(S, k), NEW it \in Items, SwapRadii(it)
  PROVE  RadiiInv(S, k)'
<1> DEFINE d == Dst(it)
<1>1. /\ phase = "map" /\ it \in DOMAIN oldRadii /\ oldRadii[it] # NoRead
      /\ Updated(it, radii[d] # round /\ radii[d] = oldRadii[it])
      /\ radii' = IF radii[d] # round /\ radii[d] = oldRadii[it] THEN [radii EXCEPT ![d] = round] ELSE radii
      /\ oldRadii' = [x \in DOMAIN oldRadii \ {it} |-> oldRadii[x]]
      /\ UNCHANGED <<round, synced, Visited, NextVisited>>
  BY DEF SwapRadii
<1>2. st[it] = "upd" /\ Pushed(it)
  BY <1>1 DEF Updated, RadiiInv, Searching
<1>3. (radii[d] # round /\ radii[d] = oldRadii[it]) = (radii[d] # round)
  BY <1>1, <1>2 DEF Pushed
<1>4. /\ d \in V /\ NextVisited \in [V -> SUBSET Samples] /\ (\A v \in V : Reached(S, k, v))
  BY <1>1, <1>2, UpdateFacts
<1>5. \A v \in V : Near(S, v, k) \subseteq NextVisited[v] /\ NextVisited[v] \subseteq Near(S, v, k + 1)
  BY <1>4 DEF Reached
<1>6. Updated(it, radii[d] # round) /\ radii' = IF radii[d] # round THEN [radii EXCEPT ![d] = round] ELSE radii
  BY <1>1, <1>3
<1>7. DOMAIN oldRadii' = DOMAIN oldRadii \ {it} /\ \A x \in DOMAIN oldRadii' : oldRadii'[x] = oldRadii[x]
  BY <1>1
<1> QED BY <1>1, <1>2, <1>4, <1>5, <1>6, <1>7, SetKeepsRadiiInv DEF Pushed

\* The plain update is a writeOr and a store in one.
LEMMA UpdateKeepsRadiiInv ==
  ASSUME SamplesInGraph, NEW S, NEW k, RadiiInv(S, k), phase = "map", NEW it \in Items, Update(it)
  PROVE  RadiiInv(S, k)'
<1> DEFINE d == Dst(it)
<1>1. /\ ~Atomic(it) /\ st[it] = "upd" /\ res' = res
      /\ Updated(it, Changes(it) /\ radii[d] # round)
      /\ NextVisited' = IF Changes(it) THEN [NextVisited EXCEPT ![d] = @ \cup ToWrite(it)] ELSE NextVisited
      /\ radii' = IF Changes(it) /\ radii[d] # round THEN [radii EXCEPT ![d] = round] ELSE radii
      /\ UNCHANGED <<round, synced, Visited, oldRadii>>
  BY DEF Update, Updated
<1>2. /\ CallInv /\ ShouldOutput /\ d \in V
      /\ \A x \in DOMAIN oldRadii : Pushed(x)
      /\ ~Changes(it) => Visited[Src(it)] \subseteq NextVisited[d]
  BY <1>1, UpdateFacts
<1>3. it \notin DOMAIN oldRadii
  BY <1>1, <1>2 DEF Pushed
<1>4. CASE ~Changes(it)
  <2>1. Updated(it, FALSE) /\ UNCHANGED <<res, radiiVars>>
    <3>1. (Changes(it) /\ radii[d] # round) = FALSE
      BY <1>4
    <3> QED BY <1>1, <1>4, <3>1 DEF radiiVars
  <2>2. Mapped /\ CallInv' /\ \A v \in V : Found(v)' = Found(v)
    BY <1>2, <2>1, UpdatedStep DEF Adds
  <2>3. \A x \in Items : st'[x] = st[x] \/ (x = it /\ st'[x] # "upd")
    BY <1>2, <2>1 DEF Updated, CallInv, Working
  <2> QED BY <1>2, <1>3, <1>4, <2>1, <2>2, <2>3, ScanKeepsRadiiInv
<1>5. CASE Changes(it)
  <2>1. NextVisited' = [NextVisited EXCEPT ![d] = @ \cup ToWrite(it)] /\ Visited' = Visited
    BY <1>1, <1>5
  <2>2. (Changes(it) /\ radii[d] # round) = (radii[d] # round)
    BY <1>5
  <2>3. Updated(it, radii[d] # round) /\ radii' = IF radii[d] # round THEN [radii EXCEPT ![d] = round] ELSE radii
    BY <1>1, <2>2
  <2>4. DOMAIN oldRadii' = DOMAIN oldRadii \ {it} /\ \A x \in DOMAIN oldRadii' : oldRadii'[x] = oldRadii[x]
    BY <1>1, <1>3
  <2>5. /\ NextVisited' \in [V -> SUBSET Samples]
        /\ \A v \in V : v # Dst(it) => NextVisited'[v] = NextVisited[v]
        /\ Visited[Src(it)] \subseteq NextVisited'[Dst(it)] /\ NextVisited'[Dst(it)] # Visited[Dst(it)]
        /\ \A v \in V : /\ NextVisited[v] \subseteq NextVisited'[v]
                        /\ Near(S, v, k) \subseteq NextVisited'[v] /\ NextVisited'[v] \subseteq Near(S, v, k + 1)
                        /\ NextVisited[v] # Visited[v] => NextVisited'[v] # Visited[v]
    BY <1>1, <1>5, <2>1, OrKeeps
  <2> QED BY <1>1, <2>3, <2>4, <2>5, SetKeepsRadiiInv
<1> QED BY <1>4, <1>5

-----------------------------------------------------------------------------
\* The inductive invariant: the surviving samples' searches have come some number of steps.
RadiiSearches == \E S \in SUBSET Samples : \E k \in 0 .. n : RadiiInv(S, k)

LEMMA NextKeepsRadiiSearches ==
  ASSUME SamplesInGraph, NullIsNoArray, RadiiSearches, [Next]_vars
  PROVE  RadiiSearches'
<1>1. PICK S \in SUBSET Samples, k \in 0 .. n : RadiiInv(S, k)
  BY DEF RadiiSearches
<1>2. Samples' = Samples
  BY DEF Samples
<1>3. ASSUME RadiiInv(S, k)' PROVE RadiiSearches'
  BY <1>2, <1>3 DEF RadiiSearches
<1>4. CASE UNCHANGED vars
  <2>1. UNCHANGED <<fl, vs, phase, mode, begun, st, outEdges, cts, next, res>> /\ UNCHANGED radiiVars
        /\ UNCHANGED <<round, synced, radii, Visited, NextVisited, oldRadii>>
    BY <1>4 DEF vars, emVars, radiiVars
  <2>2. CASE phase = "map"
    <3>1. Mapped /\ CallInv /\ Working
      BY <1>1, <2>1, <2>2 DEF Mapped, RadiiInv, CallInv
    <3>2. CallInv' /\ \A v : Found(v)' = Found(v)
      BY <2>1, <2>2, <3>1, QuietStep DEF Working
    <3>3. RadiiInv(S, k)'
      BY <1>1, <2>1, <3>1, <3>2, ScanKeepsRadiiInv
    <3> QED BY <1>3, <3>3
  <2>3. CASE phase # "map"
    <3>1. CallInv' /\ WellShaped(res)' /\ Plain'
      BY <1>1, <2>1, <2>3 DEF RadiiInv, CallInv, Mapping, Working, Output, WellShaped, Agrees, Plain
    <3>2. Members(vs)' = Members(vs) /\ Members(res)' = Members(res)
      BY <2>1 DEF Members
    <3>3. Started(S, k)'
      BY <1>1, <1>2, <2>1, <3>2 DEF RadiiInv, Started
    <3>4. Waiting(S, k)' /\ Searching(S, k)' /\ Returned(S, k)'
      BY <1>1, <2>1, <2>3, <3>2 DEF RadiiInv, Waiting, Searching, Returned
    <3>5. RadiiInv(S, k)'
      BY <3>1, <3>3, <3>4 DEF RadiiInv
    <3> QED BY <1>3, <3>5
  <2> QED BY <2>2, <2>3
<1>5. CASE Next
  <2>1. CASE NextRound
    <3>1. k + 1 \in 0 .. n /\ RadiiInv(S, k + 1)'
      BY <1>1, <2>1, NextRoundKeepsRadiiInv
    <3> QED BY <1>2, <3>1 DEF RadiiSearches
  <2>2. CASE SyncVisited \/ Enter \/ Leave
    BY <1>1, <1>3, <2>2, SyncKeepsRadiiInv, EnterKeepsRadiiInv, LeaveKeepsRadiiInv
  <2>3. CASE phase = "map" /\ \E v \in V : Loop(v)
    BY <1>1, <1>3, <2>3, LoopsKeepRadiiInv
  <2>4. ASSUME phase = "map", NEW it \in Items, ReadIn(it) \/ Break(it) \/ ReadOut(it)
        PROVE  RadiiSearches'
    BY <1>1, <1>3, <2>4, LoopsKeepRadiiInv
  <2>5. ASSUME phase = "map", NEW it \in Items,
               Update(it) \/ WriteOr(it) \/ ReadRadii(it) \/ SwapRadii(it)
        PROVE  RadiiSearches'
    BY <1>1, <1>3, <2>5, UpdateKeepsRadiiInv, WriteOrKeepsRadiiInv, ReadRadiiKeepsRadiiInv, SwapRadiiKeepsRadiiInv
  <2> QED BY <1>5, <2>1, <2>2, <2>3, <2>4, <2>5 DEF Next
<1> QED BY <1>4, <1>5

LEMMA RadiiSearchesInvariant ==
  ASSUME SamplesInGraph, NullIsNoArray
  PROVE  Init /\ [][Next]_vars => []RadiiSearches
<1>1. Init => RadiiSearches
  <2>1. Init => RadiiInv(Surviving, 0) /\ 0 \in 0 .. n
    BY InitRadiiInv, VertexSet
  <2>2. Surviving \in SUBSET Samples
    BY DEF Surviving
  <2> QED BY <2>1, <2>2 DEF RadiiSearches
<1>2. RadiiSearches /\ [Next]_vars => RadiiSearches'
  BY NextKeepsRadiiSearches
<1> QED BY <1>1, <1>2, PTL

\* Between the rounds the bits there are tell which samples survived, and the invariant
\* speaks of distances.
LEMMA WaitingFacts ==
  ASSUME SamplesInGraph, NEW S \in SUBSET Samples, NEW k \in 0 .. n, RadiiInv(S, k), phase = "call", ~synced
  PROVE  /\ round = k /\ Members(vs) = Front(S, k) /\ (k > 0 => vs.m = Cardinality(Front(S, k)))
         /\ \A v \in V : /\ Reaches(v) = Near(S, v, n)
                         /\ NextVisited[v] = Near(S, v, k) /\ Farthest(S, k, v, radii[v])
                         /\ \A j \in 0 .. n : Near(S, v, j) = {i \in Near(S, v, n) : Distance(starts[i], v) <= j}
                         /\ \A j \in 0 .. n : v \in Front(S, j)
                                                <=> \E i \in Near(S, v, n) : Distance(starts[i], v) = j
<1>1. n \in Nat /\ \A i \in S : starts[i] \in V
  BY VertexSet DEF SamplesInGraph, Samples
<1>2. round = k /\ Members(vs) = Front(S, k) /\ (k > 0 => vs.m = Cardinality(Front(S, k)))
  BY DEF RadiiInv, Started
<1>3. \A v \in V : NextVisited[v] = Near(S, v, k) /\ Farthest(S, k, v, radii[v])
  BY DEF RadiiInv, Waiting
<1>4. Surviving = S
  <2>1. \A i \in S : starts[i] \in Ball[k][starts[i]]
    <3> TAKE i \in S
    <3>1. starts[i] \in Ball[0][starts[i]]
      BY <1>1, BallsGrow
    <3>2. 0 \in 0 .. n /\ k \in 0 .. n
      BY <1>1
    <3> QED BY <1>1, <3>1, <3>2, BallsNest
  <2>2. \A i \in Samples : starts[i] \in V
    BY DEF SamplesInGraph, Samples
  <2> QED BY <1>3, <2>1, <2>2 DEF Surviving, Near
<1>5. \A v \in V : Reaches(v) = Near(S, v, n)
  BY <1>4 DEF Reaches, Near
<1>6. ASSUME NEW v \in V, NEW j \in 0 .. n
      PROVE  Near(S, v, j) = {i \in Near(S, v, n) : Distance(starts[i], v) <= j}
  <2>1. n \in j .. n
    BY <1>1
  <2>2. \A i \in S : Ball[j][starts[i]] \subseteq Ball[n][starts[i]]
    BY <1>1, <2>1, BallsNest
  <2>3. \A i \in S : v \in Ball[n][starts[i]] => (v \in Ball[j][starts[i]] <=> Distance(starts[i], v) <= j)
    BY <1>1, DistanceIsLeast
  <2> QED BY <2>2, <2>3 DEF Near
<1>7. ASSUME NEW v \in V, NEW j \in 0 .. n
      PROVE  v \in Front(S, j) <=> \E i \in Near(S, v, n) : Distance(starts[i], v) = j
  <2>1. ASSUME NEW i \in S
        PROVE  (v \in Ball[j][starts[i]] /\ (j > 0 => v \notin Ball[j - 1][starts[i]]))
                 <=> v \in Ball[n][starts[i]] /\ Distance(starts[i], v) = j
    <3>1. n \in j .. n /\ starts[i] \in V
      BY <1>1
    <3>2. Ball[j][starts[i]] \subseteq Ball[n][starts[i]]
      BY <3>1, BallsNest
    <3>3. SUFFICES ASSUME v \in Ball[n][starts[i]]
                   PROVE  (v \in Ball[j][starts[i]] /\ (j > 0 => v \notin Ball[j - 1][starts[i]]))
                            <=> Distance(starts[i], v) = j
      BY <3>2
    <3>4. /\ Distance(starts[i], v) \in 0 .. n
          /\ \A l \in 0 .. n : v \in Ball[l][starts[i]] <=> Distance(starts[i], v) <= l
      BY <3>1, <3>3, DistanceIsLeast
    <3>5. v \in Ball[j][starts[i]] <=> Distance(starts[i], v) <= j
      BY <3>4
    <3>6. j > 0 => (v \in Ball[j - 1][starts[i]] <=> Distance(starts[i], v) <= j - 1)
      <4>1. j > 0 => j - 1 \in 0 .. n
        BY <1>1
      <4> QED BY <3>4, <4>1
    <3> QED BY <1>1, <3>4, <3>5, <3>6
  <2> QED BY <2>1 DEF Front, Near
<1> QED BY <1>2, <1>3, <1>5, <1>6, <1>7

LEMMA RoundsAreInStep ==
  ASSUME SamplesInGraph
  PROVE  RadiiSearches => SearchesInStep
<1> SUFFICES ASSUME RadiiSearches, phase = "call", ~synced
             PROVE  /\ \A v \in V : NextVisited[v] = {i \in Reaches(v) : Distance(starts[i], v) <= round}
                    /\ Members(vs) = {v \in V : \E i \in Reaches(v) : Distance(starts[i], v) = round}
                    /\ round > 0 => Cardinality(Members(vs)) = vs.m
  BY DEF SearchesInStep
<1>1. PICK S \in SUBSET Samples, k \in 0 .. n : RadiiInv(S, k)
  BY DEF RadiiSearches
<1>2. round = k /\ Members(vs) = Front(S, k) /\ (k > 0 => vs.m = Cardinality(Front(S, k)))
  BY <1>1, WaitingFacts
<1>3. \A v \in V : /\ NextVisited[v] = {i \in Reaches(v) : Distance(starts[i], v) <= k}
                   /\ v \in Front(S, k) <=> \E i \in Reaches(v) : Distance(starts[i], v) = k
  BY <1>1, WaitingFacts
<1>4. Front(S, k) \subseteq V
  BY DEF Front
<1> QED BY <1>2, <1>3, <1>4

LEMMA EndsAreEccentricities ==
  ASSUME SamplesInGraph
  PROVE  RadiiSearches => RadiiAreEccentricities
<1> SUFFICES ASSUME RadiiSearches, Done, NEW v \in V
             PROVE  /\ Reaches(v) = {} => radii[v] = -1
                    /\ Reaches(v) # {} => /\ \E i \in Reaches(v) : Distance(starts[i], v) = radii[v]
                                          /\ \A i \in Reaches(v) : Distance(starts[i], v) <= radii[v]
  BY DEF RadiiAreEccentricities
<1>1. PICK S \in SUBSET Samples, k \in 0 .. n : RadiiInv(S, k)
  BY DEF RadiiSearches
<1>2. phase = "call" /\ ~synced /\ vs.m = 0
  BY DEF Done
<1>3. /\ round = k /\ Members(vs) = Front(S, k) /\ (k > 0 => vs.m = Cardinality(Front(S, k)))
      /\ Reaches(v) = Near(S, v, n) /\ Farthest(S, k, v, radii[v])
      /\ \A j \in 0 .. n : Near(S, v, j) = {i \in Near(S, v, n) : Distance(starts[i], v) <= j}
      /\ \A j \in 0 .. n : v \in Front(S, j) <=> \E i \in Near(S, v, n) : Distance(starts[i], v) = j
  BY <1>1, <1>2, WaitingFacts
<1>4. Front(S, k) = {}
  <2>1. CASE vs.isDense
    <3>1. vs.d # NULL
      BY <1>1, <2>1 DEF RadiiInv, CallInv, WellShaped, IsSubset
    <3>2. Trues(vs.d) = {}
      BY <1>1, <1>2, <3>1, NoMembers DEF RadiiInv, CallInv, WellShaped
    <3> QED BY <1>3, <2>1, <3>2 DEF Members
  <2>2. CASE ~vs.isDense
    BY <1>2, <1>3, <2>2 DEF Members, Entries
  <2> QED BY <2>1, <2>2
<1>5. Near(S, v, n) = Near(S, v, k) /\ n \in Nat
  BY <1>4, FrontEnds, VertexSet
<1>6. CASE Near(S, v, n) = {}
  BY <1>3, <1>5, <1>6 DEF Farthest
<1>7. CASE Near(S, v, n) # {}
  <2>1. radii[v] \in 0 .. n /\ v \in Front(S, radii[v]) /\ Near(S, v, radii[v]) = Near(S, v, n)
    BY <1>3, <1>5, <1>7 DEF Farthest
  <2> QED BY <1>3, <1>7, <2>1
<1> QED BY <1>3, <1>6, <1>7

-----------------------------------------------------------------------------

-----------------------------------------------------------------------------
(* No relaxation is lost, on any graph with any weights and for every      *)
(* interleaving.  During a call an edge that can lower its target is still *)
(* to be taken, or under way with a distance that is low enough, or its    *)
(* source was lowered in this call: then it has been reported, or whoever  *)
(* lowered it has still to mark it.                                        *)
RegsOK == /\ DOMAIN regs \subseteq GA
          /\ regs \in [DOMAIN regs -> [at : {"min", "mark"}, dist : Int]]

BFType == /\ GA \subseteq BFVerts \X BFVerts \X Int
          /\ stage \in {"loop", "map", "done"}
          /\ Frontier \subseteq BFVerts /\ out \subseteq BFVerts /\ todo \subseteq GA
          /\ RegsOK
          /\ ShortestPathLen \in [BFVerts -> Int] /\ Touched \in [BFVerts -> {0, 1}]
          /\ todo \cap DOMAIN regs = {}
          /\ stage # "map" => todo = {} /\ DOMAIN regs = {}

Marking(v) == \E x \in DOMAIN regs : regs[x].at = "mark" /\ x[2] = v
Lowered(v) == v \in out \/ Marking(v)
Relaxed(e) == ShortestPathLen[e[2]] <= ShortestPathLen[e[1]] + e[3]
UnderWay(e) == /\ e \in DOMAIN regs /\ regs[e].at = "min"
               /\ regs[e].dist <= ShortestPathLen[e[1]] + e[3]

Kept(e) == \/ ShortestPathLen[e[1]] = Inf
           \/ e \in todo \/ UnderWay(e) \/ Lowered(e[1]) \/ Relaxed(e)

MapKeeps == stage = "map" => /\ \A e \in GA : Kept(e)
                             /\ \A v \in BFVerts : Touched[v] = 1 <=> v \in out

BFInv == BFType /\ MapKeeps /\ BF!NothingIsLost

\* It holds of the start alone at distance 0,
LEMMA InitBFInv == BF!InputsOK /\ BF!Init => BFInv
<1> SUFFICES ASSUME BF!InputsOK, BF!Init PROVE BFInv
  OBVIOUS
<1>1. BFType
  BY DEF BF!InputsOK, BF!Init, BF!NoCall, BFType, RegsOK
<1>2. BF!NothingIsLost
  <2> SUFFICES ASSUME NEW e \in GA, ShortestPathLen[e[1]] # Inf
               PROVE  e[1] \in Frontier
    BY DEF BF!Init, BF!NothingIsLost
  <2> QED BY <1>1 DEF BF!Init, BFType
<1> QED BY <1>1, <1>2 DEF BF!Init, BFInv, MapKeeps

\* and the test of the loop and the steps of edgeMap itself keep it,
LEMMA LoopKeepsBFInv ==
  ASSUME BF!InputsOK, BFInv, BF!NegativeCycle \/ BF!Call \/ BF!Return
  PROVE  BFInv'
<1>1. CASE BF!NegativeCycle
  <2>1. BFType'
    BY <1>1 DEF BF!InputsOK, BFInv, BFType, RegsOK, BF!NegativeCycle, BF!callVars
  <2> QED BY <1>1, <2>1 DEF BF!NegativeCycle, BFInv, MapKeeps, BF!NothingIsLost
<1>2. CASE BF!Call
  <2>1. /\ stage = "loop" /\ stage' = "map" /\ todo' = BF!OutOf(Frontier) /\ regs' = <<>> /\ out' = {}
        /\ GA' = GA /\ Frontier' = Frontier
        /\ ShortestPathLen' = ShortestPathLen /\ Touched' = Touched
    BY <1>2 DEF BF!Call, BF!Begin, BF!bfVars
  <2>2. BFType'
    BY <2>1 DEF BFInv, BFType, RegsOK, BF!OutOf
  <2>3. \A e \in GA : Kept(e)'
    BY <2>1 DEF BFInv, BF!NothingIsLost, Kept, Relaxed, BF!OutOf
  <2> QED BY <2>1, <2>2, <2>3 DEF BFInv, MapKeeps, BF!NothingIsLost
<1>3. CASE BF!Return
  <2>1. /\ stage = "map" /\ stage' = "loop" /\ todo = {} /\ DOMAIN regs = {}
        /\ todo' = todo /\ regs' = regs /\ out' = out /\ GA' = GA /\ Frontier' = out
        /\ ShortestPathLen' = ShortestPathLen
        /\ Touched' = [v \in BFVerts |-> IF v \in out THEN 0 ELSE Touched[v]]
    BY <1>3 DEF BF!Return, BF!Returned, BF!callVars
  <2>2. BFType'
    BY <2>1 DEF BFInv, BFType, RegsOK
  <2>3. \A e \in GA : ShortestPathLen[e[1]] # Inf => e[1] \in out \/ Relaxed(e)
    BY <2>1 DEF BFInv, MapKeeps, Kept, UnderWay, Lowered, Marking
  <2>4. \A v \in BFVerts : Touched'[v] = 0
    BY <2>1 DEF BFInv, BFType, MapKeeps
  <2> QED BY <2>1, <2>2, <2>3, <2>4 DEF BFInv, MapKeeps, BF!NothingIsLost, Relaxed
<1> QED BY <1>1, <1>2, <1>3

\* and the read of a source's distance,
LEMMA ReadDistKeepsBFInv ==
  ASSUME BFInv, NEW e \in todo, BF!ReadDist(e)
  PROVE  BFInv'
<1>1. /\ stage = "map" /\ stage' = stage /\ GA' = GA /\ Frontier' = Frontier /\ out' = out
      /\ ShortestPathLen' = ShortestPathLen /\ Touched' = Touched
      /\ todo' = todo \ {e}
      /\ regs' = [x \in DOMAIN regs \cup {e} |->
                    IF x = e THEN [at |-> "min", dist |-> ShortestPathLen[e[1]] + e[3]] ELSE regs[x]]
  BY DEF BF!ReadDist, BF!Enter, BF!mainVars, BF!bfVars, BFInv, BFType
<1>2. e \in GA /\ e[1] \in BFVerts /\ e[3] \in Int /\ ShortestPathLen[e[1]] \in Int
  BY DEF BFInv, BFType
<1>3. BFType'
  BY <1>1, <1>2 DEF BFInv, BFType, RegsOK
<1>4. \A v : Marking(v) => Marking(v)'
  BY <1>1 DEF BFInv, BFType, Marking
<1>5. ASSUME NEW x \in GA PROVE Kept(x)'
  <2>1. Kept(x)
    BY <1>1, <1>5 DEF BFInv, MapKeeps
  <2>2. CASE x = e
    BY <1>1, <1>2, <2>2 DEF Kept, UnderWay
  <2>3. CASE x # e
    BY <1>1, <1>4, <2>1, <2>3 DEF Kept, UnderWay, Lowered, Relaxed
  <2> QED BY <2>2, <2>3
<1> QED BY <1>1, <1>3, <1>5 DEF BFInv, MapKeeps, BF!NothingIsLost

\* and writeMin, which makes its vertex's edges worth taking again,
LEMMA WriteMinDistKeepsBFInv ==
  ASSUME BFInv, NEW e \in DOMAIN regs, BF!WriteMinDist(e)
  PROVE  BFInv'
<1>1. /\ stage = "map" /\ regs[e].at = "min" /\ GA' = GA /\ stage' = stage /\ Frontier' = Frontier
      /\ todo' = todo /\ Touched' = Touched
  BY DEF BF!WriteMinDist, BF!mainVars, BF!Local, BF!Answer, BFInv, BFType
<1>2. /\ e \in GA /\ e[1] \in BFVerts /\ e[2] \in BFVerts /\ e[3] \in Int /\ regs[e].dist \in Int
      /\ ShortestPathLen \in [BFVerts -> Int]
      /\ \A x \in GA : Kept(x) /\ x[1] \in BFVerts /\ x[2] \in BFVerts /\ x[3] \in Int
  BY <1>1 DEF BFInv, BFType, RegsOK, MapKeeps
<1>3. CASE regs[e].dist < ShortestPathLen[e[2]]
  <2>1. /\ ShortestPathLen' = [ShortestPathLen EXCEPT ![e[2]] = regs[e].dist]
        /\ regs' = [regs EXCEPT ![e] = [regs[e] EXCEPT !.at = "mark"]] /\ out' = out
    BY <1>3 DEF BF!WriteMinDist, BF!Local
  <2>2. DOMAIN regs' = DOMAIN regs /\ regs'[e].at = "mark"
        /\ \A x \in DOMAIN regs : x # e => regs'[x] = regs[x]
    BY <2>1 DEF BFInv, BFType, RegsOK
  <2>3. BFType'
    BY <1>1, <1>2, <2>1 DEF BFInv, BFType, RegsOK
  <2>4. Marking(e[2])' /\ \A v : Marking(v) => Marking(v)'
    BY <1>1, <2>2 DEF Marking
  <2>5. ShortestPathLen' \in [BFVerts -> Int] /\ ShortestPathLen'[e[2]] = regs[e].dist
        /\ \A v \in BFVerts : /\ v # e[2] => ShortestPathLen'[v] = ShortestPathLen[v]
                          /\ ShortestPathLen'[v] <= ShortestPathLen[v]
    BY <1>2, <1>3, <2>1
  <2>6. ASSUME NEW x \in GA PROVE Kept(x)'
    <3>1. CASE x[1] = e[2]
      BY <2>4, <3>1 DEF Kept, Lowered
    <3>2. CASE x[1] # e[2] /\ x = e /\ UnderWay(x)
      BY <1>2, <2>5, <3>2 DEF Kept, UnderWay, Relaxed
    <3>3. CASE x[1] # e[2] /\ x # e /\ UnderWay(x)
      BY <1>2, <2>2, <2>5, <3>3 DEF Kept, UnderWay
    <3>4. CASE x[1] # e[2] /\ Relaxed(x)
      <4>1. ShortestPathLen'[x[1]] = ShortestPathLen[x[1]] /\ ShortestPathLen'[x[2]] <= ShortestPathLen[x[2]]
            /\ ShortestPathLen'[x[2]] \in Int /\ ShortestPathLen[x[2]] \in Int /\ ShortestPathLen[x[1]] \in Int
        BY <1>2, <2>5, <3>4
      <4> QED BY <1>2, <4>1, <3>4 DEF Kept, Relaxed
    <3>5. CASE x[1] # e[2] /\ ~UnderWay(x) /\ ~Relaxed(x)
      BY <1>1, <1>2, <2>1, <2>4, <2>5, <3>5 DEF Kept, Lowered
    <3> QED BY <3>1, <3>2, <3>3, <3>4, <3>5
  <2> QED BY <1>1, <2>1, <2>3, <2>6 DEF BFInv, MapKeeps, BF!NothingIsLost
<1>4. CASE ~(regs[e].dist < ShortestPathLen[e[2]])
  <2>1. /\ ShortestPathLen' = ShortestPathLen /\ out' = out
        /\ regs' = [x \in DOMAIN regs \ {e} |-> regs[x]]
    BY <1>4 DEF BF!WriteMinDist, BF!Answer
  <2>2. BFType'
    BY <1>1, <2>1 DEF BFInv, BFType, RegsOK
  <2>3. \A v : Marking(v) => Marking(v)'
    BY <1>1, <2>1 DEF Marking
  <2>4. UnderWay(e) => Relaxed(e)
    BY <1>2, <1>4 DEF UnderWay, Relaxed
  <2>5. ASSUME NEW x \in GA PROVE Kept(x)'
    <3>1. UnderWay(x) => UnderWay(x)' \/ Relaxed(x)
      BY <1>1, <2>1, <2>4 DEF UnderWay
    <3> QED BY <1>1, <1>2, <2>1, <2>3, <3>1 DEF Kept, Lowered, Relaxed
  <2> QED BY <1>1, <2>1, <2>2, <2>5 DEF BFInv, MapKeeps, BF!NothingIsLost
<1> QED BY <1>3, <1>4

\* and the CAS on Visited: whoever loses it finds the vertex reported.
LEMMA MarkVisitedKeepsBFInv ==
  ASSUME BFInv, NEW e \in DOMAIN regs, BF!MarkVisited(e)
  PROVE  BFInv'
<1>1. /\ stage = "map" /\ regs[e].at = "mark" /\ GA' = GA /\ stage' = stage /\ Frontier' = Frontier
      /\ todo' = todo /\ ShortestPathLen' = ShortestPathLen
      /\ Touched' = [Touched EXCEPT ![e[2]] = 1]
      /\ regs' = [x \in DOMAIN regs \ {e} |-> regs[x]]
      /\ out' = IF Touched[e[2]] = 0 THEN out \cup {e[2]} ELSE out
  BY DEF BF!MarkVisited, BF!mainVars, BF!Answer, BFInv, BFType
<1>2. /\ e \in GA /\ e[2] \in BFVerts /\ Touched \in [BFVerts -> {0, 1}]
      /\ \A v \in BFVerts : Touched[v] = 1 <=> v \in out
  BY <1>1 DEF BFInv, BFType, RegsOK, MapKeeps
<1>3. BFType'
  BY <1>1, <1>2 DEF BFInv, BFType, RegsOK
<1>4. out' = out \cup {e[2]}
  BY <1>1, <1>2
<1>5. \A v \in BFVerts : Touched'[v] = 1 <=> v \in out'
  BY <1>1, <1>2, <1>4
<1>6. \A v : Lowered(v) => Lowered(v)'
  <2> SUFFICES ASSUME NEW v, Marking(v) PROVE v \in out' \/ Marking(v)'
    BY <1>4 DEF Lowered
  <2>1. PICK x \in DOMAIN regs : regs[x].at = "mark" /\ x[2] = v
    BY DEF Marking
  <2> QED BY <1>1, <1>4, <2>1 DEF Marking
<1>7. ASSUME NEW x \in GA PROVE Kept(x)'
  <2>1. Kept(x)
    BY <1>1 DEF BFInv, MapKeeps
  <2>2. UnderWay(x) => UnderWay(x)'
    BY <1>1 DEF UnderWay
  <2> QED BY <1>1, <1>6, <2>1, <2>2 DEF Kept, Relaxed
<1> QED BY <1>1, <1>3, <1>5, <1>7 DEF BFInv, MapKeeps, BF!NothingIsLost

LEMMA StutterKeepsBFInv ==
  ASSUME BFInv, UNCHANGED BF!vars
  PROVE  BFInv'
<1>1. BFType'
  BY DEF BFInv, BFType, RegsOK, BF!vars, BF!mainVars, BF!callVars, BF!bfVars
<1> QED BY <1>1 DEF BFInv, MapKeeps, BF!NothingIsLost, Kept, UnderWay, Lowered, Marking, Relaxed,
                    BF!vars, BF!mainVars, BF!callVars, BF!bfVars

\* So every step keeps it.
LEMMA BFInvKept ==
  ASSUME BF!InputsOK, BFInv, [BF!Next]_(BF!vars)
  PROVE  BFInv'
<1>1. CASE BF!NegativeCycle \/ BF!Call \/ BF!Return
  BY <1>1, LoopKeepsBFInv
<1>2. CASE \E e \in todo : BF!ReadDist(e)
  BY <1>2, ReadDistKeepsBFInv
<1>3. CASE \E e \in DOMAIN regs : BF!WriteMinDist(e) \/ BF!MarkVisited(e)
  BY <1>3, WriteMinDistKeepsBFInv, MarkVisitedKeepsBFInv
<1>4. CASE UNCHANGED BF!vars
  BY <1>4, StutterKeepsBFInv
<1> QED BY <1>1, <1>2, <1>3, <1>4 DEF BF!Next

\* However the writeMins and the CASes on Visited overlap, between two rounds every edge
\* that can still lower its target starts in the frontier: for every weighted graph.
THEOREM NothingIsEverLost == ASSUME BF!InputsOK PROVE BF!Spec => []BF!NothingIsLost
<1>1. BF!Init => BFInv
  BY InitBFInv
<1>2. BFInv /\ [BF!Next]_(BF!vars) => BFInv'
  BY BFInvKept
<1>3. BFInv => BF!NothingIsLost
  BY DEF BFInv
<1> QED BY <1>1, <1>2, <1>3, PTL DEF BF!Spec

-----------------------------------------------------------------------------
(* Shortest walks.  The rows of Shortest, by induction over k; and lengths  *)
(* that no edge can lower, which are no longer than the shortest walks     *)
(* and, where there are any, leave no walk of n edges shorter than those   *)
(* of fewer: there is no cycle of negative weight.                         *)

\* Shortest as a function of the edges, for the walks over U of at most N edges.
ShortestIn(G, U, N, far) ==
  LET Shortest[k \in 0 .. N] ==
        IF k = 0 THEN [v \in U |-> IF v = start THEN 0 ELSE far]
        ELSE LET near == Shortest[k - 1]
             IN  [v \in U |-> BF!Min({near[v]} \cup {near[e[1]] + e[3] :
                                     e \in {e \in G : e[2] = v /\ near[e[1]] # far}})]
  IN Shortest

\* The model's table of distances depends on the graph alone.
LEMMA ShortestOfEdges == BF!Shortest = ShortestIn(GA, BFVerts, BF!nv, Inf)
  BY DEF BF!Shortest, ShortestIn

\* Each row is the least that the row before it and one more edge give.
Walks(G, U, N, far, S) ==
  /\ S \in [0 .. N -> [U -> Int]]
  /\ S[0] = [v \in U |-> IF v = start THEN 0 ELSE far]
  /\ \A k \in 0 .. N - 1 :
       /\ \A v \in U : S[k + 1][v] <= S[k][v]
       /\ \A e \in G : S[k][e[1]] # far => S[k + 1][e[2]] <= S[k][e[1]] + e[3]
       /\ \A v \in U : \/ S[k + 1][v] = S[k][v]
                       \/ \E e \in G : e[2] = v /\ S[k][e[1]] # far /\ S[k + 1][v] = S[k][e[1]] + e[3]

\* A finite graph between the members of U.
WalksOn(G, U, N, far) ==
  /\ start \in U /\ IsFiniteSet(U) /\ far \in Nat \ {0} /\ N \in Nat \ {0}
  /\ IsFiniteSet(G) /\ G \subseteq U \X U \X Int

\* A finite set of integers that is not empty has a least member, and Min is it.
LEMMA MinIs ==
  ASSUME NEW S \in SUBSET Int, IsFiniteSet(S), S # {}
  PROVE  BF!Min(S) \in S /\ \A y \in S : BF!Min(S) <= y
<1> DEFINE Has(U) == \E x \in U : \A y \in U : x <= y
           Small == {k \in Nat : \A U \in SUBSET Int :
                       IsFiniteSet(U) /\ U # {} /\ Cardinality(U) <= k => Has(U)}
<1>1. 0 \in Small
  <2> SUFFICES ASSUME NEW U \in SUBSET Int, IsFiniteSet(U), U # {}, Cardinality(U) <= 0 PROVE FALSE
    OBVIOUS
  <2> QED BY FS_EmptySet, FS_CardinalityType
<1>2. ASSUME NEW k \in Nat, k \in Small PROVE k + 1 \in Small
  <2> SUFFICES ASSUME NEW U \in SUBSET Int, IsFiniteSet(U), U # {}, Cardinality(U) <= k + 1
               PROVE  Has(U)
    OBVIOUS
  <2>1. PICK x \in U : TRUE
    OBVIOUS
  <2>2. CASE U \ {x} = {}
    <3>1. \A y \in U : x <= y
      BY <2>1, <2>2
    <3> QED BY <3>1
  <2>3. CASE U \ {x} # {}
    <3>1. /\ IsFiniteSet(U \ {x}) /\ Cardinality(U \ {x}) = Cardinality(U) - 1
          /\ Cardinality(U) \in Nat
      BY <2>1, FS_RemoveElement, FS_CardinalityType
    <3>2. Cardinality(U \ {x}) <= k
      BY <3>1
    <3> HIDE DEF Has
    <3>3. Has(U \ {x})
      BY <1>2, <2>3, <3>1, <3>2
    <3> USE DEF Has
    <3>4. PICK z \in U \ {x} : \A y \in U \ {x} : z <= y
      BY <3>3
    <3>5. x \in Int /\ z \in Int
      BY <2>1
    <3>6. CASE x <= z
      <4>1. \A y \in U : x <= y
        BY <3>4, <3>5, <3>6
      <4> QED BY <4>1
    <3>7. CASE z <= x
      <4>1. \A y \in U : z <= y
        BY <3>4, <3>7
      <4> QED BY <4>1
    <3> QED BY <3>5, <3>6, <3>7
  <2> QED BY <2>2, <2>3
<1>3. Has(S)
  <2> HIDE DEF Small
  <2>1. Cardinality(S) \in Small
    BY <1>1, <1>2, SetInduction, FS_CardinalityType
  <2> QED BY <2>1, FS_CardinalityType DEF Small
<1> QED BY <1>3 DEF BF!Min
\* The table of distances, row by row.
LEMMA ShortestWalks ==
  ASSUME NEW G, NEW U, NEW N, NEW far, WalksOn(G, U, N, far)
  PROVE  Walks(G, U, N, far, ShortestIn(G, U, N, far))
<1> DEFINE Lens(near, v) == {near[v]} \cup {near[e[1]] + e[3] : e \in {e \in G : e[2] = v /\ near[e[1]] # far}}
           First == [v \in U |-> IF v = start THEN 0 ELSE far]
           Row(near) == [v \in U |-> BF!Min(Lens(near, v))]
           Rows(g, k) == g = [i \in 0 .. k |-> IF i = 0 THEN First ELSE Row(g[i - 1])]
           Upto == {k \in Nat : \E g : Rows(g, k)}
           S == ShortestIn(G, U, N, far)
<1>1. N \in Nat /\ far \in Int /\ G \subseteq U \X U \X Int /\ IsFiniteSet(G)
  BY DEF WalksOn
<1>2. 0 \in Upto
  <2> HIDE DEF First, Row
  <2>1. Rows([i \in 0 .. 0 |-> First], 0)
    OBVIOUS
  <2> QED BY <2>1
<1>3. ASSUME NEW k \in Nat, k \in Upto PROVE k + 1 \in Upto
  <2> HIDE DEF First, Row
  <2> SUFFICES \E g : Rows(g, k + 1)
    OBVIOUS
  <2>1. PICK g : Rows(g, k)
    BY <1>3
  <2> DEFINE h == [i \in 0 .. k + 1 |-> IF i = 0 THEN First ELSE Row(g[i - 1])]
  <2>2. ASSUME NEW i \in 0 .. k + 1, i # 0 PROVE h[i - 1] = g[i - 1]
    <3>1. i - 1 \in 0 .. k /\ i - 1 \in 0 .. k + 1
      BY <2>2
    <3> QED BY <2>1, <3>1
  <2>3. h = [i \in 0 .. k + 1 |-> IF i = 0 THEN First ELSE Row(h[i - 1])]
    BY <2>2
  <2> HIDE DEF h
  <2>4. Rows(h, k + 1)
    BY <2>3
  <2> QED BY <2>4
<1>4. \E g : Rows(g, N)
  <2> HIDE DEF Upto
  <2>1. N \in Upto
    BY <1>1, <1>2, <1>3, SetInduction, ZenonT(30)
  <2> QED BY <2>1 DEF Upto
<1>5. Rows(S, N)
  BY <1>4, Zenon DEF ShortestIn
<1>6. S[0] = First /\ \A k \in 0 .. N - 1 : S[k + 1] = Row(S[k])
  <2> HIDE DEF S, First, Row
  <2>1. \A i \in 0 .. N : S[i] = IF i = 0 THEN First ELSE Row(S[i - 1])
    BY <1>1, <1>5
  <2>2. ASSUME NEW k \in 0 .. N - 1 PROVE S[k + 1] = Row(S[k])
    <3>1. k + 1 \in 0 .. N /\ k + 1 # 0 /\ (k + 1) - 1 = k
      BY <1>1
    <3> QED BY <2>1, <3>1
  <2> QED BY <1>1, <2>1, <2>2
<1>7. ASSUME NEW near \in [U -> Int], NEW v \in U
      PROVE  Row(near)[v] \in Lens(near, v) /\ Row(near)[v] \in Int /\ \A y \in Lens(near, v) : Row(near)[v] <= y
  <2> DEFINE Es == {e \in G : e[2] = v /\ near[e[1]] # far}
             Op(e) == near[e[1]] + e[3]
  <2>1. IsFiniteSet(Es)
    BY <1>1, FS_Subset
  <2>2. IsFiniteSet({Op(e) : e \in Es})
    <3> DEFINE f == [e \in Es |-> Op(e)]
               Us == {Op(e) : e \in Es}
    <3>1. f \in [Es -> Us] /\ \A t \in Us : \E e \in Es : f[e] = t
      <4> HIDE DEF Es, Op
      <4> QED OBVIOUS
    <3> HIDE DEF Es, Op, f, Us
    <3>2. f \in Surjection(Es, Us)
      BY <3>1, Fun_IsSurj
    <3>3. IsFiniteSet(Us)
      BY <2>1, <3>2, FS_Surjection
    <3> QED BY <3>3 DEF Us
  <2>3. IsFiniteSet({near[v]}) /\ IsFiniteSet({near[v]} \cup {Op(e) : e \in Es})
    <3> HIDE DEF Es, Op
    <3> QED BY <2>2, FS_Singleton, FS_Union
  <2>4. IsFiniteSet(Lens(near, v)) /\ Lens(near, v) \in SUBSET Int /\ Lens(near, v) # {}
    BY <1>1, <2>3
  <2> HIDE DEF Lens
  <2> QED BY <2>4, MinIs
<1>8. S \in [0 .. N -> [U -> Int]]
  <2> DEFINE Typed == {k \in Nat : k <= N => S[k] \in [U -> Int]}
  <2> HIDE DEF S
  <2>1. 0 \in Typed
    BY <1>1, <1>6
  <2> HIDE DEF Row
  <2>2. ASSUME NEW k \in Nat, k \in Typed PROVE k + 1 \in Typed
    <3> SUFFICES ASSUME k + 1 <= N PROVE S[k + 1] \in [U -> Int]
      OBVIOUS
    <3>1. k \in 0 .. N - 1 /\ S[k] \in [U -> Int] /\ S[k + 1] = Row(S[k])
      BY <1>1, <1>6, <2>2
    <3>2. \A v \in U : Row(S[k])[v] \in Int
      BY <1>7, <3>1
    <3> QED BY <3>1, <3>2 DEF Row
  <2> HIDE DEF Typed
  <2>3. \A k \in Nat : k \in Typed
    BY <2>1, <2>2, SetInduction
  <2>4. \A k \in 0 .. N : S[k] \in [U -> Int]
    BY <1>1, <2>3 DEF Typed
  <2> QED BY <1>1, <1>5, <2>4
<1>9. ASSUME NEW k \in 0 .. N - 1, NEW v \in U
      PROVE  S[k] \in [U -> Int] /\ S[k + 1][v] \in Lens(S[k], v) /\ \A y \in Lens(S[k], v) : S[k + 1][v] <= y
  <2> HIDE DEF S, Row, Lens
  <2>1. k \in 0 .. N /\ S[k] \in [U -> Int] /\ S[k + 1] = Row(S[k])
    BY <1>1, <1>6, <1>8
  <2> QED BY <1>7, <2>1
<1>10. ASSUME NEW k \in 0 .. N - 1
       PROVE  /\ \A v \in U : S[k + 1][v] <= S[k][v]
              /\ \A e \in G : S[k][e[1]] # far => S[k + 1][e[2]] <= S[k][e[1]] + e[3]
              /\ \A v \in U : \/ S[k + 1][v] = S[k][v]
                              \/ \E e \in G : e[2] = v /\ S[k][e[1]] # far /\ S[k + 1][v] = S[k][e[1]] + e[3]
  <2> HIDE DEF S
  <2>1. \A e \in G : e[2] \in U
    BY <1>1
  <2>2. \A e \in G : S[k][e[1]] # far => S[k][e[1]] + e[3] \in Lens(S[k], e[2])
    OBVIOUS
  <2>3. \A v \in U : S[k][v] \in Lens(S[k], v)
    OBVIOUS
  <2>4. ASSUME NEW v \in U
        PROVE  \/ S[k + 1][v] = S[k][v]
               \/ \E e \in G : e[2] = v /\ S[k][e[1]] # far /\ S[k + 1][v] = S[k][e[1]] + e[3]
    BY <1>9
  <2> HIDE DEF Lens
  <2> QED BY <1>9, <2>1, <2>2, <2>3, <2>4
<1> QED BY <1>6, <1>8, <1>10 DEF Walks

\* The rows decrease, from no more than far.
LEMMA WalksBounds ==
  ASSUME NEW G, NEW U, NEW N, NEW far, WalksOn(G, U, N, far), NEW S, Walks(G, U, N, far, S)
  PROVE  /\ N \in Nat \ {0}
         /\ \A j \in 0 .. N : \A i \in 0 .. j : \A v \in U : S[j][v] <= S[i][v]
         /\ \A k \in 0 .. N : S[k] \in [U -> Int] /\ S[k][start] <= 0 /\ \A v \in U : S[k][v] <= far
<1>1. start \in U /\ far \in Nat \ {0} /\ N \in Nat
  BY DEF WalksOn
<1>2. N # 0
  BY DEF WalksOn
<1>3. \A k \in 0 .. N : \A v \in U : S[k][v] \in Int
  BY <1>1 DEF Walks
<1>4. \A k \in 0 .. N - 1 : \A v \in U : S[k + 1][v] <= S[k][v]
  BY DEF Walks
<1> DEFINE Falls == {j \in Nat : j <= N => \A i \in 0 .. j : \A v \in U : S[j][v] <= S[i][v]}
<1>5. 0 \in Falls
  BY <1>1, <1>3
<1>6. ASSUME NEW j \in Nat, j \in Falls PROVE j + 1 \in Falls
  <2> SUFFICES ASSUME j + 1 <= N, NEW i \in 0 .. j + 1, NEW v \in U PROVE S[j + 1][v] <= S[i][v]
    OBVIOUS
  <2>1. j \in 0 .. N - 1 /\ j \in 0 .. N /\ j + 1 \in 0 .. N /\ i \in 0 .. N
    BY <1>1
  <2>2. S[j + 1][v] <= S[j][v] /\ S[j + 1][v] \in Int /\ S[j][v] \in Int /\ S[i][v] \in Int
    BY <1>3, <1>4, <2>1
  <2>3. i = j + 1 \/ S[j][v] <= S[i][v]
    BY <1>6, <2>1
  <2> QED BY <2>2, <2>3
<1>7. \A j \in 0 .. N : \A i \in 0 .. j : \A v \in U : S[j][v] <= S[i][v]
  <2> HIDE DEF Falls
  <2>1. \A j \in Nat : j \in Falls
    BY <1>5, <1>6, SetInduction
  <2> QED BY <1>1, <2>1 DEF Falls
<1>8. ASSUME NEW k \in 0 .. N
      PROVE  S[k] \in [U -> Int] /\ S[k][start] <= 0 /\ \A v \in U : S[k][v] <= far
  <2>1. S[0][start] = 0 /\ \A v \in U : S[0][v] <= far /\ S[0][v] \in Int
    BY <1>1 DEF Walks
  <2>2. 0 \in 0 .. k /\ \A v \in U : S[k][v] <= S[0][v] /\ S[k][v] \in Int
    BY <1>1, <1>3, <1>7
  <2>3. S[k] \in [U -> Int]
    BY DEF Walks
  <2> QED BY <1>1, <2>1, <2>2, <2>3
<1> QED BY <1>1, <1>2, <1>7, <1>8

\* Lengths that no edge can lower.
Feasible(G, U, far, P) ==
  /\ P \in [U -> Int] /\ P[start] <= 0 /\ \A v \in U : P[v] <= far
  /\ \A e \in G : P[e[1]] # far => P[e[2]] <= P[e[1]] + e[3]

\* They are no longer than the shortest walks.
LEMMA FeasibleIsShort ==
  ASSUME NEW G, NEW U, NEW N, NEW far, WalksOn(G, U, N, far), NEW S, Walks(G, U, N, far, S),
         NEW P, Feasible(G, U, far, P)
  PROVE  \A k \in 0 .. N : \A v \in U : P[v] <= S[k][v]
<1>1. /\ N \in Nat \ {0} /\ start \in U /\ far \in Nat \ {0} /\ \A v \in U : P[v] \in Int /\ P[v] <= far
      /\ \A e \in G : e[1] \in U /\ e[2] \in U /\ e[3] \in Int
  BY DEF WalksOn, Feasible
<1>2. \A k \in 0 .. N : \A v \in U : S[k][v] \in Int /\ S[k][v] <= far
  BY WalksBounds
<1> DEFINE Short == {k \in Nat : k <= N => \A v \in U : P[v] <= S[k][v]}
<1>3. 0 \in Short
  <2> SUFFICES ASSUME NEW v \in U PROVE P[v] <= S[0][v]
    OBVIOUS
  <2>1. S[0][v] = IF v = start THEN 0 ELSE far
    BY DEF Walks
  <2>2. P[start] <= 0 /\ P[v] <= far
    BY DEF Feasible
  <2> QED BY <2>1, <2>2
<1>4. ASSUME NEW k \in Nat, k \in Short PROVE k + 1 \in Short
  <2> SUFFICES ASSUME k + 1 <= N, NEW v \in U PROVE P[v] <= S[k + 1][v]
    OBVIOUS
  <2>1. k \in 0 .. N - 1 /\ k \in 0 .. N /\ \A u \in U : P[u] <= S[k][u]
    BY <1>1, <1>4
  <2>2. CASE S[k + 1][v] = S[k][v]
    BY <2>1, <2>2
  <2>3. CASE \E e \in G : e[2] = v /\ S[k][e[1]] # far /\ S[k + 1][v] = S[k][e[1]] + e[3]
    <3>1. PICK e \in G : e[2] = v /\ S[k][e[1]] # far /\ S[k + 1][v] = S[k][e[1]] + e[3]
      BY <2>3
    <3>2. e[1] \in U /\ P[e[1]] <= S[k][e[1]] /\ P[e[1]] \in Int /\ S[k][e[1]] \in Int /\ S[k][e[1]] <= far
          /\ e[3] \in Int /\ P[v] \in Int
      BY <1>1, <1>2, <2>1
    <3>3. P[e[1]] # far
      BY <1>1, <3>1, <3>2
    <3>4. P[v] <= P[e[1]] + e[3]
      BY <3>1, <3>3 DEF Feasible
    <3> QED BY <3>1, <3>2, <3>4
  <2> QED BY <2>1, <2>2, <2>3 DEF Walks
<1>5. \A k \in Nat : k \in Short
  <2> HIDE DEF Short
  <2> QED BY <1>3, <1>4, SetInduction
<1> QED BY <1>1, <1>5

\* Where there are such lengths no walk of n edges is shorter than those of fewer: the
\* edges back from a vertex it is shorter for would lead to n + 1 different ones.
LEMMA FeasibleStops ==
  ASSUME NEW G, NEW U, NEW N, NEW far, WalksOn(G, U, N, far), NEW S, Walks(G, U, N, far, S),
         NEW P, Feasible(G, U, far, P), Cardinality(U) = N
  PROVE  S[N] = S[N - 1]
<1>1. /\ N \in Nat \ {0} /\ start \in U /\ far \in Nat \ {0} /\ \A v \in U : P[v] \in Int /\ P[v] <= far
      /\ \A e \in G : e[1] \in U /\ e[2] \in U /\ e[3] \in Int
  BY DEF WalksOn, Feasible
<1>2. \A k \in 0 .. N : \A v \in U : S[k][v] \in Int /\ S[k][v] <= far /\ P[v] <= S[k][v]
  BY WalksBounds, FeasibleIsShort
<1>3. \A j \in 0 .. N : \A i \in 0 .. j : \A v \in U : S[j][v] <= S[i][v]
  BY WalksBounds
<1>4. N \in 0 .. N /\ N - 1 \in 0 .. N /\ \A k \in 0 .. N - 1 : k \in 0 .. N /\ k + 1 \in 0 .. N
  BY <1>1
<1> SUFFICES ASSUME NEW v \in U, S[N][v] # S[N - 1][v] PROVE FALSE
  <2>1. S[N] \in [U -> Int] /\ S[N - 1] \in [U -> Int]
    BY <1>4 DEF Walks
  <2> QED BY <2>1
<1> DEFINE Over(c, i) == S[i][c[i]] - P[c[i]]
           Chain(c, a) == /\ c \in [a .. N -> U]
                          /\ \A i \in a .. N : i # 0 => S[i][c[i]] < S[i - 1][c[i]]
                          /\ \A i, j \in a .. N : i <= j => Over(c, i) <= Over(c, j)
           Back == {k \in Nat : k <= N => \E c : Chain(c, N - k)}
<1>5. 0 \in Back
  <2> DEFINE c == [i \in N - 0 .. N |-> v]
  <2>1. S[N][v] < S[N - 1][v]
    <3>1. N - 1 \in 0 .. N
      BY <1>1
    <3> QED BY <1>2, <1>3, <1>4, <3>1
  <2>2. \A i \in N - 0 .. N : i = N /\ c[i] = v
    BY <1>1
  <2>3. c \in [N - 0 .. N -> U]
    OBVIOUS
  <2>4. S[N][v] - P[v] <= S[N][v] - P[v]
    BY <1>1, <1>2, <1>4
  <2> HIDE DEF c
  <2>5. Chain(c, N - 0)
    BY <2>1, <2>2, <2>3, <2>4
  <2> QED BY <2>5
<1>6. ASSUME NEW k \in Nat, k \in Back PROVE k + 1 \in Back
  <2> SUFFICES ASSUME k + 1 <= N PROVE \E c : Chain(c, N - (k + 1))
    OBVIOUS
  <2>1. PICK c : Chain(c, N - k)
    BY <1>1, <1>6
  <2> DEFINE a == N - k
  <2>2. /\ a \in 0 .. N /\ a # 0 /\ a - 1 \in 0 .. N - 1 /\ a - 1 \in 0 .. N /\ N - (k + 1) = a - 1
        /\ a \in a .. N /\ (a - 1) + 1 = a
    BY <1>1
  <2>3. c[a] \in U /\ S[a][c[a]] < S[a - 1][c[a]] /\ S[a][c[a]] \in Int /\ S[a - 1][c[a]] \in Int
    BY <1>2, <2>1, <2>2
  <2> HIDE DEF a
  <2>4. PICK e \in G : e[2] = c[a] /\ S[a - 1][e[1]] # far /\ S[a][c[a]] = S[a - 1][e[1]] + e[3]
    <3>1. \/ S[(a - 1) + 1][c[a]] = S[a - 1][c[a]]
          \/ \E e \in G : /\ e[2] = c[a] /\ S[a - 1][e[1]] # far
                          /\ S[(a - 1) + 1][c[a]] = S[a - 1][e[1]] + e[3]
      BY <2>2, <2>3 DEF Walks
    <3> QED BY <2>2, <2>3, <3>1
  <2> DEFINE u == e[1]
             d == [i \in a - 1 .. N |-> IF i = a - 1 THEN u ELSE c[i]]
  <2>5. u \in U /\ e[3] \in Int /\ S[a - 1][u] \in Int /\ S[a - 1][u] <= far /\ P[u] <= S[a - 1][u] /\ P[u] \in Int
    BY <1>1, <1>2, <2>2
  <2>6. a - 1 # 0 => S[a - 1][u] < S[a - 2][u]
    <3> SUFFICES ASSUME a - 1 # 0, ~(S[a - 1][u] < S[a - 2][u]) PROVE FALSE
      OBVIOUS
    <3>1. a - 2 \in 0 .. N - 1 /\ a - 2 \in 0 .. N /\ (a - 2) + 1 = a - 1 /\ a - 2 \in 0 .. a - 1
      BY <1>1, <2>2
    <3>2. S[a - 2][u] \in Int /\ S[a - 1][u] <= S[a - 2][u]
      BY <1>2, <1>3, <2>2, <2>5, <3>1
    <3>3. S[a - 2][u] = S[a - 1][u]
      BY <2>5, <3>2
    <3>4. S[(a - 2) + 1][e[2]] <= S[a - 2][u] + e[3]
      BY <2>4, <3>1, <3>3 DEF Walks
    <3> QED BY <2>3, <2>4, <3>1, <3>3, <3>4
  <2>7. S[a - 1][u] - P[u] <= Over(c, a)
    <3>1. P[u] # far
      BY <1>1, <2>4, <2>5
    <3>2. P[c[a]] <= P[u] + e[3]
      BY <2>4, <3>1 DEF Feasible
    <3>3. P[c[a]] \in Int
      BY <1>1, <2>3
    <3> QED BY <2>3, <2>4, <2>5, <3>2, <3>3
  <2>8. \A i \in a - 1 .. N : (i = a - 1 /\ d[i] = u) \/ (i \in a .. N /\ i # a - 1 /\ d[i] = c[i])
    BY <2>2
  <2>9. d \in [a - 1 .. N -> U]
    BY <2>1, <2>2, <2>5, <2>8 DEF a
  <2> HIDE DEF d, u
  <2>10. \A i \in a - 1 .. N : i # 0 => S[i][d[i]] < S[i - 1][d[i]]
    <3>1. a - 1 # 0 => S[a - 1][u] < S[(a - 1) - 1][u]
      BY <2>2, <2>6
    <3>2. \A i \in a .. N : i # 0 => S[i][c[i]] < S[i - 1][c[i]]
      BY <2>1 DEF a
    <3> QED BY <2>8, <3>1, <3>2
  <2>11. ASSUME NEW i \in a - 1 .. N, NEW j \in a - 1 .. N, i <= j PROVE Over(d, i) <= Over(d, j)
    <3>1. \A x \in a .. N : Over(d, x) = Over(c, x) /\ Over(c, x) \in Int
      <4> TAKE x \in a .. N
      <4>1. x \in a - 1 .. N /\ x # a - 1 /\ x \in 0 .. N
        BY <1>1, <2>2
      <4>2. d[x] = c[x] /\ c[x] \in U
        BY <2>1, <2>8, <4>1 DEF a
      <4>3. S[x][c[x]] \in Int /\ P[c[x]] \in Int
        BY <1>1, <1>2, <4>1, <4>2
      <4> QED BY <4>2, <4>3
    <3>2. Over(d, a - 1) = S[a - 1][u] - P[u] /\ Over(d, a - 1) \in Int
      <4>1. d[a - 1] = u
        BY <1>1, <2>2, <2>8
      <4> QED BY <2>5, <4>1
    <3>3. \A x, y \in a .. N : x <= y => Over(c, x) <= Over(c, y)
      BY <2>1 DEF a
    <3> HIDE DEF Over
    <3>4. CASE i = a - 1 /\ j = a - 1
      BY <3>2, <3>4
    <3>5. CASE i = a - 1 /\ j \in a .. N
      <4>1. a \in a .. N /\ a <= j
        BY <1>1, <2>2, <3>5
      <4> QED BY <2>7, <3>1, <3>2, <3>3, <3>5, <4>1
    <3>6. CASE i \in a .. N
      <4>1. j \in a .. N
        BY <1>1, <2>2, <2>11, <3>6
      <4> QED BY <2>11, <3>1, <3>3, <3>6, <4>1
    <3> QED BY <2>8, <3>4, <3>5, <3>6
  <2>12. Chain(d, a - 1)
    BY <2>9, <2>10, <2>11
  <2> HIDE DEF Chain
  <2> QED BY <2>2, <2>12
<1>7. PICK c : Chain(c, 0)
  <2> HIDE DEF Back, Chain
  <2>1. N \in Back /\ N - N = 0
    BY <1>1, <1>5, <1>6, SetInduction
  <2> QED BY <1>1, <2>1 DEF Back
<1>8. PICK x \in 0 .. N, y \in 0 .. N : x # y /\ c[x] = c[y]
  <2>1. IsFiniteSet(0 .. N) /\ Cardinality(0 .. N) = N + 1
    BY <1>1, FS_Interval
  <2>2. IsFiniteSet(U) /\ Cardinality(U) < Cardinality(0 .. N)
    BY <1>1, <2>1 DEF WalksOn
  <2>3. c \in [0 .. N -> U]
    BY <1>7
  <2> DEFINE I == 0 .. N
  <2>4. IsFiniteSet(I) /\ IsFiniteSet(U) /\ Cardinality(U) < Cardinality(I) /\ c \in [I -> U]
    BY <2>1, <2>2, <2>3
  <2> HIDE DEF I
  <2>5. \E x \in I, y \in I : x # y /\ c[x] = c[y]
    BY <2>4, FS_PigeonHole
  <2> QED BY <2>5 DEF I
<1>9. ASSUME NEW i \in 0 .. N, NEW j \in 0 .. N, i < j, c[i] = c[j] PROVE FALSE
  <2>1. c[j] \in U /\ S[j][c[j]] < S[j - 1][c[j]] /\ Over(c, i) <= Over(c, j)
    BY <1>1, <1>7, <1>9
  <2>2. j - 1 \in 0 .. N /\ i \in 0 .. j - 1
    BY <1>1, <1>9
  <2>3. S[j - 1][c[j]] <= S[i][c[j]]
    BY <1>3, <2>1, <2>2
  <2>4. S[j][c[j]] \in Int /\ S[j - 1][c[j]] \in Int /\ S[i][c[j]] \in Int /\ P[c[j]] \in Int
    BY <1>1, <1>2, <2>1, <2>2
  <2> QED BY <1>9, <2>1, <2>3, <2>4
<1> QED BY <1>8, <1>9

\* What the inputs give the proofs below.
LEMMA InputsAre ==
  ASSUME BF!InputsOK
  PROVE  /\ start \in BFVerts /\ Inf \in Nat \ {0} /\ IsFiniteSet(BFVerts)
         /\ BF!nv = Cardinality(BFVerts) /\ BF!nv \in Nat \ {0}
         /\ \A G \in BFGraphs : WalksOn(G, BFVerts, BF!nv, Inf)
         /\ \A G \in BFGraphs : /\ IsFiniteSet(G) /\ G \subseteq BFVerts \X BFVerts \X Int
                              /\ \A e \in G : e[1] \in BFVerts /\ e[2] \in BFVerts /\ e[3] \in Int
<1>1. start \in BFVerts /\ Inf \in Nat \ {0} /\ \A G \in BFGraphs : G \subseteq BFVerts \X BFVerts \X Int
  BY DEF BF!InputsOK
<1>2. IsFiniteSet(BFVerts) /\ \A G \in BFGraphs : IsFiniteSet(G)
  BY DEF BF!InputsOK, BF!IsFiniteSet, IsFiniteSet
<1>3. BF!nv = Cardinality(BFVerts)
  BY DEF BF!nv, BF!Cardinality, Cardinality
<1>4. Cardinality(BFVerts) \in Nat /\ Cardinality(BFVerts) # 0
  BY <1>1, <1>2, FS_CardinalityType, FS_EmptySet
<1> QED BY <1>1, <1>2, <1>3, <1>4 DEF WalksOn
-----------------------------------------------------------------------------
(* The distances, for every finite weighted graph and every interleaving.  *)
(* After round rounds no distance is longer than the shortest walk of that *)
(* many edges: an edge that would have to lower its target for that in the *)
(* next round is still to be taken, or under way with a distance low       *)
(* enough.  And where no cycle is negative no distance, written or held by *)
(* a call, is shorter than a shortest walk; so the round n - 1 lowers      *)
(* nothing, and a frontier after n rounds means a negative cycle.          *)
Negative(S) == S[BF!nv] # S[BF!nv - 1]

Within == stage # "done" =>
  /\ todo \subseteq BF!OutOf(Frontier)
  /\ ShortestPathLen[start] <= 0 /\ \A v \in BFVerts : ShortestPathLen[v] <= Inf
  /\ \A v \in BFVerts : v \in Frontier \/ (stage = "map" /\ Lowered(v)) => ShortestPathLen[v] < Inf

Walked(S, e) == LET len == S[turn][e[1]] + e[3] IN
  \/ S[turn][e[1]] = Inf
  \/ e \in todo
  \/ e \in DOMAIN regs /\ regs[e].at = "min" /\ regs[e].dist <= len
  \/ ShortestPathLen[e[2]] <= len

Fast(S) == /\ turn \in 0 .. BF!nv /\ (stage = "map" => turn < BF!nv)
           /\ stage # "done" => \A v \in BFVerts : ShortestPathLen[v] <= S[turn][v]
           /\ stage = "map" => \A e \in GA : Walked(S, e)

Exact(S) ==
  /\ stage = "done" => Negative(S) /\ ShortestPathLen = [v \in BFVerts |-> -Inf]
  /\ stage # "done" /\ ~Negative(S) =>
       /\ \A v \in BFVerts : S[BF!nv - 1][v] <= ShortestPathLen[v]
       /\ \A e \in DOMAIN regs : regs[e].at = "min" => S[BF!nv - 1][e[2]] <= regs[e].dist
       /\ stage = "map" /\ turn = BF!nv - 1 => out = {} /\ \A e \in DOMAIN regs : regs[e].at # "mark"
       /\ stage = "loop" /\ turn = BF!nv => Frontier = {}

Measures(S) == BFInv /\ Walks(GA, BFVerts, BF!nv, Inf, S) /\ Within /\ Fast(S) /\ Exact(S)
DistInv == GA \in BFGraphs /\ \E S : S = ShortestIn(GA, BFVerts, BF!nv, Inf) /\ Measures(S)

\* Without a negative cycle the last rows are lengths that no edge can lower.
LEMMA ShortestIsFeasible ==
  ASSUME BF!InputsOK, NEW G \in BFGraphs, NEW S, Walks(G, BFVerts, BF!nv, Inf, S), ~Negative(S)
  PROVE  Feasible(G, BFVerts, Inf, S[BF!nv - 1])
<1>1. BF!nv \in Nat \ {0} /\ BF!nv - 1 \in 0 .. BF!nv /\ BF!nv - 1 \in 0 .. BF!nv - 1 /\ (BF!nv - 1) + 1 = BF!nv
  BY InputsAre
<1>2. S[BF!nv] = S[BF!nv - 1]
  BY DEF Negative
<1>3. \A e \in G : S[BF!nv - 1][e[1]] # Inf => S[BF!nv - 1][e[2]] <= S[BF!nv - 1][e[1]] + e[3]
  <2>1. \A e \in G : S[BF!nv - 1][e[1]] # Inf => S[(BF!nv - 1) + 1][e[2]] <= S[BF!nv - 1][e[1]] + e[3]
    BY <1>1 DEF Walks
  <2> QED BY <1>1, <1>2, <2>1
<1> QED BY <1>1, <1>3, InputsAre, WalksBounds DEF Feasible

\* What a state of the search and its graph hold.
LEMMA RowFacts ==
  ASSUME BF!InputsOK, GA \in BFGraphs, NEW S, Measures(S)
  PROVE  /\ start \in BFVerts /\ Inf \in Nat \ {0} /\ BF!nv \in Nat \ {0} /\ turn \in 0 .. BF!nv
         /\ \A e \in GA : e[1] \in BFVerts /\ e[2] \in BFVerts /\ e[3] \in Int
         /\ \A k \in 0 .. BF!nv : \A v \in BFVerts : S[k][v] \in Int /\ S[k][v] <= Inf
         /\ \A v \in BFVerts : ShortestPathLen[v] \in Int /\ S[turn][v] \in Int /\ S[turn][v] <= Inf
                           /\ S[BF!nv - 1][v] \in Int /\ S[BF!nv - 1][v] <= Inf
         /\ \A e \in DOMAIN regs : e \in GA /\ regs[e].dist \in Int
<1>1. /\ start \in BFVerts /\ Inf \in Nat \ {0} /\ BF!nv \in Nat \ {0} /\ BF!nv - 1 \in 0 .. BF!nv
      /\ \A e \in GA : e[1] \in BFVerts /\ e[2] \in BFVerts /\ e[3] \in Int
  BY InputsAre
<1>2. \A k \in 0 .. BF!nv : \A v \in BFVerts : S[k][v] \in Int /\ S[k][v] <= Inf
  BY InputsAre, WalksBounds DEF Measures
<1>3. turn \in 0 .. BF!nv
  BY DEF Measures, Fast
<1>4. (\A v \in BFVerts : ShortestPathLen[v] \in Int) /\ \A e \in DOMAIN regs : e \in GA /\ regs[e].dist \in Int
  BY DEF Measures, BFInv, BFType, RegsOK
<1> QED BY <1>1, <1>2, <1>3, <1>4

\* At the beginning only the start has a distance, that of the walk of no edges.
LEMMA InitMeasures ==
  ASSUME BF!InputsOK, BF!Init, NEW S, Walks(GA, BFVerts, BF!nv, Inf, S)
  PROVE  Measures(S)
<1>1. BFInv /\ GA \in BFGraphs /\ BF!nv \in Nat \ {0} /\ Inf \in Nat \ {0} /\ start \in BFVerts
  BY InitBFInv, InputsAre DEF BF!Init
<1>2. /\ stage = "loop" /\ Frontier = {start} /\ turn = 0 /\ todo = {} /\ regs = <<>>
      /\ ShortestPathLen = [v \in BFVerts |-> IF v = start THEN 0 ELSE Inf]
      /\ S[0] = ShortestPathLen /\ \A v \in BFVerts : ShortestPathLen[v] \in Int
  BY <1>1 DEF BF!Init, BF!NoCall, Walks
<1>3. Within
  BY <1>1, <1>2 DEF Within
<1>4. Fast(S)
  BY <1>1, <1>2 DEF Fast
<1>5. \A v \in BFVerts : S[BF!nv - 1][v] <= ShortestPathLen[v]
  <2>1. BF!nv - 1 \in 0 .. BF!nv /\ 0 \in 0 .. BF!nv - 1
    BY <1>1
  <2> QED BY <1>1, <1>2, <2>1, InputsAre, WalksBounds
<1>6. Exact(S)
  <2>1. DOMAIN regs = {}
    BY <1>2
  <2> QED BY <1>1, <1>2, <1>5, <2>1 DEF Exact
<1> QED BY <1>1, <1>3, <1>4, <1>6 DEF Measures

\* Without a negative cycle there is no frontier after n rounds.
LEMMA NegativeCycleMeasures ==
  ASSUME BF!InputsOK, GA \in BFGraphs, NEW S, Measures(S), BF!NegativeCycle
  PROVE  Within' /\ Fast(S)' /\ Exact(S)'
<1>1. /\ stage = "loop" /\ Frontier # {} /\ turn = BF!nv /\ turn' = turn
      /\ stage' = "done" /\ ShortestPathLen' = [v \in BFVerts |-> -Inf]
  BY DEF BF!NegativeCycle
<1>2. Negative(S)
  BY <1>1 DEF Measures, Exact
<1>3. turn \in 0 .. BF!nv
  BY RowFacts
<1> QED BY <1>1, <1>2, <1>3 DEF Within, Fast, Exact

\* A round begins: every edge out of the frontier is to be taken.
LEMMA CallMeasures ==
  ASSUME BF!InputsOK, GA \in BFGraphs, NEW S, Measures(S), BF!Call
  PROVE  Within' /\ Fast(S)' /\ Exact(S)'
<1>1. /\ stage = "loop" /\ stage' = "map" /\ todo' = BF!OutOf(Frontier) /\ regs' = <<>> /\ out' = {}
      /\ GA' = GA /\ Frontier' = Frontier /\ turn' = turn /\ turn # BF!nv
      /\ ShortestPathLen' = ShortestPathLen
  BY DEF BF!Call, BF!Begin, BF!bfVars
<1>2. /\ BF!nv \in Nat \ {0} /\ turn \in 0 .. BF!nv /\ DOMAIN regs' = {}
      /\ \A e \in GA : e[1] \in BFVerts /\ e[2] \in BFVerts /\ e[3] \in Int
      /\ \A v \in BFVerts : ShortestPathLen[v] \in Int /\ S[turn][v] \in Int /\ S[turn][v] <= Inf
      /\ Inf \in Int
  BY <1>1, RowFacts
<1>3. /\ \A v \in BFVerts : ShortestPathLen[v] <= Inf /\ ShortestPathLen[v] <= S[turn][v]
      /\ \A v \in BFVerts : v \in Frontier => ShortestPathLen[v] < Inf
      /\ ShortestPathLen[start] <= 0
  BY <1>1 DEF Measures, Within, Fast
<1>4. Within'
  BY <1>1, <1>2, <1>3 DEF Within, Lowered, Marking, BF!OutOf
<1>5. ASSUME NEW e \in GA PROVE Walked(S, e)'
  <2>1. e[1] \in BFVerts /\ e[2] \in BFVerts /\ e[3] \in Int /\ ShortestPathLen[e[1]] <= S[turn][e[1]]
        /\ ShortestPathLen[e[1]] \in Int /\ S[turn][e[1]] \in Int /\ S[turn][e[1]] <= Inf
        /\ ShortestPathLen[e[2]] \in Int
    BY <1>2, <1>3
  <2>2. \/ ShortestPathLen[e[1]] = Inf \/ e[1] \in Frontier
        \/ ShortestPathLen[e[2]] <= ShortestPathLen[e[1]] + e[3]
    BY <1>1 DEF Measures, BFInv, BF!NothingIsLost
  <2>3. CASE ShortestPathLen[e[1]] = Inf
    <3>1. S[turn][e[1]] = Inf
      BY <1>2, <2>1, <2>3
    <3> QED BY <1>1, <3>1 DEF Walked
  <2>4. CASE e[1] \in Frontier
    BY <1>1, <2>4 DEF Walked, BF!OutOf
  <2>5. CASE ShortestPathLen[e[2]] <= ShortestPathLen[e[1]] + e[3]
    BY <1>1, <2>1, <2>5 DEF Walked
  <2> QED BY <2>2, <2>3, <2>4, <2>5
<1>6. Fast(S)'
  BY <1>1, <1>2, <1>3, <1>5 DEF Fast
<1>7. Exact(S)'
  BY <1>1, <1>2 DEF Measures, Exact
<1> QED BY <1>4, <1>6, <1>7

\* A round without calls under way has walked one edge further.
LEMMA ReturnMeasures ==
  ASSUME BF!InputsOK, GA \in BFGraphs, NEW S, Measures(S), BF!Return
  PROVE  Within' /\ Fast(S)' /\ Exact(S)'
<1>1. /\ stage = "map" /\ stage' = "loop" /\ todo = {} /\ DOMAIN regs = {}
      /\ todo' = todo /\ regs' = regs /\ out' = out /\ GA' = GA /\ Frontier' = out /\ turn' = turn + 1
      /\ ShortestPathLen' = ShortestPathLen
  BY DEF BF!Return, BF!Returned, BF!callVars
<1>2. /\ BF!nv \in Nat \ {0} /\ turn \in 0 .. BF!nv - 1
      /\ \A v \in BFVerts : ShortestPathLen[v] <= S[turn][v]
      /\ \A e \in GA : \/ S[turn][e[1]] = Inf \/ ShortestPathLen[e[2]] <= S[turn][e[1]] + e[3]
  BY <1>1, RowFacts DEF Measures, Fast, Walked
<1>3. Within'
  BY <1>1 DEF Measures, Within, Lowered
<1>4. \A v \in BFVerts : ShortestPathLen[v] <= S[turn + 1][v]
  <2> SUFFICES ASSUME NEW v \in BFVerts PROVE ShortestPathLen[v] <= S[turn + 1][v]
    OBVIOUS
  <2>1. \/ S[turn + 1][v] = S[turn][v]
        \/ \E e \in GA : e[2] = v /\ S[turn][e[1]] # Inf /\ S[turn + 1][v] = S[turn][e[1]] + e[3]
    BY <1>2 DEF Measures, Walks
  <2> QED BY <1>2, <2>1
<1>5. Fast(S)'
  BY <1>1, <1>2, <1>4 DEF Fast
<1>6. Exact(S)'
  BY <1>1, <1>2 DEF Measures, Exact
<1> QED BY <1>3, <1>5, <1>6

\* What a worker reads is the length of a walk to the edge's source, plus the edge.
LEMMA ReadDistMeasures ==
  ASSUME BF!InputsOK, GA \in BFGraphs, NEW S, Measures(S), NEW e \in todo, BF!ReadDist(e)
  PROVE  Within' /\ Fast(S)' /\ Exact(S)'
<1>1. /\ stage = "map" /\ stage' = stage /\ GA' = GA /\ Frontier' = Frontier /\ out' = out /\ turn' = turn
      /\ ShortestPathLen' = ShortestPathLen
      /\ todo' = todo \ {e} /\ DOMAIN regs' = DOMAIN regs \cup {e}
      /\ regs'[e] = [at |-> "min", dist |-> ShortestPathLen[e[1]] + e[3]]
      /\ \A x \in DOMAIN regs : x # e /\ regs'[x] = regs[x]
  BY DEF BF!ReadDist, BF!Enter, BF!mainVars, BF!bfVars, Measures, BFInv, BFType
<1>2. /\ e \in GA /\ e[1] \in BFVerts /\ e[2] \in BFVerts /\ e[3] \in Int /\ e[1] \in Frontier /\ Inf \in Int
      /\ ShortestPathLen[e[1]] \in Int /\ S[turn][e[1]] \in Int /\ S[BF!nv - 1][e[1]] \in Int
      /\ S[BF!nv - 1][e[2]] \in Int /\ ShortestPathLen[e[1]] <= S[turn][e[1]] /\ ShortestPathLen[e[1]] < Inf
  <2>1. e \in GA /\ e \in BF!OutOf(Frontier)
    BY <1>1 DEF Measures, Within, BFInv, BFType
  <2>2. e[1] \in BFVerts /\ e[2] \in BFVerts /\ e[1] \in Frontier
    BY <2>1, RowFacts DEF BF!OutOf
  <2> QED BY <1>1, <2>1, <2>2, RowFacts DEF Measures, Within, Fast
<1>3. Within'
  <2>1. \A v \in BFVerts : Lowered(v)' => Lowered(v)
    BY <1>1 DEF Lowered, Marking
  <2> QED BY <1>1, <2>1 DEF Measures, Within, BF!OutOf
<1>4. ASSUME NEW x \in GA PROVE Walked(S, x)'
  <2>1. Walked(S, x)
    BY <1>1 DEF Measures, Fast
  <2>2. CASE x = e
    BY <1>1, <1>2, <2>2 DEF Walked
  <2>3. CASE x # e
    BY <1>1, <2>1, <2>3 DEF Walked
  <2> QED BY <2>2, <2>3
<1>5. Fast(S)'
  BY <1>1, <1>4 DEF Measures, Fast
<1>6. ~Negative(S) => S[BF!nv - 1][e[2]] <= ShortestPathLen[e[1]] + e[3]
  <2> SUFFICES ASSUME ~Negative(S) PROVE S[BF!nv - 1][e[2]] <= ShortestPathLen[e[1]] + e[3]
    OBVIOUS
  <2>1. S[BF!nv - 1][e[1]] <= ShortestPathLen[e[1]]
    BY <1>1, <1>2 DEF Measures, Exact
  <2>2. S[BF!nv - 1][e[1]] # Inf
    BY <1>2, <2>1
  <2>3. S[BF!nv - 1][e[2]] <= S[BF!nv - 1][e[1]] + e[3]
    BY <1>2, <2>2, ShortestIsFeasible DEF Measures, Feasible
  <2> QED BY <1>2, <2>1, <2>3
<1>7. Exact(S)'
  <2>1. \A x \in DOMAIN regs' : x = e \/ (x \in DOMAIN regs /\ regs'[x] = regs[x])
    BY <1>1
  <2> QED BY <1>1, <1>6, <2>1 DEF Measures, Exact
<1> QED BY <1>3, <1>5, <1>7

\* writeMin brings a target down to the length of a walk, and none below it.
LEMMA WriteMinDistMeasures ==
  ASSUME BF!InputsOK, GA \in BFGraphs, NEW S, Measures(S), NEW e \in DOMAIN regs, BF!WriteMinDist(e)
  PROVE  Within' /\ Fast(S)' /\ Exact(S)'
<1>1. /\ stage = "map" /\ regs[e].at = "min" /\ GA' = GA /\ stage' = stage /\ Frontier' = Frontier
      /\ todo' = todo /\ turn' = turn
  BY DEF BF!WriteMinDist, BF!mainVars, BF!Local, BF!Answer, Measures, BFInv, BFType
<1>2. /\ e \in GA /\ e[2] \in BFVerts /\ regs[e].dist \in Int /\ ShortestPathLen \in [BFVerts -> Int]
      /\ \A x \in GA : x[1] \in BFVerts /\ x[2] \in BFVerts /\ x[3] \in Int
      /\ \A v \in BFVerts : ShortestPathLen[v] \in Int /\ S[turn][v] \in Int /\ S[BF!nv - 1][v] \in Int
      /\ start \in BFVerts /\ Inf \in Int
  BY RowFacts DEF Measures, BFInv, BFType
<1>3. /\ todo \subseteq BF!OutOf(Frontier)
      /\ ShortestPathLen[start] <= 0 /\ \A v \in BFVerts : ShortestPathLen[v] <= Inf
      /\ \A v \in BFVerts : v \in Frontier \/ Lowered(v) => ShortestPathLen[v] < Inf
      /\ \A v \in BFVerts : ShortestPathLen[v] <= S[turn][v]
      /\ \A x \in GA : Walked(S, x)
  BY <1>1 DEF Measures, Within, Fast
<1>4. CASE regs[e].dist < ShortestPathLen[e[2]]
  <2>1. /\ ShortestPathLen' = [ShortestPathLen EXCEPT ![e[2]] = regs[e].dist]
        /\ regs' = [regs EXCEPT ![e] = [regs[e] EXCEPT !.at = "mark"]] /\ out' = out
    BY <1>4 DEF BF!WriteMinDist, BF!Local
  <2>2. DOMAIN regs' = DOMAIN regs /\ regs'[e].at = "mark"
        /\ \A x \in DOMAIN regs : x # e => regs'[x] = regs[x]
    BY <2>1 DEF Measures, BFInv, BFType, RegsOK
  <2>3. /\ ShortestPathLen'[e[2]] = regs[e].dist
        /\ \A v \in BFVerts : /\ v # e[2] => ShortestPathLen'[v] = ShortestPathLen[v]
                          /\ ShortestPathLen'[v] <= ShortestPathLen[v] /\ ShortestPathLen'[v] \in Int
    BY <1>2, <1>4, <2>1
  <2>4. \A v \in BFVerts : Lowered(v)' => Lowered(v) \/ v = e[2]
    BY <2>1, <2>2 DEF Lowered, Marking
  <2>5. Within'
    <3>1. ShortestPathLen'[start] <= 0 /\ \A v \in BFVerts : ShortestPathLen'[v] <= Inf
      BY <1>2, <1>3, <2>3
    <3>2. \A v \in BFVerts : v \in Frontier \/ Lowered(v)' => ShortestPathLen'[v] < Inf
      <4> SUFFICES ASSUME NEW v \in BFVerts, v \in Frontier \/ Lowered(v)' PROVE ShortestPathLen'[v] < Inf
        OBVIOUS
      <4>1. CASE v = e[2]
        BY <1>2, <1>3, <1>4, <2>3, <4>1
      <4>2. CASE v # e[2]
        BY <1>2, <1>3, <2>3, <2>4, <4>2
      <4> QED BY <4>1, <4>2
    <3> QED BY <1>1, <1>3, <3>1, <3>2 DEF Within, BF!OutOf
  <2>6. ASSUME NEW x \in GA PROVE Walked(S, x)'
    <3>1. x[1] \in BFVerts /\ x[2] \in BFVerts /\ x[3] \in Int /\ Walked(S, x) /\ S[turn][x[1]] \in Int
          /\ ShortestPathLen'[x[2]] <= ShortestPathLen[x[2]]
          /\ ShortestPathLen'[x[2]] \in Int /\ ShortestPathLen[x[2]] \in Int
      BY <1>2, <1>3, <2>3
    <3>2. CASE x = e
      BY <1>1, <1>2, <2>3, <3>1, <3>2 DEF Walked
    <3>3. CASE x # e
      BY <1>1, <2>2, <3>1, <3>3 DEF Walked
    <3> QED BY <3>2, <3>3
  <2>7. Fast(S)'
    <3>1. \A v \in BFVerts : ShortestPathLen'[v] <= S[turn][v]
      BY <1>2, <1>3, <2>3
    <3> QED BY <1>1, <2>6, <3>1 DEF Measures, Fast
  <2>8. Exact(S)'
    <3> SUFFICES ASSUME ~Negative(S)
                 PROVE  /\ \A v \in BFVerts : S[BF!nv - 1][v] <= ShortestPathLen'[v]
                        /\ \A x \in DOMAIN regs' : regs'[x].at = "min" => S[BF!nv - 1][x[2]] <= regs'[x].dist
                        /\ turn # BF!nv - 1
      BY <1>1 DEF Exact
    <3>1. /\ \A v \in BFVerts : S[BF!nv - 1][v] <= ShortestPathLen[v]
          /\ \A x \in DOMAIN regs : regs[x].at = "min" => S[BF!nv - 1][x[2]] <= regs[x].dist
      BY <1>1 DEF Measures, Exact
    <3>2. S[BF!nv - 1][e[2]] <= regs[e].dist
      BY <1>1, <3>1
    <3>3. turn # BF!nv - 1
      BY <1>2, <1>3, <1>4, <3>2
    <3> QED BY <1>2, <2>2, <2>3, <3>1, <3>2, <3>3
  <2> QED BY <2>5, <2>7, <2>8
<1>5. CASE ~(regs[e].dist < ShortestPathLen[e[2]])
  <2>1. /\ ShortestPathLen' = ShortestPathLen /\ out' = out /\ DOMAIN regs' = DOMAIN regs \ {e}
        /\ \A x \in DOMAIN regs' : regs'[x] = regs[x]
    BY <1>5 DEF BF!WriteMinDist, BF!Answer
  <2>2. \A v \in BFVerts : Lowered(v)' => Lowered(v)
    BY <2>1 DEF Lowered, Marking
  <2>3. Within'
    BY <1>1, <1>3, <2>1, <2>2 DEF Within, BF!OutOf
  <2>4. ASSUME NEW x \in GA PROVE Walked(S, x)'
    <3>1. x[1] \in BFVerts /\ x[2] \in BFVerts /\ x[3] \in Int /\ Walked(S, x) /\ S[turn][x[1]] \in Int
          /\ ShortestPathLen[x[2]] \in Int
      BY <1>2, <1>3
    <3>2. CASE x = e
      BY <1>1, <1>2, <1>5, <2>1, <3>1, <3>2 DEF Walked
    <3>3. CASE x # e
      BY <1>1, <2>1, <3>1, <3>3 DEF Walked
    <3> QED BY <3>2, <3>3
  <2>5. Fast(S)'
    BY <1>1, <2>1, <2>4 DEF Measures, Fast
  <2>6. Exact(S)'
    BY <1>1, <2>1 DEF Measures, Exact
  <2> QED BY <2>3, <2>5, <2>6
<1> QED BY <1>4, <1>5

\* The CAS on Visited touches no distance.
LEMMA MarkVisitedMeasures ==
  ASSUME BF!InputsOK, GA \in BFGraphs, NEW S, Measures(S), NEW e \in DOMAIN regs, BF!MarkVisited(e)
  PROVE  Within' /\ Fast(S)' /\ Exact(S)'
<1>1. /\ stage = "map" /\ regs[e].at = "mark" /\ GA' = GA /\ stage' = stage /\ Frontier' = Frontier
      /\ todo' = todo /\ ShortestPathLen' = ShortestPathLen /\ turn' = turn
      /\ DOMAIN regs' = DOMAIN regs \ {e} /\ \A x \in DOMAIN regs' : regs'[x] = regs[x]
      /\ out' \subseteq out \cup {e[2]}
  BY DEF BF!MarkVisited, BF!mainVars, BF!Answer, Measures, BFInv, BFType
<1>2. \A v \in BFVerts : Lowered(v)' => Lowered(v)
  BY <1>1 DEF Lowered, Marking
<1>3. Within'
  BY <1>1, <1>2 DEF Measures, Within, BF!OutOf
<1>4. \A x \in GA : Walked(S, x)'
  BY <1>1 DEF Measures, Fast, Walked
<1>5. Fast(S)'
  BY <1>1, <1>4 DEF Measures, Fast
<1>6. Exact(S)'
  BY <1>1 DEF Measures, Exact
<1> QED BY <1>3, <1>5, <1>6

\* So no step takes a distance off the walks it stands for.
LEMMA StepMeasures ==
  ASSUME BF!InputsOK, GA \in BFGraphs, NEW S, Measures(S), [BF!Next]_(BF!vars)
  PROVE  GA' = GA /\ Measures(S)'
<1>1. BFInv'
  BY BFInvKept DEF Measures
<1>2. GA' = GA
  BY DEF BF!Next, BF!NegativeCycle, BF!Call, BF!Return, BF!ReadDist, BF!WriteMinDist, BF!MarkVisited,
         BF!mainVars, BF!vars
<1>3. Within' /\ Fast(S)' /\ Exact(S)'
  <2>1. CASE BF!NegativeCycle
    BY <2>1, NegativeCycleMeasures
  <2>2. CASE BF!Call
    BY <2>2, CallMeasures
  <2>3. CASE BF!Return
    BY <2>3, ReturnMeasures
  <2>4. CASE \E e \in todo : BF!ReadDist(e)
    BY <2>4, ReadDistMeasures
  <2>5. CASE \E e \in DOMAIN regs : BF!WriteMinDist(e) \/ BF!MarkVisited(e)
    BY <2>5, WriteMinDistMeasures, MarkVisitedMeasures
  <2>6. CASE UNCHANGED BF!vars
    BY <2>6 DEF Measures, Within, Fast, Exact, Walked, Lowered, Marking, BF!OutOf,
                BF!vars, BF!mainVars, BF!callVars, BF!bfVars
  <2> QED BY <2>1, <2>2, <2>3, <2>4, <2>5, <2>6 DEF BF!Next
<1> QED BY <1>1, <1>2, <1>3 DEF Measures, Walks

\* What the frontier has emptied on is feasible, so the distances are the shortest.
LEMMA MeasuredIsShortest ==
  ASSUME BF!InputsOK, GA \in BFGraphs, NEW S, S = ShortestIn(GA, BFVerts, BF!nv, Inf), Measures(S)
  PROVE  BF!DistancesAreShortest
<1>1. BF!Shortest = S /\ (BF!HasNegativeCycle <=> Negative(S))
  BY ShortestOfEdges DEF BF!HasNegativeCycle, Negative
<1>2. CASE stage = "done"
  BY <1>1, <1>2 DEF Measures, Exact, BF!DistancesAreShortest
<1>3. CASE stage = "loop" /\ Frontier = {}
  <2>1. /\ ShortestPathLen \in [BFVerts -> Int] /\ BF!nv - 1 \in 0 .. BF!nv /\ BF!nv \in 0 .. BF!nv
        /\ \A v \in BFVerts : ShortestPathLen[v] \in Int /\ S[BF!nv - 1][v] \in Int
    BY RowFacts DEF Measures, BFInv, BFType
  <2>2. Feasible(GA, BFVerts, Inf, ShortestPathLen)
    BY <1>3, <2>1 DEF Measures, Within, BFInv, BF!NothingIsLost, Feasible
  <2>3. S[BF!nv] = S[BF!nv - 1]
    BY <2>2, InputsAre, FeasibleStops DEF Measures
  <2>4. \A v \in BFVerts : ShortestPathLen[v] <= S[BF!nv - 1][v]
    BY <2>1, <2>2, InputsAre, FeasibleIsShort DEF Measures
  <2>5. \A v \in BFVerts : S[BF!nv - 1][v] <= ShortestPathLen[v]
    BY <1>3, <2>3 DEF Measures, Exact, Negative
  <2>6. S[BF!nv] \in [BFVerts -> Int]
    BY <2>1 DEF Measures, Walks
  <2>7. ShortestPathLen = S[BF!nv]
    <3>1. \A v \in BFVerts : ShortestPathLen[v] = S[BF!nv][v]
      BY <2>1, <2>3, <2>4, <2>5
    <3> QED BY <2>1, <2>6, <3>1
  <2> QED BY <1>1, <2>3, <2>7 DEF BF!DistancesAreShortest, Negative
<1>4. CASE ~BF!Done
  BY <1>4 DEF BF!DistancesAreShortest
<1> QED BY <1>2, <1>3, <1>4 DEF BF!Done

\* When the loop ends the distances are the lengths of the shortest walks, or all minus
\* infinity exactly when a cycle of negative weight is reached: for every finite weighted
\* graph, and however the relaxations of a round overlap.
THEOREM DistancesAreAlwaysShortest == ASSUME BF!InputsOK PROVE BF!Spec => []BF!DistancesAreShortest
<1>1. BF!Init => DistInv
  <2> SUFFICES ASSUME BF!Init PROVE DistInv
    OBVIOUS
  <2>1. GA \in BFGraphs
    BY DEF BF!Init
  <2>2. PICK S : S = ShortestIn(GA, BFVerts, BF!nv, Inf)
    OBVIOUS
  <2>3. Walks(GA, BFVerts, BF!nv, Inf, S)
    BY <2>1, <2>2, InputsAre, ShortestWalks
  <2> QED BY <2>1, <2>2, <2>3, InitMeasures DEF DistInv
<1>2. DistInv /\ [BF!Next]_(BF!vars) => DistInv'
  <2> SUFFICES ASSUME DistInv, [BF!Next]_(BF!vars) PROVE DistInv'
    OBVIOUS
  <2>1. PICK S : S = ShortestIn(GA, BFVerts, BF!nv, Inf) /\ Measures(S)
    BY DEF DistInv
  <2>2. GA' = GA /\ Measures(S)'
    BY <2>1, StepMeasures DEF DistInv
  <2>3. S = ShortestIn(GA', BFVerts, BF!nv, Inf)
    BY <2>1, <2>2
  <2> QED BY <2>2, <2>3 DEF DistInv
<1>3. DistInv => BF!DistancesAreShortest
  BY MeasuredIsShortest DEF DistInv
<1> QED BY <1>1, <1>2, <1>3, PTL DEF BF!Spec

-----------------------------------------------------------------------------
(* Components-Shortcut, for every symmetric graph and every interleaving.  *)
(* In the edgeMap an edge is still to be taken or under way, or its target *)
(* is no higher than its source was when the call began; in the filter a   *)
(* vertex whose ID moved is kept, so what its edges led to then counts.    *)
(* A jump takes an ID of the vertex's own component, and takes it lower,   *)
(* whatever the other workers have done to the IDs it is read from.        *)

Comp(v) == CloseIn(GA, CSVerts, Cardinality(CSVerts))[Cardinality(CSVerts)][v]

CSType == /\ GA \in CSGraphs
          /\ stage \in {"loop", "map", "filter"}
          /\ Frontier \subseteq CSVerts
          /\ IDs \in [CSVerts -> CSVerts] /\ prevIDs \in [CSVerts -> CSVerts]
          /\ stage = "loop" => todo = {} /\ DOMAIN regs = {}
          /\ stage = "map" => todo \subseteq GA /\ DOMAIN regs \subseteq GA
          /\ stage = "filter" => /\ \A e \in todo : e[1] \in CSVerts /\ e = <<e[1], e[1]>>
                                 /\ \A e \in DOMAIN regs : e[1] \in CSVerts /\ e = <<e[1], e[1]>>

OwnID(v) == IDs[v] \in Comp(v) /\ IDs[v] <= v
Follows(e) == IDs[e[2]] <= prevIDs[e[1]]
Untaken(e) == e \in todo \/ e \in DOMAIN regs

InMap == stage = "map" =>
  /\ \A v \in CSVerts : IDs[v] <= prevIDs[v]
  /\ \A e \in DOMAIN regs : regs[e].id \in Comp(e[1]) /\ regs[e].id <= prevIDs[e[1]]
  /\ \A e \in GA : Untaken(e) \/ Follows(e)

InFilter == stage = "filter" =>
  /\ \A v \in CSVerts : IDs[v] <= prevIDs[v]
  /\ \A e \in DOMAIN regs : regs[e].id \in Comp(e[1]) /\ regs[e].id <= IDs[e[1]]
  /\ \A e \in GA : e[1] \in out \/ Follows(e)
  /\ \A v \in CSVerts : Untaken(<<v, v>>) \/ prevIDs[v] = IDs[v]
  /\ out \subseteq CSVerts

CSInv == CSType /\ (\A v \in CSVerts : OwnID(v)) /\ InMap /\ InFilter /\ CS!NothingIsLost

\* What the inputs give, and the model's table as the one above.
LEMMA CSFacts ==
  ASSUME CS!InputsOK, GA \in CSGraphs
  PROVE  /\ CSVerts \subseteq Nat /\ IsFiniteSet(CSVerts)
         /\ GA \subseteq CSVerts \X CSVerts
         /\ \A e \in GA : e[1] \in CSVerts /\ e[2] \in CSVerts
         /\ \A v : CS!Component(v) = Comp(v)
         /\ \A v \in CSVerts : /\ v \in Comp(v) /\ Comp(v) \subseteq CSVerts
                               /\ \A e \in GA : e[1] \in Comp(v) => e[2] \in Comp(v)
                               /\ \A S : v \in S /\ (\A e \in GA : e[1] \in S => e[2] \in S) => Comp(v) \subseteq S
                               /\ \A u \in Comp(v) : Comp(u) = Comp(v)
         /\ \A e \in GA : Comp(e[2]) = Comp(e[1])
<1>1. /\ CSVerts \subseteq Nat /\ IsFiniteSet(CSVerts) /\ GA \subseteq CSVerts \X CSVerts
      /\ \A e \in GA : <<e[2], e[1]>> \in GA
  BY DEF CS!InputsOK, CS!IsFiniteSet, IsFiniteSet
<1>2. \A e \in GA : e[1] \in CSVerts /\ e[2] \in CSVerts
  BY <1>1
<1>3. EdgesOn(GA, CSVerts, Cardinality(CSVerts)) /\ Cardinality(CSVerts) \in Nat
  BY <1>1, <1>2, FS_CardinalityType DEF EdgesOn
<1>4. \A v : CS!Component(v) = Comp(v)
  <2>1. CS!Cardinality(CSVerts) = Cardinality(CSVerts)
    BY DEF CS!Cardinality, Cardinality
  <2>2. CS!Near = CloseIn(GA, CSVerts, Cardinality(CSVerts))
    BY <2>1 DEF CS!Near, CloseIn, CS!OutOf
  <2> QED BY <2>1, <2>2 DEF CS!Component, Comp
<1>5. ASSUME NEW v \in CSVerts
      PROVE  /\ v \in Comp(v) /\ Comp(v) \subseteq CSVerts
             /\ \A e \in GA : e[1] \in Comp(v) => e[2] \in Comp(v)
             /\ \A S : v \in S /\ (\A e \in GA : e[1] \in S => e[2] \in S) => Comp(v) \subseteq S
  BY <1>3, CloseIsClosed DEF Comp
<1>6. ASSUME NEW v \in CSVerts, NEW u \in Comp(v) PROVE Comp(u) = Comp(v)
  BY <1>1, <1>3, ComponentIsOne DEF Comp
<1>7. \A e \in GA : Comp(e[2]) = Comp(e[1])
  BY <1>2, <1>5, <1>6
<1> QED BY <1>1, <1>2, <1>4, <1>5, <1>6, <1>7

LEMMA CSIDs ==
  ASSUME CS!InputsOK, CSInv
  PROVE  /\ \A v \in CSVerts : IDs[v] \in CSVerts /\ prevIDs[v] \in CSVerts /\ IDs[v] <= v
         /\ \A e \in GA : e[1] \in CSVerts /\ e[2] \in CSVerts
         /\ \A v \in CSVerts : v \in Nat
         /\ stage \in {"map", "filter"} =>
              \A e \in DOMAIN regs : regs[e].id \in CSVerts /\ e[1] \in CSVerts /\ e[2] \in CSVerts
<1>1. /\ CSVerts \subseteq Nat /\ \A e \in GA : e[1] \in CSVerts /\ e[2] \in CSVerts
      /\ \A v \in CSVerts : Comp(v) \subseteq CSVerts
  BY CSFacts DEF CSInv, CSType
<1>2. stage = "map" => \A e \in DOMAIN regs : e[1] \in CSVerts /\ e[2] \in CSVerts
  BY <1>1 DEF CSInv, CSType
<1>3. stage = "filter" => \A e \in DOMAIN regs : e[1] \in CSVerts /\ e[2] \in CSVerts
  <2> SUFFICES ASSUME stage = "filter", NEW e \in DOMAIN regs PROVE e[1] \in CSVerts /\ e[2] \in CSVerts
    OBVIOUS
  <2>1. e[1] \in CSVerts /\ e = <<e[1], e[1]>>
    BY DEF CSInv, CSType
  <2>2. e[2] = <<e[1], e[1]>>[2]
    BY <2>1
  <2> QED BY <2>1, <2>2
<1> QED BY <1>1, <1>2, <1>3 DEF CSInv, CSType, InMap, InFilter, OwnID

LEMMA InitCSInv == CS!InputsOK /\ CS!Init => CSInv
<1> SUFFICES ASSUME CS!InputsOK, CS!Init PROVE CSInv
  OBVIOUS
<1>1. /\ GA \in CSGraphs /\ stage = "loop" /\ Frontier = CSVerts /\ todo = {} /\ regs = <<>>
      /\ IDs = [v \in CSVerts |-> v] /\ prevIDs = IDs
  BY DEF CS!Init, CS!NoCall
<1>2. CSType
  BY <1>1 DEF CSType
<1>3. /\ CSVerts \subseteq Nat /\ \A e \in GA : e[1] \in CSVerts /\ e[2] \in CSVerts
      /\ \A v : CS!Component(v) = Comp(v)
      /\ \A v \in CSVerts : v \in Comp(v)
  BY <1>1, CSFacts
<1>4. \A v \in CSVerts : OwnID(v)
  BY <1>1, <1>3 DEF OwnID
<1> QED BY <1>1, <1>2, <1>3, <1>4 DEF CSInv, InMap, InFilter, CS!NothingIsLost, OwnID

\* edgeMap and vertexFilter begin and end
LEMMA LoopKeepsCSInv ==
  ASSUME CS!InputsOK, CSInv, CS!Call \/ CS!Filter \/ CS!NextRound
  PROVE  CSInv'
<1>1. /\ GA' = GA /\ IDs' = IDs /\ prevIDs' = prevIDs
      /\ \A v : Comp(v)' = Comp(v)
  BY DEF CS!Call, CS!Filter, CS!NextRound, CS!ccVars, Comp
<1>2. \A v \in CSVerts : OwnID(v)'
  BY <1>1 DEF CSInv, OwnID
<1>3. CASE CS!Call
  <2>1. /\ stage = "loop" /\ stage' = "map" /\ todo' = {e \in GA : e[1] \in Frontier} /\ regs' = <<>>
        /\ Frontier' = Frontier
    BY <1>3 DEF CS!Call, CS!Begin, CS!OutOf
  <2>2. CSType'
    BY <1>1, <2>1 DEF CSInv, CSType
  <2>3. prevIDs = IDs /\ \A e \in GA : e[1] \in Frontier \/ IDs[e[2]] <= IDs[e[1]]
    BY <2>1 DEF CSInv, CS!NothingIsLost
  <2>4. InMap'
    BY <1>1, <2>1, <2>3, CSIDs DEF InMap, Untaken, Follows
  <2> QED BY <1>2, <2>1, <2>2, <2>4 DEF CSInv, InFilter, CS!NothingIsLost
<1>4. CASE CS!Filter
  <2>1. /\ stage = "map" /\ stage' = "filter" /\ todo = {} /\ DOMAIN regs = {}
        /\ todo' = {<<i, i>> : i \in CSVerts} /\ regs' = <<>> /\ out' = {} /\ Frontier' = Frontier
    BY <1>4 DEF CS!Filter, CS!Begin, CS!Returned
  <2>2. CSType'
    BY <1>1, <2>1 DEF CSInv, CSType
  <2>3. InFilter'
    BY <1>1, <2>1 DEF CSInv, InMap, InFilter, Untaken, Follows
  <2> QED BY <1>2, <2>1, <2>2, <2>3 DEF CSInv, InMap, CS!NothingIsLost
<1>5. CASE CS!NextRound
  <2>1. /\ stage = "filter" /\ stage' = "loop" /\ todo = {} /\ DOMAIN regs = {}
        /\ todo' = todo /\ regs' = regs /\ Frontier' = out
    BY <1>5 DEF CS!NextRound, CS!Returned, CS!callVars
  <2>2. CSType'
    BY <1>1, <2>1 DEF CSInv, CSType, InFilter
  <2>3. /\ \A e \in GA : e[1] \in out \/ IDs[e[2]] <= prevIDs[e[1]]
        /\ \A v \in CSVerts : prevIDs[v] = IDs[v]
    BY <2>1 DEF CSInv, InFilter, Untaken, Follows
  <2>4. prevIDs = IDs
    BY <2>3 DEF CSInv, CSType
  <2>5. \A v : CS!Component(v)' = Comp(v)'
    BY <2>2, CSFacts, <1>1 DEF CSType, CS!Component, CS!Near, CS!OutOf
  <2>6. CS!NothingIsLost'
    BY <1>1, <1>2, <2>1, <2>3, <2>4, <2>5 DEF CS!NothingIsLost, OwnID
  <2> QED BY <1>2, <2>1, <2>2, <2>6 DEF CSInv, InMap, InFilter
<1> QED BY <1>3, <1>4, <1>5

\* and the reads take an ID of the component, no higher than what counts,
LEMMA ReadKeepsCSInv ==
  ASSUME CS!InputsOK, CSInv, NEW e \in todo, CS!ReadID(e) \/ CS!ReadShortcut(e)
  PROVE  CSInv'
<1>1. /\ GA' = GA /\ stage' = stage /\ Frontier' = Frontier /\ IDs' = IDs /\ prevIDs' = prevIDs /\ out' = out
      /\ todo' = todo \ {e} /\ DOMAIN regs' = DOMAIN regs \cup {e}
      /\ \A x \in DOMAIN regs \ {e} : regs'[x] = regs[x]
      /\ \A v : Comp(v)' = Comp(v)
  BY DEF CS!ReadID, CS!ReadShortcut, CS!Enter, CS!mainVars, CS!ccVars, Comp
<1>2. CSType'
  BY <1>1 DEF CSInv, CSType
<1>3. \A v \in CSVerts : OwnID(v)'
  BY <1>1 DEF CSInv, OwnID
<1>4. \A x : Untaken(x)' <=> Untaken(x)
  BY <1>1 DEF Untaken
<1>5. CASE CS!ReadID(e)
  <2>1. stage = "map" /\ regs'[e].id = IDs[e[1]]
    BY <1>5 DEF CS!ReadID, CS!Enter
  <2>2. e[1] \in CSVerts
    BY <2>1, CSFacts DEF CSInv, CSType
  <2>3. IDs[e[1]] \in Comp(e[1]) /\ IDs[e[1]] <= prevIDs[e[1]]
    BY <2>1, <2>2 DEF CSInv, InMap, OwnID
  <2>4. InMap'
    BY <1>1, <1>4, <2>1, <2>3 DEF CSInv, InMap, Follows
  <2> QED BY <1>1, <1>2, <1>3, <2>1, <2>4 DEF CSInv, InFilter, CS!NothingIsLost
<1>6. CASE CS!ReadShortcut(e)
  <2>1. stage = "filter" /\ regs'[e].id = IDs[IDs[e[1]]]
    BY <1>6 DEF CS!ReadShortcut, CS!Enter
  <2>2. e[1] \in CSVerts
    BY <2>1 DEF CSInv, CSType
  <2>3. IDs[e[1]] \in CSVerts /\ IDs[IDs[e[1]]] <= IDs[e[1]]
    BY <2>2, CSIDs
  <2>4. IDs[IDs[e[1]]] \in Comp(e[1])
    <3>1. IDs[e[1]] \in Comp(e[1]) /\ IDs[IDs[e[1]]] \in Comp(IDs[e[1]])
      BY <2>2, <2>3 DEF CSInv, OwnID
    <3>2. Comp(IDs[e[1]]) = Comp(e[1])
      BY <2>2, <3>1, CSFacts DEF CSInv, CSType
    <3> QED BY <3>1, <3>2
  <2>5. InFilter'
    BY <1>1, <1>4, <2>1, <2>3, <2>4 DEF CSInv, InFilter, Follows
  <2> QED BY <1>1, <1>2, <1>3, <2>1, <2>5 DEF CSInv, InMap, CS!NothingIsLost
<1> QED BY <1>5, <1>6

\* and writeMin leaves its target no higher than the source it was read from,
LEMMA WriteMinKeepsCSInv ==
  ASSUME CS!InputsOK, CSInv, NEW e \in DOMAIN regs, CS!WriteMinID(e)
  PROVE  CSInv'
<1> DEFINE id == regs[e].id
           d == e[2]
<1>1. /\ stage = "map" /\ GA' = GA /\ stage' = stage /\ Frontier' = Frontier /\ prevIDs' = prevIDs
      /\ todo' = todo /\ regs' = [x \in DOMAIN regs \ {e} |-> regs[x]]
      /\ IDs' = [IDs EXCEPT ![d] = CS!Min({IDs[d], id})]
      /\ \A v : Comp(v)' = Comp(v)
  BY DEF CS!WriteMinID, CS!Answer, CS!mainVars, Comp
<1>2. /\ e \in GA /\ e[1] \in CSVerts /\ d \in CSVerts /\ id \in CSVerts /\ id \in Comp(d) /\ id <= prevIDs[e[1]]
  <2>1. e \in GA /\ id \in Comp(e[1]) /\ id <= prevIDs[e[1]]
    BY <1>1 DEF CSInv, CSType, InMap
  <2> QED BY <2>1, CSFacts DEF CSInv, CSType
<1>3. CS!Min({IDs[d], id}) = IF IDs[d] <= id THEN IDs[d] ELSE id
  <2>1. IDs[d] \in Nat /\ id \in Nat
    BY <1>2, CSIDs
  <2> QED BY <2>1 DEF CS!Min
<1>4. /\ IDs' \in [CSVerts -> CSVerts] /\ IDs'[d] <= id /\ IDs'[d] \in Comp(d)
      /\ \A v \in CSVerts : (v # d => IDs'[v] = IDs[v]) /\ IDs'[v] <= IDs[v]
  <2>1. IDs \in [CSVerts -> CSVerts] /\ IDs[d] \in Nat /\ id \in Nat /\ IDs[d] \in Comp(d)
        /\ \A v \in CSVerts : IDs[v] \in Nat
    BY <1>2, CSIDs DEF CSInv, CSType, OwnID
  <2> QED BY <1>1, <1>2, <1>3, <2>1
<1>5. CSType'
  BY <1>1, <1>4 DEF CSInv, CSType
<1>6. ASSUME NEW v \in CSVerts PROVE OwnID(v)'
  <2>1. IDs'[v] \in Nat /\ IDs[v] \in Nat /\ v \in Nat /\ IDs[v] <= v /\ IDs'[v] <= IDs[v]
    BY <1>4, CSIDs
  <2> QED BY <1>1, <1>4, <2>1 DEF CSInv, OwnID
<1>7. InMap'
  <2>1. ASSUME NEW v \in CSVerts PROVE IDs'[v] <= prevIDs[v]
    <3>1. IDs'[v] \in Nat /\ IDs[v] \in Nat /\ prevIDs[v] \in Nat /\ IDs'[v] <= IDs[v] /\ IDs[v] <= prevIDs[v]
      BY <1>1, <1>4, CSIDs DEF CSInv, InMap
    <3> QED BY <3>1
  <2>2. ASSUME NEW x \in GA PROVE (Untaken(x) \/ Follows(x))'
    <3>1. x[1] \in CSVerts /\ x[2] \in CSVerts
      BY CSIDs
    <3>2. IDs'[x[2]] \in Nat /\ IDs[x[2]] \in Nat /\ prevIDs[x[1]] \in Nat /\ IDs'[x[2]] <= IDs[x[2]]
      BY <1>4, <3>1, CSIDs
    <3>3. CASE x = e
      <4>1. IDs'[d] \in Nat /\ id \in Nat /\ prevIDs[e[1]] \in Nat
        BY <1>2, <1>4, CSIDs
      <4>2. IDs'[d] <= prevIDs[e[1]]
        BY <1>2, <1>4, <4>1
      <4> QED BY <1>1, <3>3, <4>2 DEF Follows
    <3>4. CASE x # e /\ Untaken(x)
      BY <1>1, <3>4 DEF Untaken
    <3>5. CASE Follows(x)
      BY <1>1, <3>2, <3>5 DEF Follows
    <3> QED BY <1>1, <3>3, <3>4, <3>5 DEF CSInv, InMap
  <2> QED BY <1>1, <2>1, <2>2 DEF CSInv, InMap
<1> QED BY <1>1, <1>5, <1>6, <1>7 DEF CSInv, InFilter, CS!NothingIsLost

\* and the filter keeps the vertex whose ID it moves.
LEMMA TakeKeepsCSInv ==
  ASSUME CS!InputsOK, CSInv, NEW e \in DOMAIN regs, CS!TakeShortcut(e)
  PROVE  CSInv'
<1> DEFINE id == regs[e].id
           i == e[1]
<1>1. /\ stage = "filter" /\ GA' = GA /\ stage' = stage /\ Frontier' = Frontier
      /\ todo' = todo /\ regs' = [x \in DOMAIN regs \ {e} |-> regs[x]]
      /\ IDs' = [IDs EXCEPT ![i] = id] /\ prevIDs' = [prevIDs EXCEPT ![i] = id]
      /\ out' = IF prevIDs[i] # id THEN out \cup {e[2]} ELSE out
      /\ \A v : Comp(v)' = Comp(v)
  BY DEF CS!TakeShortcut, CS!Answer, CS!mainVars, Comp
<1>2. /\ i \in CSVerts /\ e = <<i, i>> /\ e[2] = i /\ id \in CSVerts /\ id \in Comp(i) /\ id <= IDs[i] /\ IDs[i] <= i
  <2>1. i \in CSVerts /\ e = <<i, i>> /\ id \in Comp(i) /\ id <= IDs[i]
    BY <1>1 DEF CSInv, CSType, InFilter
  <2>2. e[2] = <<i, i>>[2]
    BY <2>1
  <2> QED BY <1>1, <2>1, <2>2, CSIDs
<1>3. /\ IDs' \in [CSVerts -> CSVerts] /\ prevIDs' \in [CSVerts -> CSVerts] /\ IDs'[i] = id /\ prevIDs'[i] = id
      /\ \A v \in CSVerts : v # i => IDs'[v] = IDs[v] /\ prevIDs'[v] = prevIDs[v]
  BY <1>1, <1>2 DEF CSInv, CSType
<1>4. CSType'
  BY <1>1, <1>3 DEF CSInv, CSType
<1>5. ASSUME NEW v \in CSVerts PROVE OwnID(v)' /\ IDs'[v] <= IDs[v]
  <2>1. IDs[v] \in Nat /\ id \in Nat /\ v \in Nat
    BY <1>2, CSIDs
  <2> QED BY <1>1, <1>2, <1>3, <2>1 DEF CSInv, OwnID
<1>6. InFilter'
  <2>1. ASSUME NEW v \in CSVerts PROVE IDs'[v] <= prevIDs'[v]
    <3>1. id \in Nat
      BY <1>2, CSIDs
    <3> QED BY <1>1, <1>3, <3>1 DEF CSInv, InFilter
  <2>2. ASSUME NEW x \in DOMAIN regs' PROVE (regs[x].id \in Comp(x[1]) /\ regs[x].id <= IDs[x[1]])'
    <3>1. x \in DOMAIN regs /\ x # e /\ regs'[x] = regs[x]
      BY <1>1
    <3>2. x[1] \in CSVerts /\ x = <<x[1], x[1]>> /\ regs[x].id \in Comp(x[1]) /\ regs[x].id <= IDs[x[1]]
      BY <1>1, <3>1 DEF CSInv, CSType, InFilter
    <3>3. x[1] # i
      BY <1>2, <3>1, <3>2
    <3> QED BY <1>1, <1>3, <3>1, <3>2, <3>3
  <2>3. ASSUME NEW x \in GA PROVE x[1] \in out' \/ Follows(x)'
    <3>1. x[1] \in CSVerts /\ x[2] \in CSVerts /\ IDs'[x[2]] \in Nat /\ IDs[x[2]] \in Nat /\ prevIDs[x[1]] \in Nat
          /\ IDs'[x[2]] <= IDs[x[2]]
      BY <1>3, <1>5, CSIDs
    <3>2. CASE x[1] \in out
      BY <1>1, <3>2
    <3>3. CASE Follows(x) /\ x[1] = i /\ prevIDs[i] # id
      BY <1>1, <1>2, <3>3
    <3>4. CASE Follows(x) /\ prevIDs'[x[1]] = prevIDs[x[1]]
      BY <3>1, <3>4 DEF Follows
    <3> QED BY <1>1, <1>3, <3>1, <3>2, <3>3, <3>4 DEF CSInv, InFilter
  <2>4. ASSUME NEW v \in CSVerts PROVE Untaken(<<v, v>>)' \/ prevIDs'[v] = IDs'[v]
    <3>1. CASE v = i
      BY <1>3, <3>1
    <3>2. CASE v # i
      <4>1. <<v, v>> # e
        BY <1>2, <3>2
      <4> QED BY <1>1, <1>3, <3>2, <4>1 DEF CSInv, InFilter, Untaken
    <3> QED BY <3>1, <3>2
  <2>5. out' \subseteq CSVerts
    BY <1>1, <1>2 DEF CSInv, InFilter
  <2> QED BY <2>1, <2>2, <2>3, <2>4, <2>5, <1>1 DEF InFilter
<1> QED BY <1>1, <1>4, <1>5, <1>6 DEF CSInv, InMap, CS!NothingIsLost

LEMMA CSInvKept == CS!InputsOK /\ CSInv /\ [CS!Next]_(CS!vars) => CSInv'
<1> SUFFICES ASSUME CS!InputsOK, CSInv, [CS!Next]_(CS!vars) PROVE CSInv'
  OBVIOUS
<1>1. CASE CS!Call \/ CS!Filter \/ CS!NextRound
  BY <1>1, LoopKeepsCSInv
<1>2. CASE \E e \in todo : CS!ReadID(e) \/ CS!ReadShortcut(e)
  BY <1>2, ReadKeepsCSInv
<1>3. CASE \E e \in DOMAIN regs : CS!WriteMinID(e) \/ CS!TakeShortcut(e)
  BY <1>3, WriteMinKeepsCSInv, TakeKeepsCSInv
<1>4. CASE UNCHANGED CS!vars
  <2>1. UNCHANGED <<GA, stage, Frontier, todo, regs, out, IDs, prevIDs>>
    BY <1>4 DEF CS!vars, CS!mainVars, CS!callVars, CS!ccVars
  <2>2. \A v : Comp(v)' = Comp(v) /\ CS!Component(v)' = CS!Component(v)
    BY <2>1 DEF Comp, CS!Component, CS!Near, CS!OutOf
  <2>3. CSType' /\ InMap' /\ InFilter' /\ (\A v \in CSVerts : OwnID(v)')
    BY <2>1, <2>2 DEF CSInv, CSType, InMap, InFilter, OwnID, Untaken, Follows
  <2> QED BY <2>1, <2>2, <2>3 DEF CSInv, CS!NothingIsLost
<1> QED BY <1>1, <1>2, <1>3, <1>4 DEF CS!Next

\* Between two rounds every edge that can still lower its target starts in the frontier,
\* although the filter's workers replace the IDs that others jump along; and an ID is
\* always one of the vertex's own component: for every symmetric graph.
THEOREM NoJumpLosesAnEdge == ASSUME CS!InputsOK PROVE CS!Spec => []CS!NothingIsLost
<1>1. CSInv => CS!NothingIsLost
  BY DEF CSInv
<1> QED BY <1>1, InitCSInv, CSInvKept, PTL DEF CS!Spec

\* The program ends with the smallest number of each component as its label: for every
\* symmetric graph.
THEOREM LabelsAreAlwaysMinimal == ASSUME CS!InputsOK PROVE CS!Spec => []CS!LabelsAreMinimal
<1>1. CSInv => CS!LabelsAreMinimal
  <2> SUFFICES ASSUME CSInv, stage = "loop", Frontier = {}, NEW v \in CSVerts
               PROVE  IDs[v] = CS!Min(Comp(v))
    BY CSFacts DEF CS!LabelsAreMinimal, CS!Done, CSInv, CSType
  <2> DEFINE Higher == {w \in CSVerts : IDs[v] <= IDs[w]}
  <2>1. ASSUME NEW x \in GA PROVE /\ x[1] \in CSVerts /\ x[2] \in CSVerts
                                  /\ IDs[x[2]] <= IDs[x[1]] /\ IDs[x[1]] <= IDs[x[2]]
    <3> DEFINE b == <<x[2], x[1]>>
    <3>1. b \in GA /\ b[1] = x[2] /\ b[2] = x[1]
      BY DEF CS!InputsOK, CSInv, CSType
    <3> HIDE DEF b
    <3>2. \A y \in GA : IDs[y[2]] <= IDs[y[1]]
      BY DEF CSInv, CS!NothingIsLost
    <3> QED BY <3>1, <3>2, CSIDs
  <2>2. v \in Higher /\ \A x \in GA : x[1] \in Higher => x[2] \in Higher
    <3>1. \A w \in CSVerts : IDs[w] \in Nat
      BY CSIDs
    <3> QED BY <2>1, <3>1
  <2> HIDE DEF Higher
  <2>3. Comp(v) \subseteq Higher
    BY <2>2, CSFacts DEF CSInv, CSType
  <2>4. \A w \in Comp(v) : IDs[v] <= w
    <3> TAKE w \in Comp(v)
    <3>1. w \in CSVerts /\ IDs[v] <= IDs[w] /\ IDs[w] <= w /\ IDs[v] \in Nat /\ IDs[w] \in Nat /\ w \in Nat
      BY <2>3, CSIDs DEF Higher
    <3> QED BY <3>1
  <2>5. IDs[v] \in Comp(v) /\ Comp(v) \subseteq Nat
    BY CSFacts DEF CSInv, CSType, OwnID
  <2> QED BY <2>4, <2>5 DEF CS!Min
<1> QED BY <1>1, InitCSInv, CSInvKept, PTL DEF CS!Spec

-----------------------------------------------------------------------------
(* HyperCC, for every symmetric hypergraph and every interleaving.  While  *)
(* one side's IDs travel to the other, a node of the receiving side whose  *)
(* ID differs from prevIDs has been reported: the first to lower it read   *)
(* the ID that prevIDs holds.  An edge from the sending side is still to   *)
(* be taken or under way, or its target is no higher; one from the         *)
(* receiving side starts at a node reported, or its target is no higher.   *)

Group(x) == CloseIn(GA, HC!Nodes, Cardinality(HC!Nodes))[Cardinality(HC!Nodes)][x]
Numbers(x) == {u[2] : u \in Group(x) \cap HCVerts}
Level(e) == IDs[e[2]] <= IDs[e[1]]

HCType == /\ GA \in HCGraphs
          /\ stage \in {"loop", "toH", "toV", "done"}
          /\ Frontier \subseteq HCVerts /\ FrontierH \subseteq HCHyperedges
          /\ IDs \in [HC!Nodes -> Nat] /\ prevIDs \in [HC!Nodes -> Nat]
          /\ stage \in {"loop", "done"} => todo = {} /\ DOMAIN regs = {}

Labelled == /\ \A x \in HC!Nodes : IDs[x] \in Numbers(x) \cup {UintMax}
            /\ \A v \in HCVerts : IDs[v] <= v[2]

\* prevIDs of the nodes that the last call did not report
Current(side, F) == \A x \in side \ F : prevIDs[x] = IDs[x]

Between == stage = "loop" =>
  /\ Current(HCVerts, Frontier) /\ Current(HCHyperedges, FrontierH)
  /\ HC!NothingIsLost

Sending(src, dst, F) ==
  /\ Current(src, F)
  /\ out \subseteq dst /\ Current(dst, out)
  /\ \A e \in todo \cup DOMAIN regs : e \in GA /\ e[1] \in src /\ e[2] \in dst
  /\ \A x \in dst : IDs[x] <= prevIDs[x]
  /\ \A e \in DOMAIN regs : IDs[e[2]] = prevIDs[e[2]] => regs[e].orig = prevIDs[e[2]]
  /\ \A e \in GA : \/ e[1] \in src /\ (e \in todo \/ e \in DOMAIN regs)
                   \/ e[1] \in out
                   \/ Level(e)

HCInv == /\ HCType /\ Labelled /\ Between
         /\ stage = "toH" => Sending(HCVerts, HCHyperedges, Frontier)
         /\ stage = "toV" => Sending(HCHyperedges, HCVerts, FrontierH)
         /\ stage = "done" => \A e \in GA : Level(e)

\* What the inputs give, and the model's table as the one above.
LEMMA HCFacts ==
  ASSUME HC!InputsOK, GA \in HCGraphs
  PROVE  /\ HC!Nodes = HCVerts \cup HCHyperedges /\ HCVerts \cap HCHyperedges = {} /\ UintMax \in Nat
         /\ \A v \in HCVerts : v[2] \in Nat /\ v[2] < UintMax
         /\ \A e \in GA : \/ e[1] \in HCVerts /\ e[2] \in HCHyperedges
                          \/ e[1] \in HCHyperedges /\ e[2] \in HCVerts
         /\ \A e \in GA : <<e[2], e[1]>> \in GA
         /\ \A x : HC!Component(x) = Group(x)
         /\ \A x \in HC!Nodes :
              /\ x \in Group(x) /\ Group(x) \subseteq HC!Nodes
              /\ \A S : x \in S /\ (\A e \in GA : e[1] \in S => e[2] \in S) => Group(x) \subseteq S
         /\ \A e \in GA : Group(e[2]) = Group(e[1])
<1> DEFINE N == Cardinality(HC!Nodes)
<1>1. /\ HC!Nodes = HCVerts \cup HCHyperedges /\ HCVerts \cap HCHyperedges = {} /\ UintMax \in Nat
      /\ \A v \in HCVerts : v[2] \in Nat /\ v[2] < UintMax
      /\ GA \subseteq (HCVerts \X HCHyperedges) \cup (HCHyperedges \X HCVerts)
      /\ \A e \in GA : <<e[2], e[1]>> \in GA
  BY DEF HC!InputsOK, HC!Nodes
<1>2. \A e \in GA : \/ e[1] \in HCVerts /\ e[2] \in HCHyperedges
                    \/ e[1] \in HCHyperedges /\ e[2] \in HCVerts
  BY <1>1
<1>3. EdgesOn(GA, HC!Nodes, N) /\ N \in Nat
  <2>1. IsFiniteSet(HCVerts) /\ IsFiniteSet(HCHyperedges)
    BY DEF HC!InputsOK, HC!IsFiniteSet, IsFiniteSet
  <2>2. IsFiniteSet(HC!Nodes)
    BY <1>1, <2>1, FS_Union
  <2> QED BY <1>1, <1>2, <2>2, FS_CardinalityType DEF EdgesOn
<1>4. \A x : HC!Component(x) = Group(x)
  <2>1. HC!Cardinality(HC!Nodes) = Cardinality(HC!Nodes)
    BY DEF HC!Cardinality, Cardinality
  <2>2. HC!Near = CloseIn(GA, HC!Nodes, N)
    BY <2>1 DEF HC!Near, CloseIn, HC!OutOf
  <2> QED BY <2>1, <2>2 DEF HC!Component, Group
<1>5. ASSUME NEW x \in HC!Nodes
      PROVE  /\ x \in Group(x) /\ Group(x) \subseteq HC!Nodes
             /\ \A e \in GA : e[1] \in Group(x) => e[2] \in Group(x)
             /\ \A S : x \in S /\ (\A e \in GA : e[1] \in S => e[2] \in S) => Group(x) \subseteq S
  BY <1>3, CloseIsClosed DEF Group
<1>6. ASSUME NEW x \in HC!Nodes, NEW y \in Group(x) PROVE Group(y) = Group(x)
  BY <1>1, <1>3, ComponentIsOne DEF Group
<1>7. \A e \in GA : Group(e[2]) = Group(e[1])
  BY <1>1, <1>2, <1>5, <1>6
<1> QED BY <1>1, <1>2, <1>4, <1>5, <1>7

LEMMA InitHCInv == HC!InputsOK /\ HC!Init => HCInv
<1> SUFFICES ASSUME HC!InputsOK, HC!Init PROVE HCInv
  OBVIOUS
<1>1. /\ GA \in HCGraphs /\ stage = "loop" /\ Frontier = HCVerts /\ FrontierH = {} /\ todo = {} /\ regs = <<>>
      /\ IDs = [x \in HC!Nodes |-> IF x \in HCVerts THEN x[2] ELSE UintMax]
      /\ prevIDs = [x \in HC!Nodes |-> UintMax]
  BY DEF HC!Init, HC!NoCall
<1>2. /\ HC!Nodes = HCVerts \cup HCHyperedges /\ HCVerts \cap HCHyperedges = {} /\ UintMax \in Nat
      /\ \A v \in HCVerts : v[2] \in Nat /\ v[2] < UintMax
      /\ \A e \in GA : \/ e[1] \in HCVerts /\ e[2] \in HCHyperedges
                       \/ e[1] \in HCHyperedges /\ e[2] \in HCVerts
      /\ \A x \in HC!Nodes : x \in Group(x)
  BY <1>1, HCFacts
<1>3. HCType
  BY <1>1, <1>2 DEF HCType
<1>4. Labelled
  <2>1. \A v \in HCVerts : IDs[v] = v[2] /\ v[2] \in Numbers(v)
    BY <1>1, <1>2 DEF Numbers
  <2>2. \A x \in HC!Nodes \ HCVerts : IDs[x] = UintMax
    BY <1>1
  <2> QED BY <1>2, <2>1, <2>2 DEF Labelled
<1>5. HC!NothingIsLost
  <2> SUFFICES ASSUME NEW e \in GA
               PROVE  IF e[1] \in HCVerts THEN e[1] \in Frontier \/ IDs[e[2]] <= IDs[e[1]]
                      ELSE IDs[e[2]] <= IDs[e[1]]
    BY DEF HC!NothingIsLost
  <2>1. CASE e[1] \in HCVerts
    BY <1>1, <2>1
  <2>2. CASE e[1] \notin HCVerts
    <3>1. e[1] \in HCHyperedges /\ e[2] \in HCVerts
      BY <1>2, <2>2
    <3>2. IDs[e[1]] = UintMax /\ IDs[e[2]] = e[2][2] /\ e[2][2] \in Nat /\ e[2][2] < UintMax
      BY <1>1, <1>2, <2>2, <3>1
    <3> QED BY <1>2, <2>2, <3>2
  <2> QED BY <2>1, <2>2
<1>6. Current(HCVerts, Frontier) /\ Current(HCHyperedges, FrontierH)
  BY <1>1, <1>2 DEF Current
<1> QED BY <1>1, <1>3, <1>4, <1>5, <1>6 DEF HCInv, Between

\* The rounds: what is copied into prevIDs is what the last call reported.
LEMMA RoundKeepsHCInv ==
  ASSUME HC!InputsOK, HCInv, HC!VertexProp \/ HC!HyperedgeProp \/ HC!NextRound
  PROVE  HCInv'
<1>1. /\ HC!Nodes = HCVerts \cup HCHyperedges /\ HCVerts \cap HCHyperedges = {}
      /\ \A e \in GA : \/ e[1] \in HCVerts /\ e[2] \in HCHyperedges
                       \/ e[1] \in HCHyperedges /\ e[2] \in HCVerts
      /\ IDs \in [HC!Nodes -> Nat] /\ prevIDs \in [HC!Nodes -> Nat]
      /\ \A x \in HC!Nodes : IDs[x] \in Nat
  BY HCFacts DEF HCInv, HCType
<1>2. GA' = GA /\ IDs' = IDs
  BY DEF HC!VertexProp, HC!HyperedgeProp, HC!NextRound, HC!ccVars
<1>3. Labelled' /\ \A e : Level(e)' = Level(e)
  BY <1>2 DEF HCInv, Labelled, Level, Numbers, Group
<1>4. CASE HC!VertexProp
  <2>1. /\ stage = "loop" /\ stage' = "toH" /\ Frontier' = Frontier /\ FrontierH' = FrontierH
        /\ prevIDs' = [x \in HC!Nodes |-> IF x \in FrontierH THEN IDs[x] ELSE prevIDs[x]]
        /\ todo' = {e \in GA : e[1] \in Frontier} /\ regs' = <<>> /\ out' = {}
    BY <1>4 DEF HC!VertexProp, HC!Copied, HC!Begin, HC!OutOf
  <2>2. /\ Frontier \subseteq HCVerts /\ FrontierH \subseteq HCHyperedges
        /\ \A x \in HCVerts \ Frontier : prevIDs[x] = IDs[x]
        /\ \A x \in HCHyperedges \ FrontierH : prevIDs[x] = IDs[x]
    BY <2>1 DEF HCInv, HCType, Between, Current
  <2>3. HCType'
    BY <1>1, <1>2, <2>1 DEF HCInv, HCType
  <2>4. /\ \A x \in HCHyperedges : prevIDs'[x] = IDs[x]
        /\ \A x \in HCVerts \ Frontier : prevIDs'[x] = IDs[x]
    BY <1>1, <2>1, <2>2
  <2>5. \A e \in GA : e[1] \in Frontier \/ Level(e)
    BY <1>1, <2>1 DEF HCInv, Between, HC!NothingIsLost, Level
  <2>6. \A e \in todo' : e \in GA /\ e[1] \in HCVerts /\ e[2] \in HCHyperedges
    BY <1>1, <2>1, <2>2
  <2>7. Sending(HCVerts, HCHyperedges, Frontier)'
    BY <1>1, <1>2, <1>3, <2>1, <2>2, <2>4, <2>5, <2>6 DEF Sending, Current
  <2> QED BY <1>3, <2>1, <2>3, <2>7 DEF HCInv, Between
<1>5. CASE HC!HyperedgeProp
  <2>1. /\ stage = "toH" /\ todo = {} /\ DOMAIN regs = {} /\ FrontierH' = out /\ Frontier' = Frontier
    BY <1>5 DEF HC!HyperedgeProp, HC!Returned
  <2>2. Sending(HCVerts, HCHyperedges, Frontier)
    BY <2>1 DEF HCInv
  <2>3. /\ \A x \in HCVerts \ Frontier : prevIDs[x] = IDs[x]
        /\ out \subseteq HCHyperedges /\ \A x \in HCHyperedges \ out : prevIDs[x] = IDs[x]
        /\ \A e \in GA : e[1] \in out \/ Level(e)
    BY <2>1, <2>2 DEF Sending, Current
  <2>4. CASE out = {}
    <3>1. stage' = "done" /\ prevIDs' = prevIDs /\ todo' = todo /\ regs' = regs
      BY <1>5, <2>4 DEF HC!HyperedgeProp, HC!callVars
    <3>2. HCType'
      BY <1>2, <2>1, <2>3, <3>1 DEF HCInv, HCType
    <3> QED BY <1>2, <1>3, <2>3, <2>4, <3>1, <3>2 DEF HCInv, Between
  <2>5. CASE out # {}
    <3>1. /\ stage' = "toV"
          /\ prevIDs' = [x \in HC!Nodes |-> IF x \in Frontier THEN IDs[x] ELSE prevIDs[x]]
          /\ todo' = {e \in GA : e[1] \in out} /\ regs' = <<>> /\ out' = {}
      BY <1>5, <2>5 DEF HC!HyperedgeProp, HC!Copied, HC!Begin, HC!OutOf
    <3>2. HCType'
      BY <1>1, <1>2, <2>1, <2>3, <3>1 DEF HCInv, HCType
    <3>3. /\ \A x \in HCVerts : prevIDs'[x] = IDs[x]
          /\ \A x \in HCHyperedges \ out : prevIDs'[x] = IDs[x]
      BY <1>1, <2>3, <3>1 DEF HCInv, HCType
    <3>4. \A e \in todo' : e \in GA /\ e[1] \in HCHyperedges /\ e[2] \in HCVerts
      BY <1>1, <2>3, <3>1
    <3>5. Sending(HCHyperedges, HCVerts, FrontierH)'
      BY <1>1, <1>2, <1>3, <2>1, <2>3, <3>1, <3>3, <3>4 DEF Sending, Current
    <3> QED BY <1>3, <3>1, <3>2, <3>5 DEF HCInv, Between
  <2> QED BY <2>4, <2>5
<1>6. CASE HC!NextRound
  <2>1. /\ stage = "toV" /\ todo = {} /\ DOMAIN regs = {} /\ Frontier' = out
        /\ stage' = IF out = {} THEN "done" ELSE "loop"
        /\ todo' = todo /\ regs' = regs /\ prevIDs' = prevIDs /\ FrontierH' = FrontierH
    BY <1>6 DEF HC!NextRound, HC!Returned, HC!callVars, HC!ccVars
  <2>2. Sending(HCHyperedges, HCVerts, FrontierH)
    BY <2>1 DEF HCInv
  <2>3. /\ \A x \in HCHyperedges \ FrontierH : prevIDs[x] = IDs[x]
        /\ out \subseteq HCVerts /\ \A x \in HCVerts \ out : prevIDs[x] = IDs[x]
        /\ \A e \in GA : e[1] \in out \/ Level(e)
    BY <2>1, <2>2 DEF Sending, Current
  <2>4. HCType'
    BY <1>2, <2>1, <2>3 DEF HCInv, HCType
  <2>5. HC!NothingIsLost'
    BY <1>1, <1>2, <2>1, <2>3 DEF HC!NothingIsLost, Level
  <2>6. Between'
    BY <1>2, <2>1, <2>3, <2>5 DEF Between, Current
  <2>7. stage' = "done" => \A e \in GA' : Level(e)'
    BY <1>2, <1>3, <2>1, <2>3
  <2> QED BY <1>3, <2>1, <2>4, <2>6, <2>7 DEF HCInv
<1> QED BY <1>4, <1>5, <1>6

\* A step of a call, in either direction: the read of the target's ID,
LEMMA ReadKeepsSending ==
  ASSUME NEW src, NEW dst, NEW F, Sending(src, dst, F), NEW e \in todo, HC!ReadOrig(e), F' = F
  PROVE  Sending(src, dst, F)'
<1>1. /\ GA' = GA /\ IDs' = IDs /\ prevIDs' = prevIDs /\ out' = out
      /\ todo' = todo \ {e} /\ DOMAIN regs' = DOMAIN regs \cup {e} /\ regs'[e].orig = IDs[e[2]]
      /\ \A x \in DOMAIN regs \ {e} : regs'[x] = regs[x]
  BY DEF HC!ReadOrig, HC!Enter, HC!mainVars, HC!ccVars
<1>2. \A x \in DOMAIN regs' : IDs[x[2]] = prevIDs[x[2]] => regs'[x].orig = prevIDs[x[2]]
  BY <1>1 DEF Sending
<1> QED BY <1>1, <1>2 DEF Sending, Current, Level

\* and writeMin, which reports the target unless somebody has lowered it since the read.
LEMMA WriteKeepsSending ==
  ASSUME NEW src, NEW dst, NEW F, Sending(src, dst, F), F' = F, src \cap dst = {},
         src \subseteq HC!Nodes, dst \subseteq HC!Nodes,
         IDs \in [HC!Nodes -> Nat], prevIDs \in [HC!Nodes -> Nat],
         \A x \in GA : x[1] \in HC!Nodes /\ x[2] \in HC!Nodes,
         NEW e \in DOMAIN regs, HC!WriteMinID(e)
  PROVE  Sending(src, dst, F)'
<1>1. /\ GA' = GA /\ prevIDs' = prevIDs /\ todo' = todo
      /\ regs' = [x \in DOMAIN regs \ {e} |-> regs[x]]
  BY DEF HC!WriteMinID, HC!Answer, HC!mainVars
<1>2. e \in GA /\ e[1] \in src /\ e[2] \in dst /\ e[1] # e[2]
  BY DEF Sending
<1>3. CASE ~(IDs[e[1]] < IDs[e[2]])
  <2>1. IDs' = IDs /\ out' = out
    BY <1>3 DEF HC!WriteMinID, HC!Answer
  <2>2. Level(e)
    BY <1>2, <1>3 DEF Level
  <2>3. \A x \in GA : \/ x[1] \in src /\ (x \in todo' \/ x \in DOMAIN regs')
                      \/ x[1] \in out'
                      \/ Level(x)
    BY <1>1, <2>1, <2>2 DEF Sending
  <2> QED BY <1>1, <2>1, <2>3 DEF Sending, Current, Level
<1>4. CASE IDs[e[1]] < IDs[e[2]]
  <2>1. /\ IDs' = [IDs EXCEPT ![e[2]] = IDs[e[1]]]
        /\ out' = IF regs[e].orig = prevIDs[e[2]] THEN out \cup {e[2]} ELSE out
    BY <1>4 DEF HC!WriteMinID, HC!Answer
  <2>2. /\ IDs'[e[2]] = IDs[e[1]] /\ IDs[e[1]] \in Nat /\ IDs[e[2]] \in Nat
        /\ \A x \in HC!Nodes : /\ x # e[2] => IDs'[x] = IDs[x]
                               /\ IDs'[x] <= IDs[x] /\ IDs[x] \in Nat /\ IDs'[x] \in Nat
    BY <1>2, <1>4, <2>1
  <2>3. e[2] \in out' /\ out \subseteq out' /\ out' \subseteq dst
    <3>1. CASE IDs[e[2]] = prevIDs[e[2]]
      BY <1>2, <2>1, <3>1 DEF Sending
    <3>2. CASE IDs[e[2]] # prevIDs[e[2]]
      BY <1>2, <2>1, <3>2 DEF Sending, Current
    <3> QED BY <3>1, <3>2
  <2>4. Current(src, F)' /\ Current(dst, out)'
    BY <1>1, <1>2, <2>2, <2>3 DEF Sending, Current
  <2>5. \A x \in dst : IDs'[x] <= prevIDs'[x]
    <3> TAKE x \in dst
    <3>1. IDs'[x] \in Nat /\ IDs[x] \in Nat /\ prevIDs[x] \in Nat /\ IDs'[x] <= IDs[x] /\ IDs[x] <= prevIDs[x]
      BY <2>2 DEF Sending
    <3> QED BY <1>1, <3>1
  <2>6. ASSUME NEW x \in DOMAIN regs', IDs'[x[2]] = prevIDs'[x[2]] PROVE regs'[x].orig = prevIDs'[x[2]]
    <3>1. x \in DOMAIN regs /\ regs'[x] = regs[x] /\ x[2] \in dst
      BY <1>1 DEF Sending
    <3>2. IDs[e[2]] <= prevIDs[e[2]] /\ prevIDs[e[2]] \in Nat
      BY <1>2 DEF Sending
    <3>3. x[2] # e[2]
      <4> SUFFICES ASSUME x[2] = e[2] PROVE FALSE
        OBVIOUS
      <4>1. IDs'[e[2]] = prevIDs[e[2]]
        BY <1>1, <2>6
      <4> QED BY <1>4, <2>2, <3>2, <4>1
    <3> QED BY <1>1, <2>2, <2>6, <3>1, <3>3 DEF Sending
  <2>7. ASSUME NEW x \in GA
        PROVE  \/ x[1] \in src /\ (x \in todo' \/ x \in DOMAIN regs')
               \/ x[1] \in out'
               \/ Level(x)'
    <3>1. /\ x[1] \in HC!Nodes /\ x[2] \in HC!Nodes
          /\ IDs[x[1]] \in Nat /\ IDs[x[2]] \in Nat /\ IDs'[x[2]] \in Nat /\ IDs'[x[2]] <= IDs[x[2]]
      BY <2>2
    <3>2. CASE x = e
      BY <1>2, <2>2, <3>2 DEF Level
    <3>3. CASE x # e /\ x[1] \in src /\ (x \in todo \/ x \in DOMAIN regs)
      BY <1>1, <3>3
    <3>4. CASE x[1] \in out \/ x[1] = e[2]
      BY <2>3, <3>4
    <3>5. CASE Level(x) /\ x[1] # e[2]
      BY <2>2, <3>1, <3>5 DEF Level
    <3> QED BY <3>2, <3>3, <3>4, <3>5 DEF Sending
  <2> QED BY <1>1, <2>3, <2>4, <2>5, <2>6, <2>7 DEF Sending
<1> QED BY <1>3, <1>4

LEMMA CallKeepsHCInv ==
  ASSUME HC!InputsOK, HCInv,
         (\E e \in todo : HC!ReadOrig(e)) \/ (\E e \in DOMAIN regs : HC!WriteMinID(e))
  PROVE  HCInv'
<1>1. /\ HC!Nodes = HCVerts \cup HCHyperedges /\ HCVerts \cap HCHyperedges = {}
      /\ \A x \in GA : x[1] \in HC!Nodes /\ x[2] \in HC!Nodes
      /\ IDs \in [HC!Nodes -> Nat] /\ prevIDs \in [HC!Nodes -> Nat]
      /\ \A x \in GA : Group(x[2]) = Group(x[1])
      /\ \A v \in HCVerts : v[2] \in Nat
  BY HCFacts DEF HCInv, HCType
<1>2. /\ GA' = GA /\ stage' = stage /\ Frontier' = Frontier /\ FrontierH' = FrontierH /\ prevIDs' = prevIDs
      /\ \A x : Numbers(x)' = Numbers(x)
  BY DEF HC!ReadOrig, HC!WriteMinID, HC!mainVars, HC!ccVars, Numbers, Group
<1>3. IDs' \in [HC!Nodes -> Nat] /\ Labelled'
  <2>1. CASE IDs' = IDs
    BY <1>1, <1>2, <2>1 DEF HCInv, Labelled
  <2>2. CASE \E e \in DOMAIN regs : /\ e \in GA /\ IDs[e[1]] < IDs[e[2]]
                                    /\ IDs' = [IDs EXCEPT ![e[2]] = IDs[e[1]]]
    <3>1. PICK e \in DOMAIN regs : /\ e \in GA /\ IDs[e[1]] < IDs[e[2]]
                                   /\ IDs' = [IDs EXCEPT ![e[2]] = IDs[e[1]]]
      BY <2>2
    <3>2. e[1] \in HC!Nodes /\ e[2] \in HC!Nodes /\ IDs[e[1]] \in Nat /\ IDs[e[2]] \in Nat
      BY <1>1, <3>1
    <3>3. Numbers(e[2]) = Numbers(e[1])
      BY <1>1, <3>1 DEF Numbers
    <3>4. IDs' \in [HC!Nodes -> Nat] /\ IDs'[e[2]] = IDs[e[1]]
          /\ \A x \in HC!Nodes : x # e[2] => IDs'[x] = IDs[x]
      BY <1>1, <3>1, <3>2
    <3>5. \A x \in HC!Nodes : IDs'[x] \in Numbers(x) \cup {UintMax}
      BY <3>2, <3>3, <3>4 DEF HCInv, Labelled
    <3>6. ASSUME NEW v \in HCVerts PROVE IDs'[v] <= v[2]
      <4>1. IDs[v] <= v[2] /\ v[2] \in Nat /\ IDs[v] \in Nat /\ v \in HC!Nodes
        BY <1>1 DEF HCInv, Labelled
      <4>2. CASE v = e[2]
        <5>1. IDs'[v] = IDs[e[1]] /\ IDs[e[1]] < IDs[v]
          BY <3>1, <3>4, <4>2
        <5> QED BY <3>2, <4>1, <5>1
      <4>3. CASE v # e[2]
        BY <3>4, <4>1, <4>3
      <4> QED BY <4>2, <4>3
    <3> QED BY <1>2, <3>4, <3>5, <3>6 DEF Labelled
  <2>3. \A e \in DOMAIN regs : e \in GA
    BY DEF HCInv, HCType, Sending
  <2>4. (\E e \in todo : HC!ReadOrig(e)) => IDs' = IDs
    BY DEF HC!ReadOrig, HC!ccVars
  <2> QED BY <2>1, <2>2, <2>3, <2>4 DEF HC!WriteMinID
<1>4. stage \in {"toH", "toV"}
  BY DEF HCInv, HCType
<1>5. HCType'
  BY <1>1, <1>2, <1>3, <1>4 DEF HCInv, HCType
<1>6. CASE stage = "toH"
  <2>1. Sending(HCVerts, HCHyperedges, Frontier)'
    BY <1>1, <1>2, <1>6, ReadKeepsSending, WriteKeepsSending DEF HCInv
  <2> QED BY <1>2, <1>3, <1>5, <1>6, <2>1 DEF HCInv, Between
<1>7. CASE stage = "toV"
  <2>1. Sending(HCHyperedges, HCVerts, FrontierH)'
    BY <1>1, <1>2, <1>7, ReadKeepsSending, WriteKeepsSending DEF HCInv
  <2> QED BY <1>2, <1>3, <1>5, <1>7, <2>1 DEF HCInv, Between
<1> QED BY <1>4, <1>6, <1>7

LEMMA HCInvKept == HC!InputsOK /\ HCInv /\ [HC!Next]_(HC!vars) => HCInv'
<1> SUFFICES ASSUME HC!InputsOK, HCInv, [HC!Next]_(HC!vars) PROVE HCInv'
  OBVIOUS
<1>1. CASE HC!VertexProp \/ HC!HyperedgeProp \/ HC!NextRound
  BY <1>1, RoundKeepsHCInv
<1>2. CASE (\E e \in todo : HC!ReadOrig(e)) \/ (\E e \in DOMAIN regs : HC!WriteMinID(e))
  BY <1>2, CallKeepsHCInv
<1>3. CASE UNCHANGED HC!vars
  <2>1. UNCHANGED <<GA, stage, Frontier, todo, regs, out, IDs, prevIDs, FrontierH>>
    BY <1>3 DEF HC!vars, HC!mainVars, HC!callVars, HC!ccVars
  <2>2. HCType' /\ Labelled' /\ Between' /\ \A e : Level(e)' = Level(e)
    BY <2>1 DEF HCInv, HCType, Labelled, Numbers, Group, Between, Current, HC!NothingIsLost, Level
  <2>3. \A src, dst : /\ Sending(src, dst, Frontier) => Sending(src, dst, Frontier)'
                      /\ Sending(src, dst, FrontierH) => Sending(src, dst, FrontierH)'
    BY <2>1 DEF Sending, Current, Level
  <2> QED BY <2>1, <2>2, <2>3 DEF HCInv
<1> QED BY <1>1, <1>2, <1>3 DEF HC!Next

\* Between two rounds a vertex that can still lower a hyperedge is in the frontier, and
\* every vertex has what its hyperedges have, whatever the others of several updates of
\* a target had read: for every symmetric hypergraph.
THEOREM NoHyperedgeIsLost == ASSUME HC!InputsOK PROVE HC!Spec => []HC!NothingIsLost
<1>1. HCInv => HC!NothingIsLost
  BY DEF HCInv, Between, HC!NothingIsLost
<1> QED BY <1>1, InitHCInv, HCInvKept, PTL DEF HC!Spec

\* The program ends with the smallest number of each component at its vertices: for
\* every symmetric hypergraph.
THEOREM HyperLabelsAreAlwaysMinimal == ASSUME HC!InputsOK PROVE HC!Spec => []HC!LabelsAreMinimal
<1>1. HCInv => HC!LabelsAreMinimal
  <2> SUFFICES ASSUME HCInv, stage = "done", NEW v \in HCVerts
               PROVE  IDs[v] = HC!Min(Numbers(v))
    BY HCFacts DEF HC!LabelsAreMinimal, HC!Done, HCInv, HCType, Numbers
  <2> DEFINE Higher == {x \in HC!Nodes : IDs[v] <= IDs[x]}
  <2>1. /\ HC!Nodes = HCVerts \cup HCHyperedges
        /\ \A x \in HC!Nodes : IDs[x] \in Nat
        /\ \A u \in HCVerts : u[2] \in Nat /\ u[2] < UintMax /\ IDs[u] <= u[2]
        /\ UintMax \in Nat
    BY HCFacts DEF HCInv, HCType, Labelled
  <2>2. ASSUME NEW x \in GA PROVE x[2] \in HC!Nodes /\ x[1] \in HC!Nodes /\ IDs[x[1]] <= IDs[x[2]]
    <3> DEFINE b == <<x[2], x[1]>>
    <3>1. b \in GA /\ b[1] = x[2] /\ b[2] = x[1]
      BY HCFacts DEF HCInv, HCType
    <3> HIDE DEF b
    <3>2. \A y \in GA : IDs[y[2]] <= IDs[y[1]]
      BY DEF HCInv, Level
    <3> QED BY <2>1, <3>1, <3>2, HCFacts DEF HCInv, HCType
  <2>3. v \in Higher /\ \A x \in GA : x[1] \in Higher => x[2] \in Higher
    BY <2>1, <2>2
  <2> HIDE DEF Higher
  <2>4. Group(v) \subseteq Higher
    BY <2>1, <2>3, HCFacts DEF HCInv, HCType
  <2>5. \A i \in Numbers(v) : i \in Nat /\ IDs[v] <= i
    <3> SUFFICES ASSUME NEW u \in Group(v), u \in HCVerts PROVE u[2] \in Nat /\ IDs[v] <= u[2]
      BY DEF Numbers
    <3>1. IDs[v] <= IDs[u] /\ IDs[u] <= u[2] /\ u[2] \in Nat /\ IDs[u] \in Nat /\ IDs[v] \in Nat
      BY <2>1, <2>4 DEF Higher
    <3> QED BY <3>1
  <2>6. IDs[v] \in Numbers(v)
    <3>1. IDs[v] \in Numbers(v) \cup {UintMax} /\ IDs[v] \in Nat /\ IDs[v] <= v[2] /\ v[2] < UintMax
      BY <2>1 DEF HCInv, Labelled
    <3> QED BY <2>1, <3>1
  <2> QED BY <2>5, <2>6 DEF HC!Min
<1> QED BY <1>1, InitHCInv, HCInvKept, PTL DEF HC!Spec

-----------------------------------------------------------------------------
(* HyperSSSP, on any weighted hypergraph and for every interleaving.  No   *)
(* relaxation is lost, as in BellmanFord: Visited is one array for both    *)
(* sides, but a call marks nodes of one side only.  A call reads distances *)
(* of one side and lowers those of the other, so after c calls no distance *)
(* is shorter than the walks of c edges; a frontier that is empty before   *)
(* the loop gives up leaves distances that no edge can lower, and these    *)
(* are no longer than any walk.                                            *)

Nodes == HSVerts \cup HSHyperedges

HSType == /\ GA \in HSGraphs
          /\ stage \in {"loop", "toH", "toV", "done"}
          /\ todo \subseteq GA /\ RegsOK /\ todo \cap DOMAIN regs = {}
          /\ ShortestPathLen \in [Nodes -> Int] /\ Touched \in [HS!Index -> {0, 1}]
          /\ turn \in 0 .. HS!nv - 1
          /\ stage \in {"toH", "toV"} => turn # HS!nv - 1
          /\ stage \in {"loop", "done"} => todo = {} /\ DOMAIN regs = {}

Far == ShortestPathLen[start] <= 0 /\ \A x \in Nodes : ShortestPathLen[x] <= Inf
NoShorter(row, side) == \A x \in side : row[x] <= ShortestPathLen[x]

\* Between two rounds, after c calls,
Paused(S, c) == /\ Far /\ NoShorter(S[c], Nodes)
                /\ Frontier \subseteq HSVerts /\ \A x \in Frontier : ShortestPathLen[x] < Inf
                /\ HS!NothingIsLost

\* in the call after them, from one side to the other,
Relaxing(S, c, src, dst) ==
  /\ Far /\ NoShorter(S[c], src) /\ NoShorter(S[c + 1], Nodes)
  /\ \A e \in DOMAIN regs : regs[e].at = "min" => S[c + 1][e[2]] <= regs[e].dist
  /\ Frontier \subseteq src /\ out \subseteq dst
  /\ \A e \in todo \cup DOMAIN regs : e[1] \in Frontier /\ e[2] \in dst
  /\ \A x \in Nodes : x \in Frontier \/ Lowered(x) => ShortestPathLen[x] < Inf
  /\ \A e \in GA : Kept(e)
  /\ \A i \in HS!Index : Touched[i] = 1 <=> \E x \in out : x[2] = i

\* and at the end.
Ended(S) == \/ turn = HS!nv - 1 /\ \A v \in HSVerts : ShortestPathLen[v] = -Inf
            \/ /\ turn # HS!nv - 1
               /\ Feasible(GA, Nodes, Inf, ShortestPathLen)
               /\ NoShorter(S[2 * (HS!nv - 1)], Nodes)

HSState(S) == /\ HSType /\ Walks(GA, Nodes, 2 * HS!nv, Inf, S)
              /\ stage = "loop" => Paused(S, 2 * turn)
              /\ stage = "toH" => Relaxing(S, 2 * turn, HSVerts, HSHyperedges)
              /\ stage = "toV" => Relaxing(S, 2 * turn + 1, HSHyperedges, HSVerts)
              /\ stage = "done" => Ended(S)
HSInv == \E S : S = ShortestIn(GA, Nodes, 2 * HS!nv, Inf) /\ HSState(S)

\* A call goes from one side to the other, and an index stands for one node of each.
Across(src, dst) == /\ src \subseteq Nodes /\ dst \subseteq Nodes /\ src \cap dst = {}
                    /\ \A x, y \in dst : x[2] = y[2] => x = y

\* What the inputs give.
LEMMA HSInputs ==
  ASSUME HS!InputsOK
  PROVE  /\ start \in HSVerts /\ Inf \in Nat \ {0} /\ HS!nv \in Nat \ {0}
         /\ Across(HSVerts, HSHyperedges) /\ Across(HSHyperedges, HSVerts)
         /\ \A x \in Nodes : x[2] \in HS!Index
         /\ \A G \in HSGraphs : WalksOn(G, Nodes, 2 * HS!nv, Inf)
         /\ \A G \in HSGraphs : \A e \in G : e[1] \in Nodes /\ e[2] \in Nodes /\ e[3] \in Int
         /\ \A G \in HSGraphs : \A e \in G : e[1] \in HSVerts => e[2] \in HSHyperedges
         /\ \A G \in HSGraphs : \A e \in G : e[1] \in HSHyperedges => e[2] \in HSVerts
<1>1. /\ start \in HSVerts /\ Inf \in Nat \ {0} /\ HSVerts \subseteq {0} \X Nat /\ HSHyperedges \subseteq {1} \X Nat
      /\ \A G \in HSGraphs : G \subseteq (HSVerts \X HSHyperedges \X Int) \cup (HSHyperedges \X HSVerts \X Int)
  BY DEF HS!InputsOK
<1>2. IsFiniteSet(HSVerts) /\ IsFiniteSet(HSHyperedges) /\ \A G \in HSGraphs : IsFiniteSet(G)
  BY DEF HS!InputsOK, HS!IsFiniteSet, IsFiniteSet
<1>3. HS!nv = Cardinality(HSVerts)
  BY DEF HS!nv, HS!Cardinality, Cardinality
<1>4. HS!nv \in Nat \ {0} /\ 2 * HS!nv \in Nat \ {0}
  BY <1>1, <1>2, <1>3, FS_CardinalityType, FS_EmptySet
<1>5. HSVerts \cap HSHyperedges = {}
  BY <1>1
<1>6. Across(HSVerts, HSHyperedges) /\ Across(HSHyperedges, HSVerts)
  BY <1>1, <1>5 DEF Across, Nodes
<1>7. \A x \in Nodes : x[2] \in HS!Index
  BY DEF HS!Index, Nodes
<1>8. /\ \A G \in HSGraphs : \A e \in G : e[1] \in Nodes /\ e[2] \in Nodes /\ e[3] \in Int
      /\ \A G \in HSGraphs : \A e \in G : e[1] \in HSVerts => e[2] \in HSHyperedges
      /\ \A G \in HSGraphs : \A e \in G : e[1] \in HSHyperedges => e[2] \in HSVerts
  BY <1>1, <1>5 DEF Nodes
<1>9. \A G \in HSGraphs : WalksOn(G, Nodes, 2 * HS!nv, Inf)
  <2>1. IsFiniteSet(Nodes) /\ start \in Nodes
    BY <1>1, <1>2, FS_Union DEF Nodes
  <2>2. \A G \in HSGraphs : G \subseteq Nodes \X Nodes \X Int
    BY <1>1 DEF Nodes
  <2> QED BY <1>1, <1>2, <1>4, <2>1, <2>2 DEF WalksOn
<1> QED BY <1>1, <1>4, <1>6, <1>7, <1>8, <1>9

\* What a state of the search and the rows of its graph hold.
LEMMA HSFacts ==
  ASSUME HS!InputsOK, NEW S, HSState(S)
  PROVE  /\ start \in HSVerts /\ Inf \in Nat \ {0} /\ HS!nv \in Nat \ {0} /\ turn \in 0 .. HS!nv - 1
         /\ Across(HSVerts, HSHyperedges) /\ Across(HSHyperedges, HSVerts)
         /\ \A x \in Nodes : x[2] \in HS!Index /\ ShortestPathLen[x] \in Int
         /\ \A e \in GA : e[1] \in Nodes /\ e[2] \in Nodes /\ e[3] \in Int
         /\ \A e \in GA : e[1] \in HSVerts => e[2] \in HSHyperedges
         /\ \A e \in GA : e[1] \in HSHyperedges => e[2] \in HSVerts
         /\ \A i \in 0 .. 2 * HS!nv : \A x \in Nodes : S[i][x] \in Int
         /\ \A j \in 0 .. 2 * HS!nv : \A i \in 0 .. j : \A x \in Nodes : S[j][x] <= S[i][x]
<1>1. GA \in HSGraphs /\ Walks(GA, Nodes, 2 * HS!nv, Inf, S) /\ turn \in 0 .. HS!nv - 1 /\ ShortestPathLen \in [Nodes -> Int]
  BY DEF HSState, HSType
<1>2. WalksOn(GA, Nodes, 2 * HS!nv, Inf)
  BY <1>1, HSInputs
<1>3. /\ \A j \in 0 .. 2 * HS!nv : \A i \in 0 .. j : \A x \in Nodes : S[j][x] <= S[i][x]
      /\ \A i \in 0 .. 2 * HS!nv : S[i] \in [Nodes -> Int]
  BY <1>1, <1>2, WalksBounds
<1> QED BY <1>1, <1>3, HSInputs

\* It holds of the start alone at distance 0.
LEMMA InitHSState ==
  ASSUME HS!InputsOK, HS!Init, NEW S, Walks(GA, Nodes, 2 * HS!nv, Inf, S)
  PROVE  HSState(S)
<1>1. /\ GA \in HSGraphs /\ stage = "loop" /\ Frontier = {start} /\ turn = 0 /\ todo = {} /\ DOMAIN regs = {}
      /\ ShortestPathLen = [x \in Nodes |-> IF x = start THEN 0 ELSE Inf]
      /\ Touched = [i \in HS!Index |-> 0]
  BY DEF HS!Init, HS!NoCall, Nodes
<1>2. /\ start \in HSVerts /\ start \in Nodes /\ Inf \in Nat \ {0} /\ HS!nv \in Nat \ {0}
      /\ \A e \in GA : e[1] \in Nodes
  BY <1>1, HSInputs DEF Nodes
<1>3. HSType
  BY <1>1, <1>2 DEF HSType, RegsOK
<1>4. Far /\ NoShorter(S[0], Nodes)
  BY <1>1, <1>2 DEF Far, NoShorter, Walks
<1>5. HS!NothingIsLost
  BY <1>1, <1>2 DEF HS!NothingIsLost
<1> QED BY <1>1, <1>2, <1>3, <1>4, <1>5 DEF HSState, Paused

\* The loop gives up,
LEMMA NegativeCycleKeepsHSState ==
  ASSUME HS!InputsOK, NEW S, HSState(S), HS!NegativeCycle
  PROVE  HSState(S)'
<1>1. /\ stage = "loop" /\ turn = HS!nv - 1 /\ stage' = "done" /\ GA' = GA /\ turn' = turn
      /\ todo' = todo /\ regs' = regs /\ Touched' = Touched
      /\ ShortestPathLen' = [x \in Nodes |-> IF x \in HSVerts THEN -Inf ELSE ShortestPathLen[x]]
  BY DEF HS!NegativeCycle, HS!callVars, Nodes
<1>2. Inf \in Int /\ ShortestPathLen \in [Nodes -> Int] /\ \A v \in HSVerts : v \in Nodes
  <2>1. ShortestPathLen \in [Nodes -> Int] /\ \A v \in HSVerts : v \in Nodes
    BY DEF HSState, HSType, Nodes
  <2> QED BY <2>1, HSInputs
<1>3. HSType'
  BY <1>1, <1>2 DEF HSState, HSType, RegsOK
<1>4. Ended(S)'
  BY <1>1, <1>2 DEF Ended
<1> QED BY <1>1, <1>3, <1>4 DEF HSState, Walks

\* or calls vertexProp: every edge out of the frontier is to be taken.
LEMMA CallRelaxes ==
  ASSUME HS!InputsOK, NEW S, HSState(S), NEW c \in 0 .. 2 * HS!nv - 1, NEW src, NEW dst, Across(src, dst),
         Frontier' \subseteq src, \A x \in Frontier' : ShortestPathLen[x] < Inf,
         \A e \in GA : e[1] \in src => e[2] \in dst,
         Far, NoShorter(S[c], Nodes),
         \A e \in GA : ShortestPathLen[e[1]] = Inf \/ e[1] \in Frontier' \/ Relaxed(e),
         \A i \in HS!Index : Touched'[i] = 0,
         GA' = GA, ShortestPathLen' = ShortestPathLen, HS!Begin(HS!OutOf(Frontier'))
  PROVE  /\ Relaxing(S, c, src, dst)' /\ out' = {} /\ regs' = <<>>
         /\ todo' \subseteq GA
<1>1. out' = {} /\ regs' = <<>> /\ DOMAIN regs' = {} /\ todo' = {e \in GA : e[1] \in Frontier'}
  BY DEF HS!Begin, HS!OutOf
<1>2. Far' /\ NoShorter(S[c], src)'
  BY DEF Across, Far, NoShorter
<1>3. NoShorter(S[c + 1], Nodes)'
  <2> SUFFICES ASSUME NEW x \in Nodes PROVE S[c + 1][x] <= ShortestPathLen[x]
    BY DEF NoShorter
  <2>1. c + 1 \in 0 .. 2 * HS!nv /\ c \in 0 .. c + 1 /\ c \in 0 .. 2 * HS!nv
    BY HSFacts
  <2>2. S[c + 1][x] <= S[c][x] /\ S[c + 1][x] \in Int /\ S[c][x] \in Int /\ ShortestPathLen[x] \in Int
    BY <2>1, HSFacts
  <2>3. S[c][x] <= ShortestPathLen[x]
    BY DEF NoShorter
  <2> QED BY <2>2, <2>3
<1>4. \A e \in todo' \cup DOMAIN regs' : e[1] \in Frontier' /\ e[2] \in dst
  BY <1>1
<1>5. \A x \in Nodes : x \in Frontier' \/ Lowered(x)' => ShortestPathLen[x] < Inf
  BY <1>1 DEF Lowered, Marking
<1>6. \A e \in GA : Kept(e)'
  BY <1>1 DEF Kept, Relaxed
<1> QED BY <1>1, <1>2, <1>3, <1>4, <1>5, <1>6 DEF Relaxing

LEMMA VertexPropKeepsHSState ==
  ASSUME HS!InputsOK, NEW S, HSState(S), HS!VertexProp
  PROVE  HSState(S)'
<1>1. /\ stage = "loop" /\ turn # HS!nv - 1 /\ stage' = "toH" /\ HS!Begin(HS!OutOf(Frontier))
      /\ GA' = GA /\ Frontier' = Frontier /\ turn' = turn
      /\ ShortestPathLen' = ShortestPathLen /\ Touched' = Touched
  BY DEF HS!VertexProp, HS!bfVars
<1>2. /\ Far /\ NoShorter(S[2 * turn], Nodes)
      /\ Frontier \subseteq HSVerts /\ \A x \in Frontier : ShortestPathLen[x] < Inf
      /\ \A e \in GA : ShortestPathLen[e[1]] = Inf \/ e[1] \in Frontier \/ Relaxed(e)
      /\ \A i \in HS!Index : Touched[i] = 0
  BY <1>1 DEF HSState, Paused, HS!NothingIsLost, Relaxed
<1>3. /\ Across(HSVerts, HSHyperedges) /\ 2 * turn \in 0 .. 2 * HS!nv - 1
      /\ \A e \in GA : e[1] \in HSVerts => e[2] \in HSHyperedges
  BY HSFacts
<1>4. Relaxing(S, 2 * turn, HSVerts, HSHyperedges)' /\ out' = {} /\ regs' = <<>> /\ todo' \subseteq GA
  <2>1. PICK c \in 0 .. 2 * HS!nv - 1 : c = 2 * turn
    BY <1>3
  <2>2. Relaxing(S, c, HSVerts, HSHyperedges)' /\ out' = {} /\ regs' = <<>> /\ todo' \subseteq GA
    <3>1. /\ Frontier' \subseteq HSVerts /\ \A x \in Frontier' : ShortestPathLen[x] < Inf
          /\ \A e \in GA : ShortestPathLen[e[1]] = Inf \/ e[1] \in Frontier' \/ Relaxed(e)
          /\ \A i \in HS!Index : Touched'[i] = 0
          /\ Far /\ NoShorter(S[c], Nodes) /\ HS!Begin(HS!OutOf(Frontier'))
      BY <1>1, <1>2, <2>1
    <3> QED BY <1>1, <1>3, <3>1, CallRelaxes
  <2> QED BY <1>1, <2>1, <2>2
<1>5. HSType'
  BY <1>1, <1>4 DEF HSState, HSType, RegsOK
<1> QED BY <1>1, <1>4, <1>5 DEF HSState, Walks

\* Reading a source's distance,
LEMMA ReadDistRelaxes ==
  ASSUME HS!InputsOK, NEW S, HSState(S), NEW c \in 0 .. 2 * HS!nv - 1, NEW src, NEW dst, Across(src, dst),
         stage \in {"toH", "toV"}, Relaxing(S, c, src, dst), NEW e \in todo, HS!ReadDist(e)
  PROVE  HSType' /\ Relaxing(S, c, src, dst)'
<1>1. /\ stage' = stage /\ GA' = GA /\ Frontier' = Frontier /\ out' = out /\ turn' = turn
      /\ ShortestPathLen' = ShortestPathLen /\ Touched' = Touched
      /\ todo' = todo \ {e}
      /\ regs' = [x \in DOMAIN regs \cup {e} |->
                    IF x = e THEN [at |-> "min", dist |-> ShortestPathLen[e[1]] + e[3]] ELSE regs[x]]
  BY DEF HS!ReadDist, HS!Enter, HS!mainVars, HS!bfVars
<1>2. /\ todo \subseteq GA /\ RegsOK /\ todo \cap DOMAIN regs = {} /\ Walks(GA, Nodes, 2 * HS!nv, Inf, S)
      /\ stage \notin {"loop", "done"}
  BY DEF HSState, HSType
<1>3. /\ e \in GA /\ e[1] \in Nodes /\ e[2] \in Nodes /\ e[3] \in Int /\ e[1] \in src /\ e[1] \in Frontier
      /\ ShortestPathLen[e[1]] \in Int
  <2>1. e \in GA /\ e[1] \in Frontier /\ e[1] \in src
    BY <1>2 DEF Relaxing
  <2> QED BY <2>1, HSFacts
<1>4. HSType'
  BY <1>1, <1>2, <1>3 DEF HSState, HSType, RegsOK
<1>5. /\ DOMAIN regs' = DOMAIN regs \cup {e} /\ \A x \in DOMAIN regs : x # e /\ regs'[x] = regs[x]
      /\ regs'[e].at = "min" /\ regs'[e].dist = ShortestPathLen[e[1]] + e[3]
  BY <1>1, <1>2
<1>6. S[c + 1][e[2]] <= ShortestPathLen[e[1]] + e[3]
  <2>1. /\ c \in 0 .. 2 * HS!nv /\ c + 1 \in 0 .. 2 * HS!nv /\ Inf \in Int
        /\ S[c][e[1]] \in Int /\ S[c + 1][e[2]] \in Int
    <3>1. c \in 0 .. 2 * HS!nv /\ c + 1 \in 0 .. 2 * HS!nv /\ Inf \in Int
      BY HSFacts
    <3> QED BY <1>3, <3>1, HSFacts
  <2>2. S[c][e[1]] <= ShortestPathLen[e[1]] /\ ShortestPathLen[e[1]] < Inf
    BY <1>3 DEF Relaxing, NoShorter
  <2>3. S[c][e[1]] # Inf
    BY <1>3, <2>1, <2>2
  <2>4. S[c + 1][e[2]] <= S[c][e[1]] + e[3]
    BY <1>2, <1>3, <2>3 DEF Walks
  <2> QED BY <1>3, <2>1, <2>2, <2>4
<1>7. Far' /\ NoShorter(S[c], src)' /\ NoShorter(S[c + 1], Nodes)'
  BY <1>1 DEF Relaxing, Far, NoShorter
<1>8. \A x \in DOMAIN regs' : regs'[x].at = "min" => S[c + 1][x[2]] <= regs'[x].dist
  BY <1>5, <1>6 DEF Relaxing
<1>9. \A x \in todo' \cup DOMAIN regs' : x[1] \in Frontier /\ x[2] \in dst
  BY <1>1, <1>5 DEF Relaxing
<1>10. \A x : Marking(x)' <=> Marking(x)
  BY <1>5 DEF Marking
<1>11. \A x \in Nodes : x \in Frontier' \/ Lowered(x)' => ShortestPathLen'[x] < Inf
  BY <1>1, <1>10 DEF Relaxing, Lowered
<1>12. ASSUME NEW x \in GA PROVE Kept(x)'
  <2>1. Kept(x)
    BY DEF Relaxing
  <2>2. CASE x = e
    BY <1>1, <1>3, <1>5, <2>2 DEF Kept, UnderWay
  <2>3. CASE x # e
    BY <1>1, <1>5, <1>10, <2>1, <2>3 DEF Kept, UnderWay, Lowered, Relaxed
  <2> QED BY <2>2, <2>3
<1> QED BY <1>1, <1>4, <1>7, <1>8, <1>9, <1>11, <1>12 DEF Relaxing

\* lowering a target's,
LEMMA WriteMinDistRelaxes ==
  ASSUME HS!InputsOK, NEW S, HSState(S), NEW c \in 0 .. 2 * HS!nv - 1, NEW src, NEW dst, Across(src, dst),
         stage \in {"toH", "toV"}, Relaxing(S, c, src, dst), NEW e \in DOMAIN regs, HS!WriteMinDist(e)
  PROVE  HSType' /\ Relaxing(S, c, src, dst)'
<1>1. /\ regs[e].at = "min" /\ GA' = GA /\ stage' = stage /\ Frontier' = Frontier
      /\ todo' = todo /\ Touched' = Touched /\ turn' = turn
  BY DEF HS!WriteMinDist, HS!mainVars, HS!Local, HS!Answer
<1>2. /\ HSType /\ RegsOK /\ ShortestPathLen \in [Nodes -> Int] /\ stage \notin {"loop", "done"}
      /\ e \in GA /\ regs[e].dist \in Int
  BY DEF HSState, HSType, RegsOK
<1>3. /\ e[1] \in Nodes /\ e[2] \in Nodes /\ e[3] \in Int /\ e[2] \in dst /\ Inf \in Int /\ start \in Nodes
      /\ \A x \in GA : Kept(x) /\ x[1] \in Nodes /\ x[2] \in Nodes /\ x[3] \in Int
      /\ \A x \in src : x \in Nodes /\ x # e[2]
  <2>1. e[2] \in dst /\ \A x \in GA : Kept(x)
    BY DEF Relaxing
  <2>2. \A x \in src : x \in Nodes /\ x # e[2]
    BY <2>1 DEF Across
  <2>3. start \in Nodes
    BY HSFacts DEF Nodes
  <2> QED BY <1>2, <2>1, <2>2, <2>3, HSFacts
<1>4. CASE regs[e].dist < ShortestPathLen[e[2]]
  <2>1. /\ ShortestPathLen' = [ShortestPathLen EXCEPT ![e[2]] = regs[e].dist]
        /\ regs' = [regs EXCEPT ![e] = [regs[e] EXCEPT !.at = "mark"]] /\ out' = out
    BY <1>4 DEF HS!WriteMinDist, HS!Local
  <2>2. DOMAIN regs' = DOMAIN regs /\ regs'[e].at = "mark"
        /\ \A x \in DOMAIN regs : x # e => regs'[x] = regs[x]
    BY <1>2, <2>1 DEF RegsOK
  <2>3. HSType'
    BY <1>1, <1>2, <1>3, <2>1 DEF HSType, RegsOK
  <2>4. Marking(e[2])' /\ (\A x : Marking(x) => Marking(x)') /\ \A x : Marking(x)' => Marking(x) \/ x = e[2]
    BY <1>1, <2>2 DEF Marking
  <2>5. /\ ShortestPathLen'[e[2]] = regs[e].dist
        /\ \A x \in Nodes : /\ x # e[2] => ShortestPathLen'[x] = ShortestPathLen[x]
                         /\ ShortestPathLen'[x] <= ShortestPathLen[x]
                         /\ ShortestPathLen'[x] \in Int /\ ShortestPathLen[x] \in Int
    BY <1>2, <1>3, <1>4, <2>1
  <2>6. ASSUME NEW x \in GA PROVE Kept(x)'
    <3>0. Kept(x) /\ x[1] \in Nodes /\ x[2] \in Nodes /\ x[3] \in Int
      BY <1>3
    <3>1. CASE x[1] = e[2]
      BY <2>4, <3>1 DEF Kept, Lowered
    <3>2. CASE x[1] # e[2] /\ x = e /\ UnderWay(x)
      BY <1>2, <1>3, <2>5, <3>2 DEF Kept, UnderWay, Relaxed
    <3>3. CASE x[1] # e[2] /\ x # e /\ UnderWay(x)
      BY <2>2, <2>5, <3>0, <3>3 DEF Kept, UnderWay
    <3>4. CASE x[1] # e[2] /\ Relaxed(x)
      <4>1. /\ ShortestPathLen'[x[1]] = ShortestPathLen[x[1]] /\ ShortestPathLen'[x[2]] <= ShortestPathLen[x[2]]
            /\ ShortestPathLen'[x[2]] \in Int /\ ShortestPathLen[x[2]] \in Int /\ ShortestPathLen[x[1]] \in Int
        BY <2>5, <3>0, <3>4
      <4> QED BY <3>0, <4>1, <3>4 DEF Kept, Relaxed
    <3>5. CASE x[1] # e[2] /\ ~UnderWay(x) /\ ~Relaxed(x)
      BY <1>1, <2>1, <2>4, <2>5, <3>0, <3>5 DEF Kept, Lowered
    <3> QED BY <3>1, <3>2, <3>3, <3>4, <3>5
  <2>7. Far'
    <3>1. ShortestPathLen[start] <= 0 /\ \A x \in Nodes : ShortestPathLen[x] <= Inf
      BY DEF Relaxing, Far
    <3> QED BY <1>3, <2>5, <3>1 DEF Far
  <2>8. NoShorter(S[c], src)'
    BY <1>3, <2>5 DEF Relaxing, NoShorter
  <2>9. NoShorter(S[c + 1], Nodes)'
    <3>1. S[c + 1][e[2]] <= regs[e].dist /\ \A x \in Nodes : S[c + 1][x] <= ShortestPathLen[x]
      BY <1>1 DEF Relaxing, NoShorter
    <3> QED BY <2>5, <3>1 DEF NoShorter
  <2>10. \A x \in DOMAIN regs' : regs'[x].at = "min" => S[c + 1][x[2]] <= regs'[x].dist
    BY <2>2 DEF Relaxing
  <2>11. \A x \in Nodes : x \in Frontier' \/ Lowered(x)' => ShortestPathLen'[x] < Inf
    <3> SUFFICES ASSUME NEW x \in Nodes, x \in Frontier \/ Lowered(x)' PROVE ShortestPathLen'[x] < Inf
      BY <1>1
    <3>1. ShortestPathLen[e[2]] <= Inf /\ (x \in Frontier \/ Lowered(x) => ShortestPathLen[x] < Inf)
      BY <1>3 DEF Relaxing, Far
    <3>2. CASE x = e[2]
      <4>1. ShortestPathLen'[e[2]] < ShortestPathLen[e[2]] /\ ShortestPathLen'[e[2]] \in Int /\ ShortestPathLen[e[2]] \in Int
        BY <1>3, <1>4, <2>5
      <4> QED BY <1>3, <3>1, <3>2, <4>1
    <3>3. CASE x # e[2]
      BY <2>1, <2>4, <2>5, <3>1, <3>3 DEF Lowered
    <3> QED BY <3>2, <3>3
  <2>12. \A x \in todo' \cup DOMAIN regs' : x[1] \in Frontier /\ x[2] \in dst
    BY <1>1, <2>2 DEF Relaxing
  <2> QED BY <1>1, <2>1, <2>3, <2>6, <2>7, <2>8, <2>9, <2>10, <2>11, <2>12 DEF Relaxing
<1>5. CASE ~(regs[e].dist < ShortestPathLen[e[2]])
  <2>1. /\ ShortestPathLen' = ShortestPathLen /\ out' = out
        /\ regs' = [x \in DOMAIN regs \ {e} |-> regs[x]]
    BY <1>5 DEF HS!WriteMinDist, HS!Answer
  <2>2. HSType'
    BY <1>1, <1>2, <2>1 DEF HSType, RegsOK
  <2>3. \A x : Marking(x)' <=> Marking(x)
    BY <1>1, <2>1 DEF Marking
  <2>4. UnderWay(e) => Relaxed(e)
    <3>1. ShortestPathLen[e[1]] \in Int /\ ShortestPathLen[e[2]] \in Int
      BY <1>2, <1>3
    <3> QED BY <1>2, <1>3, <1>5, <3>1 DEF UnderWay, Relaxed
  <2>5. ASSUME NEW x \in GA PROVE Kept(x)'
    <3>1. Kept(x) /\ (UnderWay(x) => UnderWay(x)' \/ Relaxed(x))
      BY <1>1, <1>3, <2>1, <2>4 DEF UnderWay
    <3> QED BY <1>1, <2>1, <2>3, <3>1 DEF Kept, Lowered, Relaxed
  <2>6. Far' /\ NoShorter(S[c], src)' /\ NoShorter(S[c + 1], Nodes)'
    BY <2>1 DEF Relaxing, Far, NoShorter
  <2>7. \A x \in DOMAIN regs' : x \in DOMAIN regs /\ regs'[x] = regs[x]
    BY <2>1
  <2>8. \A x \in Nodes : x \in Frontier' \/ Lowered(x)' => ShortestPathLen'[x] < Inf
    BY <1>1, <2>1, <2>3 DEF Relaxing, Lowered
  <2> QED BY <1>1, <2>1, <2>2, <2>5, <2>6, <2>7, <2>8 DEF Relaxing
<1> QED BY <1>4, <1>5

\* and the CAS on Visited: a mark at the target's index is its own, for the call marks
\* nodes of one side, and then the target has been reported.
LEMMA MarkVisitedRelaxes ==
  ASSUME HS!InputsOK, NEW S, HSState(S), NEW c \in 0 .. 2 * HS!nv - 1, NEW src, NEW dst, Across(src, dst),
         stage \in {"toH", "toV"}, Relaxing(S, c, src, dst), NEW e \in DOMAIN regs, HS!MarkVisited(e)
  PROVE  HSType' /\ Relaxing(S, c, src, dst)'
<1>1. /\ regs[e].at = "mark" /\ GA' = GA /\ stage' = stage /\ Frontier' = Frontier
      /\ todo' = todo /\ ShortestPathLen' = ShortestPathLen /\ turn' = turn
      /\ Touched' = [Touched EXCEPT ![e[2][2]] = 1]
      /\ regs' = [x \in DOMAIN regs \ {e} |-> regs[x]]
      /\ out' = IF Touched[e[2][2]] = 0 THEN out \cup {e[2]} ELSE out
  BY DEF HS!MarkVisited, HS!mainVars, HS!Answer
<1>2. /\ HSType /\ RegsOK /\ Touched \in [HS!Index -> {0, 1}] /\ e \in GA /\ stage \notin {"loop", "done"}
  BY DEF HSState, HSType, RegsOK
<1>3. /\ e[2] \in Nodes /\ e[2] \in dst /\ e[2][2] \in HS!Index
      /\ \A i \in HS!Index : Touched[i] = 1 <=> \E x \in out : x[2] = i
      /\ out \subseteq dst /\ \A x, y \in dst : x[2] = y[2] => x = y
  <2>1. /\ e[2] \in dst /\ out \subseteq dst
        /\ \A i \in HS!Index : Touched[i] = 1 <=> \E x \in out : x[2] = i
    BY DEF Relaxing
  <2> QED BY <1>2, <2>1, HSFacts DEF Across
<1>4. HSType'
  BY <1>1, <1>2, <1>3 DEF HSType, RegsOK
<1>5. out' = out \cup {e[2]}
  <2>1. CASE Touched[e[2][2]] = 0
    BY <1>1, <2>1
  <2>2. CASE Touched[e[2][2]] # 0
    <3>1. Touched[e[2][2]] = 1
      BY <1>2, <1>3, <2>2
    <3>2. PICK x \in out : x[2] = e[2][2]
      BY <1>3, <3>1
    <3> QED BY <1>1, <1>3, <2>2, <3>2
  <2> QED BY <2>1, <2>2
<1>6. \A i \in HS!Index : Touched'[i] = 1 <=> \E x \in out' : x[2] = i
  BY <1>1, <1>2, <1>3, <1>5
<1>7. \A x : Lowered(x)' <=> Lowered(x)
  <2>1. \A x : Marking(x)' => Marking(x)
    BY <1>1 DEF Marking
  <2>2. Marking(e[2])
    BY <1>1 DEF Marking
  <2>3. \A x : Marking(x) => Marking(x)' \/ x = e[2]
    BY <1>1 DEF Marking
  <2> QED BY <1>5, <2>1, <2>2, <2>3 DEF Lowered
<1>8. ASSUME NEW x \in GA PROVE Kept(x)'
  <2>1. Kept(x)
    BY DEF Relaxing
  <2>2. UnderWay(x) => UnderWay(x)'
    BY <1>1 DEF UnderWay
  <2> QED BY <1>1, <1>7, <2>1, <2>2 DEF Kept, Relaxed
<1>9. Far' /\ NoShorter(S[c], src)' /\ NoShorter(S[c + 1], Nodes)'
  BY <1>1 DEF Relaxing, Far, NoShorter
<1>10. \A x \in DOMAIN regs' : x \in DOMAIN regs /\ regs'[x] = regs[x]
  BY <1>1
<1>11. \A x \in Nodes : x \in Frontier' \/ Lowered(x)' => ShortestPathLen'[x] < Inf
  BY <1>1, <1>7 DEF Relaxing
<1>12. /\ \A x \in DOMAIN regs' : regs'[x].at = "min" => S[c + 1][x[2]] <= regs'[x].dist
       /\ \A x \in todo' \cup DOMAIN regs' : x[1] \in Frontier' /\ x[2] \in dst
  BY <1>1, <1>10 DEF Relaxing
<1>13. Frontier' \subseteq src /\ out' \subseteq dst
  BY <1>1, <1>3, <1>5 DEF Relaxing
<1> QED BY <1>1, <1>4, <1>6, <1>8, <1>9, <1>11, <1>12, <1>13 DEF Relaxing

\* So the steps of a call's workers keep it.
LEMMA CallKeepsHSState ==
  ASSUME HS!InputsOK, NEW S, HSState(S),
         \/ \E e \in todo : HS!ReadDist(e)
         \/ \E e \in DOMAIN regs : HS!WriteMinDist(e) \/ HS!MarkVisited(e)
  PROVE  HSState(S)'
<1>1. /\ GA' = GA /\ stage' = stage /\ turn' = turn
  BY DEF HS!ReadDist, HS!WriteMinDist, HS!MarkVisited, HS!mainVars, HS!bfVars
<1>2. stage \in {"toH", "toV"} /\ Walks(GA, Nodes, 2 * HS!nv, Inf, S)
  BY DEF HSState, HSType
<1>3. /\ Across(HSVerts, HSHyperedges) /\ Across(HSHyperedges, HSVerts)
      /\ HS!nv \in Nat \ {0} /\ turn \in 0 .. HS!nv - 1
  BY HSFacts
<1>4. CASE stage = "toH"
  <2>1. PICK c \in 0 .. 2 * HS!nv - 1 : c = 2 * turn
    BY <1>3
  <2>2. Relaxing(S, c, HSVerts, HSHyperedges)
    BY <1>4, <2>1 DEF HSState
  <2>3. HSType' /\ Relaxing(S, c, HSVerts, HSHyperedges)'
    BY <1>2, <1>3, <2>2, ReadDistRelaxes, WriteMinDistRelaxes, MarkVisitedRelaxes
  <2> QED BY <1>1, <1>2, <1>4, <2>1, <2>3 DEF HSState, Walks
<1>5. CASE stage = "toV"
  <2>1. PICK c \in 0 .. 2 * HS!nv - 1 : c = 2 * turn + 1
    BY <1>3
  <2>2. Relaxing(S, c, HSHyperedges, HSVerts)
    BY <1>5, <2>1 DEF HSState
  <2>3. HSType' /\ Relaxing(S, c, HSHyperedges, HSVerts)'
    BY <1>2, <1>3, <2>2, ReadDistRelaxes, WriteMinDistRelaxes, MarkVisitedRelaxes
  <2> QED BY <1>1, <1>2, <1>5, <2>1, <2>3 DEF HSState, Walks
<1> QED BY <1>2, <1>4, <1>5

\* A call that has returned leaves every mark off, and an edge that can still lower its
\* target starts in what it reported.
LEMMA ReturnedCall ==
  ASSUME HS!InputsOK, NEW S, HSState(S), NEW c, NEW src, NEW dst,
         stage \in {"toH", "toV"}, Relaxing(S, c, src, dst), HS!Returned, Touched' = HS!Reset
  PROVE  /\ Far /\ NoShorter(S[c + 1], Nodes) /\ out \subseteq dst
         /\ \A x \in out : x \in Nodes => ShortestPathLen[x] < Inf
         /\ \A e \in GA : ShortestPathLen[e[1]] = Inf \/ e[1] \in out \/ Relaxed(e)
         /\ \A i \in HS!Index : Touched'[i] = 0
         /\ Touched' \in [HS!Index -> {0, 1}]
<1>1. todo = {} /\ DOMAIN regs = {} /\ Touched \in [HS!Index -> {0, 1}]
  BY DEF HS!Returned, HSState, HSType
<1>2. /\ Far /\ NoShorter(S[c + 1], Nodes) /\ out \subseteq dst
      /\ \A x \in out : x \in Nodes => ShortestPathLen[x] < Inf
  BY DEF Relaxing, Lowered
<1>3. \A e \in GA : ShortestPathLen[e[1]] = Inf \/ e[1] \in out \/ Relaxed(e)
  BY <1>1 DEF Relaxing, Kept, UnderWay, Lowered, Marking
<1>4. \A i \in HS!Index : Touched[i] = 1 <=> \E x \in out : x[2] = i
  BY DEF Relaxing
<1>5. Touched' = [i \in HS!Index |-> IF \E x \in out : x[2] = i THEN 0 ELSE Touched[i]]
  BY DEF HS!Reset
<1>6. \A i \in HS!Index : Touched'[i] = 0
  BY <1>1, <1>4, <1>5
<1>7. Touched' \in [HS!Index -> {0, 1}]
  BY <1>1, <1>5
<1> QED BY <1>2, <1>3, <1>6, <1>7

\* An empty frontier ends the search, before it has made 2 * (nv - 1) calls.
LEMMA EmptyEnds ==
  ASSUME HS!InputsOK, NEW S, HSState(S), NEW c \in 0 .. 2 * HS!nv - 3, turn # HS!nv - 1,
         Far, NoShorter(S[c + 1], Nodes), \A e \in GA : ShortestPathLen[e[1]] = Inf \/ Relaxed(e)
  PROVE  Ended(S)
<1>1. ShortestPathLen \in [Nodes -> Int] /\ \A x \in Nodes : ShortestPathLen[x] \in Int
  BY DEF HSState, HSType
<1>2. Feasible(GA, Nodes, Inf, ShortestPathLen)
  BY <1>1 DEF Feasible, Far, Relaxed
<1>3. NoShorter(S[2 * (HS!nv - 1)], Nodes)
  <2> SUFFICES ASSUME NEW x \in Nodes PROVE S[2 * (HS!nv - 1)][x] <= ShortestPathLen[x]
    BY DEF NoShorter
  <2> DEFINE j == 2 * (HS!nv - 1)
  <2>1. j \in 0 .. 2 * HS!nv /\ c + 1 \in 0 .. j /\ c + 1 \in 0 .. 2 * HS!nv
    <3>1. HS!nv \in Nat \ {0}
      BY HSFacts
    <3> QED BY <3>1
  <2> HIDE DEF j
  <2>2. S[j][x] <= S[c + 1][x] /\ S[j][x] \in Int /\ S[c + 1][x] \in Int
    BY <2>1, HSFacts
  <2>3. S[c + 1][x] <= ShortestPathLen[x]
    BY DEF NoShorter
  <2>4. S[j][x] <= ShortestPathLen[x]
    BY <1>1, <2>2, <2>3
  <2> QED BY <2>4 DEF j
<1> QED BY <1>2, <1>3 DEF Ended

LEMMA FromVerticesKeepsHSState ==
  ASSUME HS!InputsOK, NEW S, HSState(S), HS!FromVertices
  PROVE  HSState(S)'
<1>1. /\ stage = "toH" /\ HS!Returned /\ Touched' = HS!Reset /\ Frontier' = out
      /\ GA' = GA /\ turn' = turn /\ ShortestPathLen' = ShortestPathLen
  BY DEF HS!FromVertices
<1>2. /\ HS!nv \in Nat \ {0} /\ turn \in 0 .. HS!nv - 2 /\ turn # HS!nv - 1
      /\ Across(HSHyperedges, HSVerts) /\ \A e \in GA : e[1] \in HSHyperedges => e[2] \in HSVerts
  BY <1>1, HSFacts DEF HSState, HSType
<1>3. PICK c \in 0 .. 2 * HS!nv - 3 : c = 2 * turn
  BY <1>2
<1>4. Relaxing(S, c, HSVerts, HSHyperedges)
  BY <1>1, <1>3 DEF HSState
<1>5. /\ Far /\ NoShorter(S[c + 1], Nodes) /\ out \subseteq HSHyperedges
      /\ \A x \in out : x \in Nodes => ShortestPathLen[x] < Inf
      /\ \A e \in GA : ShortestPathLen[e[1]] = Inf \/ e[1] \in out \/ Relaxed(e)
      /\ \A i \in HS!Index : Touched'[i] = 0
      /\ Touched' \in [HS!Index -> {0, 1}]
  BY <1>1, <1>4, ReturnedCall
<1>6. CASE out = {}
  <2>1. stage' = "done" /\ todo' = todo /\ regs' = regs
    BY <1>6 DEF HS!FromVertices, HS!callVars
  <2>2. HSType'
    BY <1>1, <1>5, <2>1 DEF HSState, HSType, RegsOK, HS!Returned
  <2>3. Ended(S)
    BY <1>2, <1>5, <1>6, EmptyEnds
  <2> QED BY <1>1, <2>1, <2>2, <2>3 DEF HSState, Walks, Ended, Feasible, NoShorter
<1>7. CASE out # {}
  <2>1. stage' = "toV" /\ HS!Begin(HS!OutOf(out))
    BY <1>7 DEF HS!FromVertices
  <2>2. PICK d \in 0 .. 2 * HS!nv - 1 : d = c + 1
    BY <1>2, <1>3
  <2>3. Relaxing(S, d, HSHyperedges, HSVerts)' /\ out' = {} /\ regs' = <<>> /\ todo' \subseteq GA
    <3>1. /\ Frontier' \subseteq HSHyperedges /\ \A x \in Frontier' : ShortestPathLen[x] < Inf
          /\ \A e \in GA : ShortestPathLen[e[1]] = Inf \/ e[1] \in Frontier' \/ Relaxed(e)
          /\ Far /\ NoShorter(S[d], Nodes) /\ HS!Begin(HS!OutOf(Frontier'))
      BY <1>1, <1>5, <2>1, <2>2 DEF Nodes
    <3> QED BY <1>1, <1>2, <1>5, <3>1, CallRelaxes
  <2>4. HSType'
    BY <1>1, <1>2, <1>5, <2>1, <2>3 DEF HSState, HSType, RegsOK
  <2>5. Walks(GA, Nodes, 2 * HS!nv, Inf, S)' /\ stage' = "toV" /\ 2 * turn' + 1 = d
    BY <1>1, <1>3, <2>1, <2>2 DEF HSState, Walks
  <2> QED BY <2>3, <2>4, <2>5 DEF HSState
<1> QED BY <1>6, <1>7

LEMMA FromHyperedgesKeepsHSState ==
  ASSUME HS!InputsOK, NEW S, HSState(S), HS!FromHyperedges
  PROVE  HSState(S)'
<1>1. /\ stage = "toV" /\ HS!Returned /\ Touched' = HS!Reset /\ Frontier' = out
      /\ GA' = GA /\ todo' = todo /\ regs' = regs /\ out' = out /\ ShortestPathLen' = ShortestPathLen
  BY DEF HS!FromHyperedges, HS!callVars
<1>2. /\ HS!nv \in Nat \ {0} /\ turn \in 0 .. HS!nv - 2 /\ turn # HS!nv - 1
  BY <1>1, HSFacts DEF HSState, HSType
<1>3. PICK c \in 0 .. 2 * HS!nv - 3 : c = 2 * turn + 1
  BY <1>2
<1>4. Relaxing(S, c, HSHyperedges, HSVerts)
  BY <1>1, <1>3 DEF HSState
<1>5. /\ Far /\ NoShorter(S[c + 1], Nodes) /\ out \subseteq HSVerts
      /\ \A x \in out : x \in Nodes => ShortestPathLen[x] < Inf
      /\ \A e \in GA : ShortestPathLen[e[1]] = Inf \/ e[1] \in out \/ Relaxed(e)
      /\ \A i \in HS!Index : Touched'[i] = 0
      /\ Touched' \in [HS!Index -> {0, 1}]
  BY <1>1, <1>4, ReturnedCall
<1>6. CASE out = {}
  <2>1. stage' = "done" /\ turn' = turn
    BY <1>6 DEF HS!FromHyperedges
  <2>2. HSType'
    BY <1>1, <1>5, <2>1 DEF HSState, HSType, RegsOK, HS!Returned
  <2>3. Ended(S)
    BY <1>2, <1>5, <1>6, EmptyEnds
  <2> QED BY <1>1, <2>1, <2>2, <2>3 DEF HSState, Walks, Ended, Feasible, NoShorter
<1>7. CASE out # {}
  <2>1. stage' = "loop" /\ turn' = turn + 1
    BY <1>7 DEF HS!FromHyperedges
  <2>2. HSType'
    BY <1>1, <1>2, <1>5, <2>1 DEF HSState, HSType, RegsOK, HS!Returned
  <2>3. HS!NothingIsLost'
    BY <1>1, <1>5 DEF HS!NothingIsLost, Relaxed
  <2>4. PICK d \in Nat : d = c + 1
    BY <1>3
  <2>5. Paused(S, d)'
    BY <1>1, <1>5, <2>3, <2>4 DEF Paused, Far, NoShorter, Nodes
  <2>6. 2 * turn' = d /\ stage' = "loop" /\ Walks(GA, Nodes, 2 * HS!nv, Inf, S)'
    BY <1>1, <1>2, <1>3, <2>1, <2>4 DEF HSState, Walks
  <2> QED BY <2>2, <2>5, <2>6 DEF HSState
<1> QED BY <1>6, <1>7

\* Every step keeps it.
LEMMA HSInvKept == HS!InputsOK /\ HSInv /\ [HS!Next]_(HS!vars) => HSInv'
<1> SUFFICES ASSUME HS!InputsOK, HSInv, [HS!Next]_(HS!vars) PROVE HSInv'
  OBVIOUS
<1>1. PICK S : S = ShortestIn(GA, Nodes, 2 * HS!nv, Inf) /\ HSState(S)
  BY DEF HSInv
<1>2. HSState(S)'
  <2>1. CASE HS!NegativeCycle
    BY <1>1, <2>1, NegativeCycleKeepsHSState
  <2>2. CASE HS!VertexProp
    BY <1>1, <2>2, VertexPropKeepsHSState
  <2>3. CASE HS!FromVertices
    BY <1>1, <2>3, FromVerticesKeepsHSState
  <2>4. CASE HS!FromHyperedges
    BY <1>1, <2>4, FromHyperedgesKeepsHSState
  <2>5. CASE \/ \E e \in todo : HS!ReadDist(e)
             \/ \E e \in DOMAIN regs : HS!WriteMinDist(e) \/ HS!MarkVisited(e)
    BY <1>1, <2>5, CallKeepsHSState
  <2>6. CASE UNCHANGED HS!vars
    BY <1>1, <2>6 DEF HSState, HSType, RegsOK, Walks, Paused, Relaxing, Ended, Far, NoShorter, Feasible,
                      Kept, UnderWay, Lowered, Marking, Relaxed, HS!NothingIsLost,
                      HS!vars, HS!mainVars, HS!callVars, HS!bfVars
  <2> QED BY <2>1, <2>2, <2>3, <2>4, <2>5, <2>6 DEF HS!Next
<1>3. GA' = GA
  BY DEF HS!Next, HS!NegativeCycle, HS!VertexProp, HS!FromVertices, HS!FromHyperedges, HS!ReadDist,
         HS!WriteMinDist, HS!MarkVisited, HS!mainVars, HS!vars
<1> QED BY <1>1, <1>2, <1>3 DEF HSInv

LEMMA InitHSInv == HS!InputsOK /\ HS!Init => HSInv
<1> SUFFICES ASSUME HS!InputsOK, HS!Init PROVE HSInv
  OBVIOUS
<1>1. GA \in HSGraphs
  BY DEF HS!Init
<1>2. PICK S : S = ShortestIn(GA, Nodes, 2 * HS!nv, Inf)
  OBVIOUS
<1>3. WalksOn(GA, Nodes, 2 * HS!nv, Inf)
  BY <1>1, HSInputs
<1>4. Walks(GA, Nodes, 2 * HS!nv, Inf, S)
  BY <1>2, <1>3, ShortestWalks
<1> QED BY <1>2, <1>4, InitHSState DEF HSInv

\* The ShortestPathLen at the end, against the table of the model.
LEMMA HSEndsShortest == HS!InputsOK /\ HSInv => HS!DistancesUnlessGivenUp
<1> SUFFICES ASSUME HS!InputsOK, HSInv, stage = "done" PROVE HS!DistancesUnlessGivenUp
  BY DEF HS!DistancesUnlessGivenUp, HS!Done
<1>1. PICK S : S = ShortestIn(GA, Nodes, 2 * HS!nv, Inf) /\ HSState(S)
  BY DEF HSInv
<1>2. HS!Shortest = S
  BY <1>1 DEF HS!Shortest, ShortestIn, Nodes, HS!Min, BF!Min
<1>3. Ended(S) /\ GA \in HSGraphs /\ Walks(GA, Nodes, 2 * HS!nv, Inf, S)
  BY <1>1 DEF HSState, HSType
<1>4. CASE turn = HS!nv - 1
  BY <1>3, <1>4 DEF Ended, HS!DistancesUnlessGivenUp
<1>5. CASE turn # HS!nv - 1
  <2> DEFINE last == 2 * HS!nv
             before == 2 * (HS!nv - 1)
  <2>1. Feasible(GA, Nodes, Inf, ShortestPathLen) /\ NoShorter(S[before], Nodes)
    BY <1>3, <1>5 DEF Ended
  <2>2. WalksOn(GA, Nodes, last, Inf)
    BY <1>3, HSInputs
  <2>3. \A i \in 0 .. last : \A x \in Nodes : ShortestPathLen[x] <= S[i][x]
    BY <1>3, <2>1, <2>2, FeasibleIsShort
  <2>4. HS!nv \in Nat \ {0} /\ HSVerts \subseteq Nodes
    BY <1>1, HSFacts DEF Nodes
  <2>5. last \in 0 .. last /\ before \in 0 .. last
    BY <2>4
  <2> HIDE DEF last, before
  <2>6. \A x \in Nodes : S[last][x] \in Int /\ S[before][x] \in Int /\ ShortestPathLen[x] \in Int
    BY <1>1, <2>5, HSFacts DEF last
  <2>7. \A x \in Nodes : S[last][x] <= S[before][x]
    BY <1>1, <2>5, HSFacts DEF last
  <2>8. \A v \in HSVerts : ShortestPathLen[v] = S[last][v] /\ S[last][v] = S[before][v]
    BY <2>1, <2>3, <2>4, <2>5, <2>6, <2>7 DEF NoShorter
  <2> QED BY <1>2, <1>5, <2>8 DEF HS!DistancesUnlessGivenUp, HS!HasNegativeCycle, last, before
<1> QED BY <1>4, <1>5

\* Between two rounds every edge of the hypergraph that can still lower its target starts
\* in the frontier, and no mark of one side is left to hide an update on the other: for
\* every weighted hypergraph and every interleaving.
THEOREM NoHyperRelaxationIsLost == ASSUME HS!InputsOK PROVE HS!Spec => []HS!NothingIsLost
<1>1. HS!Init => HSInv
  BY InitHSInv
<1>2. HSInv /\ [HS!Next]_(HS!vars) => HSInv'
  BY HSInvKept
<1>3. HSInv => HS!NothingIsLost
  BY DEF HSInv, HSState, Paused, HS!NothingIsLost
<1> QED BY <1>1, <1>2, <1>3, PTL DEF HS!Spec

\* A search that did not give up after nv - 1 rounds ends with the shortest distances, and
\* no walk of 2 * nv edges is then shorter than those of one hyperedge less.
THEOREM HyperDistancesUnlessGivenUp == ASSUME HS!InputsOK PROVE HS!Spec => []HS!DistancesUnlessGivenUp
<1>1. HS!Init => HSInv
  BY InitHSInv
<1>2. HSInv /\ [HS!Next]_(HS!vars) => HSInv'
  BY HSInvKept
<1>3. HSInv => HS!DistancesUnlessGivenUp
  BY HSEndsShortest
<1> QED BY <1>1, <1>2, <1>3, PTL DEF HS!Spec

-----------------------------------------------------------------------------
(* DeltaStepping, on any finite graph whose weights leave room for the top *)
(* bit, whatever delta is.  The distance of a vertex is its word without   *)
(* the bit; in a call the bit says that the vertex was lowered, and then   *)
(* the first to lower it has reported it with the distance it had.  The    *)
(* distances only fall and none is shorter than the shortest path; the     *)
(* i-th vertex to be reached is reached within i - 1 edges' weight, which  *)
(* is why no sum wraps.                                                    *)

Dist(v) == IF DS!HasTop(dists[v]) THEN dists[v] - TopBit ELSE dists[v]
Old(x) == IF DS!HasTop(x) THEN x - TopBit ELSE x
Sighted == {v \in DSVerts : Dist(v) # DS!INT_E_MAX}
SourceRead == [at : {"source"}, oval : Nat]
AimedAt == [at : {"cas", "min"}, oval : Nat, n_dist : Nat]

DSType == /\ GA \in DSGraphs
          /\ stage \in {"loop", "map", "done"}
          /\ dists \in [DSVerts -> Nat] /\ \A v \in DSVerts : Dist(v) <= DS!INT_E_MAX
          /\ key \in [DSVerts -> Nat]
          /\ Frontier \subseteq DSVerts /\ out \subseteq DSVerts /\ filed \subseteq DSVerts
          /\ todo \subseteq GA /\ DOMAIN regs \subseteq GA /\ todo \cap DOMAIN regs = {}
          /\ \A e \in todo \cup DOMAIN regs : e[1] \in Frontier
          /\ \A e \in DOMAIN regs : regs[e] \in SourceRead \cup AimedAt
          /\ stage # "map" => todo = {} /\ DOMAIN regs = {}

\* No distance is too long for the word, and none is too short.
Small(w) == /\ \A v \in Sighted : Dist(v) <= w * (Cardinality(Sighted) - 1)
            /\ \A e \in DOMAIN regs : regs[e].at # "source" =>
                 regs[e].n_dist - TopBit <= w * Cardinality(Sighted)
Long(row) == /\ \A v \in DSVerts : row[v] <= Dist(v)
             /\ \A e \in DOMAIN regs : regs[e].at # "source" => row[e[2]] <= regs[e].n_dist - TopBit

Known == Dist(start) <= 0 /\ filed \cup Frontier \cup out \subseteq Sighted

Relieved(e) == Dist(e[2]) <= Dist(e[1]) + e[3]

\* Between two calls,
Settled == /\ \A v \in DSVerts : ~DS!HasTop(dists[v]) /\ key[v] = DS!get_bkt(dists[v])
           /\ \A e \in GA : e[1] \in Sighted => e[1] \in filed \/ Relieved(e)
           /\ stage = "done" => filed = {}

\* and in a call: the marks, what its workers hold, and the edges.
Marks == /\ \A v \in DSVerts : DS!HasTop(dists[v]) <=> v \in out
         /\ DOMAIN oldDist = out /\ \A v \in out : DS!get_bkt(oldDist[v]) = key[v]
         /\ \A v \in DSVerts \ out : key[v] = DS!get_bkt(dists[v])

Held(e) == /\ Dist(e[2]) <= Old(regs[e].oval)
           /\ DS!HasTop(regs[e].oval) \/ regs[e].at = "min" => e[2] \in out
           /\ regs[e].at # "min" => dists[e[2]] = regs[e].oval \/ e[2] \in out
           /\ regs[e].at = "cas" => ~DS!HasTop(regs[e].oval) /\ regs[e].n_dist - TopBit < regs[e].oval
           /\ regs[e].at # "source" => DS!HasTop(regs[e].n_dist) /\ regs[e].n_dist - TopBit <= DS!INT_E_MAX

InHand(e) == /\ e \in DOMAIN regs
             /\ regs[e].at # "source" => regs[e].n_dist - TopBit <= Dist(e[1]) + e[3]

Followed(e) == e[1] \in Sighted => e[1] \in filed \cup out \/ e \in todo \/ InHand(e) \/ Relieved(e)

Calling == Marks /\ (\A e \in DOMAIN regs : Held(e)) /\ \A e \in GA : Followed(e)

Bounds(w) == w \in Nat /\ Cardinality(DSVerts) * w < DS!INT_E_MAX /\ \A e \in GA : e[3] <= w

DSState(row, w) == /\ DSType /\ Bounds(w) /\ Feasible(GA, DSVerts, DS!INT_E_MAX, row)
                   /\ Small(w) /\ Long(row) /\ Known
                   /\ IF stage = "map" THEN Calling ELSE Settled

\* What the inputs give.
LEMMA DSInputs ==
  ASSUME DS!InputsOK
  PROVE  /\ start \in DSVerts /\ IsFiniteSet(DSVerts) /\ TopBit \in Nat /\ UintMax \in Nat /\ delta \in Nat \ {0}
         /\ DS!INT_E_MAX = TopBit - 1 /\ DS!INT_E_MAX \in Nat \ {0}
         /\ \A x \in Nat : x < DS!INT_E_MAX => DS!get_bkt(x) \in Nat /\ DS!get_bkt(x) # UintMax
         /\ DS!get_bkt(DS!INT_E_MAX) = UintMax
         /\ \A x : DS!HasTop(x) <=> x >= TopBit
         /\ Cardinality(DSVerts) \in Nat \ {0}
         /\ \A G \in DSGraphs : WalksOn(G, DSVerts, Cardinality(DSVerts), DS!INT_E_MAX)
         /\ \A G \in DSGraphs : \A e \in G : e[1] \in DSVerts /\ e[2] \in DSVerts /\ e[3] \in Nat
         /\ \A G \in DSGraphs : \E w \in Nat : /\ Cardinality(DSVerts) * w < DS!INT_E_MAX
                                              /\ \A e \in G : e[3] <= w
<1>1. /\ start \in DSVerts /\ TopBit \in Nat \ {0, 1} /\ UintMax \in Nat /\ UintMax >= TopBit
      /\ delta \in Nat \ {0} /\ \A G \in DSGraphs : G \subseteq DSVerts \X DSVerts \X Nat
  BY DEF DS!InputsOK
<1>2. IsFiniteSet(DSVerts) /\ \A G \in DSGraphs : IsFiniteSet(G)
  BY DEF DS!InputsOK, DS!IsFiniteSet, IsFiniteSet
<1>3. DS!INT_E_MAX = TopBit - 1 /\ DS!INT_E_MAX \in Nat \ {0}
  BY <1>1 DEF DS!INT_E_MAX
<1>4. ASSUME NEW x \in Nat, x < DS!INT_E_MAX
      PROVE  DS!get_bkt(x) \in Nat /\ DS!get_bkt(x) # UintMax
  <2>1. DS!get_bkt(x) = x \div delta
    BY <1>3, <1>4 DEF DS!get_bkt
  <2>2. x \div delta \in Nat /\ x \div delta <= x
    BY <1>1
  <2> QED BY <1>1, <1>3, <1>4, <2>1, <2>2
<1>5. Cardinality(DSVerts) \in Nat \ {0}
  BY <1>1, <1>2, FS_CardinalityType, FS_EmptySet
<1>6. DS!Cardinality(DSVerts) = Cardinality(DSVerts)
  BY DEF DS!Cardinality, Cardinality
<1>7. ASSUME NEW G \in DSGraphs
      PROVE  /\ WalksOn(G, DSVerts, Cardinality(DSVerts), DS!INT_E_MAX)
             /\ \A e \in G : e[1] \in DSVerts /\ e[2] \in DSVerts /\ e[3] \in Nat
             /\ \E w \in Nat : /\ Cardinality(DSVerts) * w < DS!INT_E_MAX
                               /\ \A e \in G : e[3] <= w
  <2>1. G \subseteq DSVerts \X DSVerts \X Int
    BY <1>1
  <2>2. WalksOn(G, DSVerts, Cardinality(DSVerts), DS!INT_E_MAX)
    BY <1>1, <1>2, <1>3, <1>5, <2>1 DEF WalksOn
  <2>3. \E w \in 0 .. DS!INT_E_MAX : DS!Cardinality(DSVerts) * w < DS!INT_E_MAX /\ \A e \in G : e[3] <= w
    BY DEF DS!InputsOK
  <2>4. \E w \in Nat : Cardinality(DSVerts) * w < DS!INT_E_MAX /\ \A e \in G : e[3] <= w
    BY <1>3, <1>6, <2>3
  <2> QED BY <1>1, <2>2, <2>4
<1>8. DS!get_bkt(DS!INT_E_MAX) = UintMax /\ \A x : DS!HasTop(x) <=> x >= TopBit
  BY DEF DS!get_bkt, DS!HasTop
<1> QED BY <1>1, <1>2, <1>3, <1>4, <1>5, <1>7, <1>8

\* What a state holds.
LEMMA DSFacts ==
  ASSUME DS!InputsOK, DSType
  PROVE  /\ start \in DSVerts /\ TopBit \in Nat /\ UintMax \in Nat
         /\ DS!INT_E_MAX = TopBit - 1 /\ DS!INT_E_MAX \in Nat \ {0}
         /\ \A x : DS!HasTop(x) <=> x >= TopBit
         /\ \A e \in GA : e[1] \in DSVerts /\ e[2] \in DSVerts /\ e[3] \in Nat
         /\ \A v \in DSVerts : dists[v] \in Nat /\ Dist(v) \in Nat /\ Dist(v) <= DS!INT_E_MAX
         /\ \A v \in DSVerts : v \in Sighted <=> Dist(v) < DS!INT_E_MAX
         /\ IsFiniteSet(Sighted) /\ Cardinality(Sighted) \in Nat /\ Cardinality(Sighted) <= Cardinality(DSVerts)
         /\ \A e \in DOMAIN regs : /\ regs[e].at \in {"source", "cas", "min"}
                                   /\ regs[e].oval \in Nat /\ Old(regs[e].oval) \in Nat
                                   /\ regs[e].at # "source" => regs[e].n_dist \in Nat
<1>1. /\ start \in DSVerts /\ TopBit \in Nat /\ UintMax \in Nat /\ IsFiniteSet(DSVerts)
      /\ DS!INT_E_MAX = TopBit - 1 /\ DS!INT_E_MAX \in Nat \ {0}
      /\ \A x : DS!HasTop(x) <=> x >= TopBit
  BY DSInputs
<1>2. \A e \in GA : e[1] \in DSVerts /\ e[2] \in DSVerts /\ e[3] \in Nat
  BY DSInputs DEF DSType
<1>3. \A v \in DSVerts : dists[v] \in Nat /\ Dist(v) \in Nat /\ Dist(v) <= DS!INT_E_MAX
  BY <1>1 DEF DSType, Dist
<1>4. \A v \in DSVerts : v \in Sighted <=> Dist(v) < DS!INT_E_MAX
  BY <1>1, <1>3 DEF Sighted
<1>5. IsFiniteSet(Sighted) /\ Cardinality(Sighted) \in Nat /\ Cardinality(Sighted) <= Cardinality(DSVerts)
  <2>1. Sighted \subseteq DSVerts
    BY DEF Sighted
  <2> QED BY <1>1, <2>1, FS_Subset, FS_CardinalityType
<1>6. \A e \in DOMAIN regs : /\ regs[e].at \in {"source", "cas", "min"}
                             /\ regs[e].oval \in Nat /\ Old(regs[e].oval) \in Nat
                             /\ regs[e].at # "source" => regs[e].n_dist \in Nat
  BY <1>1 DEF DSType, SourceRead, AimedAt, Old
<1> QED BY <1>1, <1>2, <1>3, <1>4, <1>5, <1>6

\* Products of naturals grow with one factor.
LEMMA TimesGrows ==
  ASSUME NEW w \in Nat, NEW i \in Nat, NEW j \in Nat, i <= j
  PROVE  w * i <= w * j /\ w * (i + 1) = w * i + w /\ w * i \in Nat
<1>1. w * i \in Nat /\ w * j \in Nat /\ w * (j - i) \in Nat
  OBVIOUS
<1>2. w * j = w * i + w * (j - i)
  OBVIOUS
<1>3. w * (i + 1) = w * i + w
  OBVIOUS
<1> QED BY <1>1, <1>2, <1>3

\* Only the source has been reached, within no edge.
LEMMA InitDSState ==
  ASSUME DS!InputsOK, DS!Init, NEW row, Feasible(GA, DSVerts, DS!INT_E_MAX, row), NEW w, Bounds(w)
  PROVE  DSState(row, w)
<1>1. /\ GA \in DSGraphs /\ stage = "loop" /\ todo = {} /\ DOMAIN regs = {} /\ out = {} /\ Frontier = {}
      /\ dists = [v \in DSVerts |-> IF v = start THEN 0 ELSE DS!INT_E_MAX]
      /\ key = [v \in DSVerts |-> DS!get_bkt(dists[v])]
      /\ filed = {v \in DSVerts : key[v] # UintMax}
  BY DEF DS!Init, DS!NoCall, DS!b!Init
<1>2. /\ start \in DSVerts /\ TopBit \in Nat /\ UintMax \in Nat
      /\ DS!INT_E_MAX = TopBit - 1 /\ DS!INT_E_MAX \in Nat \ {0}
      /\ \A x \in Nat : x < DS!INT_E_MAX => DS!get_bkt(x) \in Nat /\ DS!get_bkt(x) # UintMax
      /\ DS!get_bkt(DS!INT_E_MAX) = UintMax
      /\ \A x : DS!HasTop(x) <=> x >= TopBit
      /\ \A e \in GA : e[1] \in DSVerts /\ e[2] \in DSVerts
  BY <1>1, DSInputs
<1>3. /\ dists \in [DSVerts -> Nat] /\ \A v \in DSVerts : dists[v] = (IF v = start THEN 0 ELSE DS!INT_E_MAX)
      /\ \A v \in DSVerts : ~DS!HasTop(dists[v]) /\ Dist(v) = dists[v]
  BY <1>1, <1>2 DEF Dist
<1>4. key \in [DSVerts -> Nat] /\ \A v \in DSVerts : key[v] = DS!get_bkt(dists[v])
  <2>1. \A v \in DSVerts : DS!get_bkt(dists[v]) \in Nat
    BY <1>2, <1>3
  <2> QED BY <1>1, <2>1
<1>5. Sighted = {start} /\ filed = {start}
  BY <1>1, <1>2, <1>3, <1>4 DEF Sighted
<1>6. DSType
  BY <1>1, <1>2, <1>3, <1>4 DEF DSType
<1>7. Small(w)
  <2>1. Cardinality(Sighted) = 1
    BY <1>5, FS_Singleton
  <2>2. w \in Nat
    BY DEF Bounds
  <2> QED BY <1>1, <1>2, <1>3, <1>5, <2>1, <2>2 DEF Small
<1>8. Long(row) /\ Known
  <2>1. row[start] <= 0 /\ \A v \in DSVerts : row[v] <= DS!INT_E_MAX
    BY DEF Feasible
  <2> QED BY <1>1, <1>2, <1>3, <1>5, <2>1 DEF Long, Known
<1>9. Settled
  BY <1>1, <1>2, <1>3, <1>4, <1>5 DEF Settled
<1> QED BY <1>1, <1>6, <1>7, <1>8, <1>9 DEF DSState

\* A bucket is opened: an edge that can still lower its target starts in it or waits.
LEMMA NextBucketKeepsDSState ==
  ASSUME DS!InputsOK, NEW row, NEW w, DSState(row, w), DS!NextBucket
  PROVE  DSState(row, w)'
<1>1. PICK low \in {key[v] : v \in filed} :
        /\ stage = "loop" /\ stage' = "map" /\ DS!b!Take(low)
        /\ Frontier' = {v \in DSVerts : taken'.identifiers[v] = 1}
        /\ DS!Begin(DS!OutOf(Frontier')) /\ oldDist' = <<>>
        /\ GA' = GA /\ dists' = dists
  BY DEF DS!NextBucket
<1> DEFINE ids == {v \in filed : key[v] = low}
<1>2. /\ DSType /\ Settled /\ Known /\ filed \subseteq DSVerts
      /\ stage = "loop" /\ DOMAIN regs = {}
  BY <1>1 DEF DSState, DSType
<1>3. /\ taken' = [id |-> low, identifiers |-> [v \in DSVerts |-> IF v \in ids THEN 1 ELSE 0]]
      /\ filed' = filed \ ids /\ key' = key
  BY <1>1 DEF DS!b!Take
<1>4. Frontier' = ids /\ ids \subseteq filed
  BY <1>1, <1>2, <1>3
<1>5. /\ todo' = {e \in GA : e[1] \in ids} /\ regs' = <<>> /\ out' = {}
  BY <1>1, <1>4 DEF DS!Begin, DS!OutOf
<1> HIDE DEF ids
<1>6. /\ \A v : Dist(v)' = Dist(v)
      /\ Sighted' = Sighted
  BY <1>1 DEF Dist, Sighted
<1>7. DSType'
  BY <1>1, <1>2, <1>3, <1>4, <1>5, <1>6 DEF DSType
<1>8. Small(w)' /\ Long(row)' /\ Known'
  BY <1>1, <1>2, <1>3, <1>4, <1>5, <1>6 DEF DSState, Small, Long, Known
<1>9. Marks'
  BY <1>1, <1>2, <1>3, <1>5 DEF Settled, Marks
<1>10. \A e \in GA : Followed(e)'
  <2> SUFFICES ASSUME NEW e \in GA, e[1] \in Sighted
               PROVE  e[1] \in filed' \/ e \in todo' \/ Relieved(e)'
    BY <1>5, <1>6 DEF Followed
  <2>1. e[1] \in filed \/ Relieved(e)
    BY <1>2 DEF Settled
  <2> QED BY <1>3, <1>5, <1>6, <2>1 DEF Relieved
<1>11. Calling'
  BY <1>1, <1>5, <1>9, <1>10 DEF Calling
<1> QED BY <1>1, <1>7, <1>8, <1>11 DEF DSState, Bounds, Feasible

\* The last has been opened: no edge can lower its target any more.
LEMMA NullBucketKeepsDSState ==
  ASSUME DS!InputsOK, NEW row, NEW w, DSState(row, w), DS!NullBucket
  PROVE  DSState(row, w)'
<1>1. /\ stage = "loop" /\ stage' = "done" /\ filed = {} /\ filed' = filed /\ key' = key
      /\ GA' = GA /\ Frontier' = Frontier /\ todo' = todo /\ regs' = regs /\ out' = out
      /\ dists' = dists
  BY DEF DS!NullBucket, DS!b!TakeNothing, DS!callVars
<1>2. /\ (\A v : Dist(v)' = Dist(v)) /\ Sighted' = Sighted
  BY <1>1 DEF Dist, Sighted
<1>3. DSType'
  BY <1>1, <1>2 DEF DSState, DSType
<1> QED BY <1>1, <1>2, <1>3 DEF DSState, Small, Long, Known, Settled, Relieved, Bounds, Feasible

\* The bits are taken off and the vertices that were lowered put in their buckets.
LEMMA RebucketKeepsDSState ==
  ASSUME DS!InputsOK, NEW row, NEW w, DSState(row, w), DS!Rebucket
  PROVE  DSState(row, w)'
<1>1. /\ stage = "map" /\ stage' = "loop" /\ todo = {} /\ DOMAIN regs = {}
      /\ dists' = [v \in DSVerts |-> IF v \in out THEN Dist(v) ELSE dists[v]]
      /\ key' = [v \in DSVerts |-> IF v \in out THEN DS!get_bkt(Dist(v)) ELSE key[v]]
      /\ filed' = filed \cup {v \in out : DS!get_bkt(Dist(v)) # UintMax}
      /\ GA' = GA /\ Frontier' = Frontier /\ todo' = todo /\ regs' = regs /\ out' = out
  BY DEF DS!Rebucket, DS!Returned, DS!callVars, Dist
<1>2. DSType /\ Calling /\ Known /\ Small(w) /\ Long(row)
  BY <1>1 DEF DSState
<1>3. /\ TopBit \in Nat /\ DS!INT_E_MAX = TopBit - 1 /\ \A x : DS!HasTop(x) <=> x >= TopBit
      /\ \A v \in DSVerts : dists[v] \in Nat /\ Dist(v) \in Nat /\ Dist(v) <= DS!INT_E_MAX
      /\ \A v \in DSVerts : v \in Sighted <=> Dist(v) < DS!INT_E_MAX
      /\ out \subseteq Sighted /\ out \subseteq DSVerts /\ filed \subseteq DSVerts
      /\ \A e \in GA : e[1] \in DSVerts /\ e[2] \in DSVerts
  BY <1>2, DSFacts DEF Known, DSType
<1>4. \A v \in DSVerts : v \notin out => ~DS!HasTop(dists[v])
  BY <1>2 DEF Calling, Marks
<1>5. \A v \in DSVerts : dists'[v] = Dist(v)
  BY <1>1, <1>4 DEF Dist
<1>6. \A v \in DSVerts : ~DS!HasTop(dists'[v]) /\ Dist(v)' = Dist(v)
  BY <1>3, <1>5 DEF Dist
<1>7. Sighted' = Sighted
  BY <1>6 DEF Sighted
<1>8. \A v \in out : DS!get_bkt(Dist(v)) \in Nat /\ DS!get_bkt(Dist(v)) # UintMax
  BY <1>3, DSInputs
<1>9. filed' = filed \cup out
  BY <1>1, <1>8
<1>10. key' \in [DSVerts -> Nat] /\ \A v \in DSVerts : key'[v] = DS!get_bkt(dists'[v])
  <2>1. key \in [DSVerts -> Nat] /\ \A v \in DSVerts \ out : key[v] = DS!get_bkt(dists[v])
    BY <1>2 DEF DSType, Calling, Marks
  <2> QED BY <1>1, <1>5, <1>8, <2>1
<1>11. DSType'
  BY <1>1, <1>2, <1>3, <1>5, <1>6, <1>9, <1>10 DEF DSType
<1>12. Small(w)' /\ Long(row)'
  <2>1. \A v \in Sighted : v \in DSVerts
    BY DEF Sighted
  <2> QED BY <1>1, <1>2, <1>6, <1>7, <2>1 DEF Small, Long
<1>13. Known'
  <2>1. start \in DSVerts
    BY DSInputs
  <2> QED BY <1>1, <1>2, <1>6, <1>7, <1>9, <2>1 DEF Known
<1>14. \A e \in GA : e[1] \in Sighted' => e[1] \in filed' \/ Relieved(e)'
  <2> SUFFICES ASSUME NEW e \in GA, e[1] \in Sighted PROVE e[1] \in filed \cup out \/ Relieved(e)'
    BY <1>7, <1>9, <1>1
  <2>1. e[1] \in filed \cup out \/ Relieved(e)
    BY <1>1, <1>2 DEF Calling, Followed, InHand
  <2> QED BY <1>3, <1>6, <2>1 DEF Relieved
<1>15. Settled'
  BY <1>1, <1>6, <1>10, <1>14 DEF Settled
<1> QED BY <1>1, <1>11, <1>12, <1>13, <1>15 DEF DSState, Bounds, Feasible

\* A worker reads the target's word,
LEMMA ReadOldKeepsDSState ==
  ASSUME DS!InputsOK, NEW row, NEW w, DSState(row, w), NEW e \in todo, DS!ReadOld(e)
  PROVE  DSState(row, w)'
<1>1. /\ stage = "map" /\ stage' = stage /\ GA' = GA /\ Frontier' = Frontier /\ out' = out
      /\ todo' = todo \ {e} /\ dists' = dists /\ key' = key /\ filed' = filed /\ oldDist' = oldDist
      /\ regs' = [x \in DOMAIN regs \cup {e} |->
                    IF x = e THEN [at |-> "source", oval |-> dists[e[2]]] ELSE regs[x]]
  BY DEF DS!ReadOld, DS!Enter, DS!mainVars, DS!dsVars
<1>2. DSType /\ Calling /\ Known /\ Small(w) /\ Long(row)
  BY <1>1 DEF DSState
<1>3. /\ e \in GA /\ e[2] \in DSVerts /\ dists[e[2]] \in Nat /\ e \notin DOMAIN regs /\ e[1] \in Frontier
  BY <1>2, DSFacts DEF DSType
<1>4. /\ DOMAIN regs' = DOMAIN regs \cup {e} /\ \A x \in DOMAIN regs : x # e /\ regs'[x] = regs[x]
      /\ regs'[e] = [at |-> "source", oval |-> dists[e[2]]]
      /\ regs'[e].at = "source" /\ regs'[e].oval = dists[e[2]]
  BY <1>1, <1>3
<1>5. (\A v : Dist(v)' = Dist(v)) /\ Sighted' = Sighted
  BY <1>1 DEF Dist, Sighted
<1>6. DSType'
  <2>1. \A x \in DOMAIN regs' : regs'[x] \in SourceRead \cup AimedAt
    BY <1>2, <1>3, <1>4 DEF DSType, SourceRead
  <2> QED BY <1>1, <1>2, <1>3, <1>4, <1>5, <2>1 DEF DSType
<1>7. Small(w)' /\ Long(row)' /\ Known'
  BY <1>1, <1>2, <1>4, <1>5 DEF Small, Long, Known
<1>8. Marks'
  BY <1>1, <1>2 DEF Calling, Marks
<1>9. ASSUME NEW x \in DOMAIN regs' PROVE Held(x)'
  <2>1. CASE x # e
    BY <1>1, <1>2, <1>4, <1>5, <2>1 DEF Calling, Held
  <2>2. CASE x = e
    <3>1. DS!HasTop(dists[e[2]]) => e[2] \in out
      BY <1>2, <1>3 DEF Calling, Marks
    <3>2. Old(dists[e[2]]) = Dist(e[2]) /\ Dist(e[2]) \in Nat
      BY <1>2, <1>3, DSFacts DEF Old, Dist
    <3>3. Old(regs[e].oval)' = Dist(e[2])
      BY <1>4, <3>2 DEF Old
    <3> QED BY <1>1, <1>4, <1>5, <2>2, <3>1, <3>2, <3>3 DEF Held
  <2> QED BY <2>1, <2>2
<1>10. ASSUME NEW x \in GA PROVE Followed(x)'
  <2>1. Followed(x) /\ (x \in todo /\ x # e => x \in todo')
    BY <1>1, <1>2 DEF Calling
  <2>2. InHand(x) \/ x = e => InHand(x)'
    BY <1>4, <1>5 DEF InHand
  <2> QED BY <1>1, <1>5, <2>1, <2>2 DEF Followed, Relieved
<1>11. Calling'
  BY <1>1, <1>8, <1>9, <1>10 DEF Calling
<1> QED BY <1>1, <1>6, <1>7, <1>11 DEF DSState, Bounds, Feasible

\* An edge that its worker gives up has been relieved.
LEMMA AnswerKeepsDSState ==
  ASSUME DS!InputsOK, NEW row, NEW w, DSState(row, w), NEW e \in DOMAIN regs, stage = "map",
         Relieved(e) \/ ~(e[1] \in Sighted) \/ e[1] \in filed \cup out,
         GA' = GA, stage' = stage, Frontier' = Frontier, todo' = todo, out' = out,
         dists' = dists, key' = key, filed' = filed, oldDist' = oldDist,
         regs' = [x \in DOMAIN regs \ {e} |-> regs[x]]
  PROVE  DSState(row, w)'
<1>1. DSType /\ Calling /\ Known /\ Small(w) /\ Long(row)
  BY DEF DSState
<1>2. DOMAIN regs' = DOMAIN regs \ {e} /\ \A x \in DOMAIN regs' : x \in DOMAIN regs /\ regs'[x] = regs[x]
  OBVIOUS
<1>3. (\A v : Dist(v)' = Dist(v)) /\ Sighted' = Sighted
  BY DEF Dist, Sighted
<1>4. DSType'
  BY <1>1, <1>2, <1>3 DEF DSType
<1>5. Small(w)' /\ Long(row)' /\ Known'
  BY <1>1, <1>2, <1>3 DEF Small, Long, Known
<1>6. \A x \in DOMAIN regs' : Held(x)'
  BY <1>1, <1>2, <1>3 DEF Calling, Held
<1>7. \A x \in GA : Followed(x)'
  <2> TAKE x \in GA
  <2>1. Followed(x) /\ (InHand(x) /\ x # e => InHand(x)')
    BY <1>1, <1>2, <1>3 DEF Calling, InHand
  <2> QED BY <1>3, <2>1 DEF Followed, Relieved
<1>8. Calling'
  BY <1>1, <1>6, <1>7 DEF Calling, Marks
<1> QED BY <1>4, <1>5, <1>8 DEF DSState, Bounds, Feasible

\* and the source's, which gives it the length of a path that fits,
LEMMA ReadSourceKeepsDSState ==
  ASSUME DS!InputsOK, NEW row, NEW w, DSState(row, w), NEW e \in DOMAIN regs, DS!ReadSource(e)
  PROVE  DSState(row, w)'
<1> DEFINE n_dist == (DS!WithTop(dists[e[1]]) + e[3]) % (2 * TopBit)
           oval == regs[e].oval
<1>1. /\ regs[e].at = "source" /\ stage' = stage /\ GA' = GA /\ Frontier' = Frontier
      /\ dists' = dists /\ key' = key /\ filed' = filed /\ oldDist' = oldDist
  BY DEF DS!ReadSource, DS!mainVars, DS!dsVars
<1>2. DSType /\ Known /\ Small(w) /\ Long(row) /\ Bounds(w) /\ Feasible(GA, DSVerts, DS!INT_E_MAX, row)
  BY DEF DSState
<1>3. stage = "map" /\ Calling /\ Held(e) /\ e \in GA /\ e[1] \in Frontier /\ e \notin todo
  BY <1>2 DEF DSState, DSType, Calling
<1>4. /\ TopBit \in Nat /\ DS!INT_E_MAX = TopBit - 1 /\ DS!INT_E_MAX \in Nat /\ \A x : DS!HasTop(x) <=> x >= TopBit
      /\ e[1] \in DSVerts /\ e[2] \in DSVerts /\ e[3] \in Nat
      /\ dists[e[1]] \in Nat /\ Dist(e[1]) \in Nat /\ Dist(e[2]) \in Nat
      /\ oval \in Nat /\ Old(oval) \in Nat
      /\ Cardinality(Sighted) \in Nat /\ Cardinality(Sighted) <= Cardinality(DSVerts) /\ IsFiniteSet(Sighted)
  BY <1>2, <1>3, DSFacts
<1>5. e[1] \in Sighted /\ Dist(e[1]) < DS!INT_E_MAX
  BY <1>2, <1>3, <1>4, DSFacts DEF Known
<1>6. Dist(e[1]) + e[3] <= w * Cardinality(Sighted) /\ Dist(e[1]) + e[3] < DS!INT_E_MAX
  <2>1. w \in Nat /\ e[3] <= w /\ Cardinality(DSVerts) \in Nat /\ Cardinality(DSVerts) * w < DS!INT_E_MAX
    BY <1>2, <1>3, DSInputs DEF Bounds
  <2>2. Cardinality(Sighted) # 0
    BY <1>4, <1>5, FS_EmptySet
  <2>3. PICK i \in Nat : Cardinality(Sighted) = i + 1
    <3>1. Cardinality(Sighted) - 1 \in Nat
      BY <1>4, <2>2
    <3> QED BY <1>4, <3>1
  <2>4. Dist(e[1]) <= w * i
    <3>1. Dist(e[1]) <= w * (Cardinality(Sighted) - 1) /\ Cardinality(Sighted) - 1 = i
      BY <1>2, <1>5, <2>3 DEF Small
    <3> QED BY <3>1
  <2>5. w * (i + 1) = w * i + w /\ w * i \in Nat
    BY <2>1, TimesGrows
  <2>6. w * Cardinality(Sighted) <= w * Cardinality(DSVerts) /\ w * Cardinality(Sighted) \in Nat
    BY <1>4, <2>1, TimesGrows
  <2>7. w * Cardinality(DSVerts) = Cardinality(DSVerts) * w /\ w * Cardinality(DSVerts) \in Nat
    BY <2>1
  <2>8. Dist(e[1]) + e[3] <= w * Cardinality(Sighted)
    BY <1>4, <2>1, <2>3, <2>4, <2>5
  <2> QED BY <1>4, <2>1, <2>6, <2>7, <2>8
<1>7. DS!WithTop(dists[e[1]]) = TopBit + Dist(e[1])
  BY <1>4 DEF DS!WithTop, Dist
<1>8. n_dist = TopBit + Dist(e[1]) + e[3]
  <2>1. TopBit + Dist(e[1]) + e[3] \in 0 .. 2 * TopBit - 1 /\ 2 * TopBit > 0
    BY <1>4, <1>6
  <2>2. (TopBit + Dist(e[1]) + e[3]) % (2 * TopBit) = TopBit + Dist(e[1]) + e[3]
    BY <1>4, <2>1
  <2> QED BY <1>7, <2>2
<1>9. DS!WithTop(oval) = TopBit + Old(oval)
  BY <1>4 DEF DS!WithTop, Old
<1> DEFINE r == [at |-> IF DS!HasTop(oval) THEN "min" ELSE "cas", oval |-> oval, n_dist |-> n_dist]
<1>10. IF n_dist < DS!WithTop(oval)
       THEN todo' = todo /\ out' = out /\ regs' = [regs EXCEPT ![e] = r]
       ELSE todo' = todo /\ out' = out /\ regs' = [x \in DOMAIN regs \ {e} |-> regs[x]]
  BY DEF DS!ReadSource, DS!Local, DS!Answer
<1> HIDE DEF n_dist, oval
<1>11. CASE ~(n_dist < DS!WithTop(oval))
  <2>1. Relieved(e)
    <3>1. Dist(e[2]) <= Old(oval)
      BY <1>3 DEF Held, oval
    <3>2. Old(oval) <= Dist(e[1]) + e[3]
      BY <1>4, <1>8, <1>9, <1>11
    <3> QED BY <1>4, <3>1, <3>2 DEF Relieved
  <2> QED BY <1>1, <1>3, <1>10, <1>11, <2>1, AnswerKeepsDSState
<1>12. CASE n_dist < DS!WithTop(oval)
  <2>1. todo' = todo /\ out' = out /\ DOMAIN regs' = DOMAIN regs /\ regs'[e] = r
        /\ \A x \in DOMAIN regs : x # e => regs'[x] = regs[x]
    BY <1>10, <1>12
  <2>2. /\ regs'[e].at = (IF DS!HasTop(oval) THEN "min" ELSE "cas")
        /\ regs'[e].oval = oval /\ regs'[e].n_dist = n_dist
    BY <2>1
  <2>3. n_dist \in Nat /\ n_dist - TopBit = Dist(e[1]) + e[3]
    BY <1>4, <1>8
  <2>4. (\A v : Dist(v)' = Dist(v)) /\ Sighted' = Sighted
    BY <1>1 DEF Dist, Sighted
  <2>5. DSType'
    <3>1. r \in AimedAt
      BY <1>4, <2>3 DEF AimedAt
    <3>2. \A x \in DOMAIN regs' : regs'[x] \in SourceRead \cup AimedAt
      BY <1>2, <2>1, <3>1 DEF DSType
    <3> QED BY <1>1, <1>2, <2>1, <2>4, <3>2 DEF DSType
  <2>6. Small(w)'
    BY <1>2, <1>6, <2>1, <2>2, <2>3, <2>4 DEF Small
  <2>7. Long(row)'
    <3>1. row[e[2]] <= Dist(e[1]) + e[3]
      <4>1. row[e[1]] <= Dist(e[1]) /\ row[e[1]] \in Int /\ row[e[2]] \in Int
        BY <1>2, <1>4 DEF Long, Feasible
      <4>2. row[e[1]] # DS!INT_E_MAX
        BY <1>4, <1>5, <4>1
      <4>3. row[e[2]] <= row[e[1]] + e[3]
        BY <1>2, <1>3, <4>2 DEF Feasible
      <4> QED BY <1>4, <4>1, <4>3
    <3> QED BY <1>2, <2>1, <2>2, <2>3, <2>4, <3>1 DEF Long
  <2>8. Known'
    BY <1>1, <1>2, <2>1, <2>4 DEF Known
  <2>9. ASSUME NEW x \in DOMAIN regs' PROVE Held(x)'
    <3>1. CASE x # e
      BY <1>1, <1>3, <2>1, <2>4, <2>9, <3>1 DEF Calling, Held
    <3>2. CASE x = e
      <4>1. /\ Dist(e[2]) <= Old(oval)
            /\ DS!HasTop(oval) => e[2] \in out
            /\ dists[e[2]] = oval \/ e[2] \in out
        BY <1>1, <1>3 DEF Held, oval
      <4>2. ~DS!HasTop(oval) => n_dist - TopBit < oval
        BY <1>4, <1>9, <1>12, <2>3 DEF Old
      <4>3. DS!HasTop(n_dist) /\ n_dist - TopBit <= DS!INT_E_MAX
        BY <1>4, <1>6, <1>8, <2>3
      <4>4. Old(regs[e].oval)' = Old(oval)
        BY <2>2 DEF Old
      <4> QED BY <1>1, <2>1, <2>2, <2>4, <3>2, <4>1, <4>2, <4>3, <4>4 DEF Held
    <3> QED BY <3>1, <3>2
  <2>10. ASSUME NEW x \in GA PROVE Followed(x)'
    <3>1. Followed(x)
      BY <1>3 DEF Calling
    <3>2. InHand(x) => InHand(x)'
      <4>1. CASE x # e
        BY <2>1, <2>4, <4>1 DEF InHand
      <4>2. CASE x = e
        BY <1>4, <2>1, <2>2, <2>3, <2>4, <4>2 DEF InHand
      <4> QED BY <4>1, <4>2
    <3> QED BY <1>1, <2>1, <2>4, <3>1, <3>2 DEF Followed, Relieved
  <2>11. Calling'
    BY <1>1, <1>3, <2>1, <2>9, <2>10 DEF Calling, Marks
  <2> QED BY <1>1, <1>3, <2>5, <2>6, <2>7, <2>8, <2>11 DEF DSState, Bounds, Feasible
<1> QED BY <1>11, <1>12

\* A target is brought down to what its worker holds and reported.
LEMMA LoweredKeepsDSState ==
  ASSUME DS!InputsOK, NEW row, NEW w, DSState(row, w), NEW e \in DOMAIN regs, stage = "map",
         regs[e].at # "source", regs[e].n_dist - TopBit < Dist(e[2]),
         dists' = [dists EXCEPT ![e[2]] = regs[e].n_dist], out' = out \cup {e[2]},
         regs' = [x \in DOMAIN regs \ {e} |-> regs[x]], Marks',
         GA' = GA, stage' = stage, Frontier' = Frontier, todo' = todo, key' = key, filed' = filed
  PROVE  DSState(row, w)'
<1> DEFINE d == e[2]
           low == regs[e].n_dist - TopBit
<1>1. DSType /\ Calling /\ Known /\ Small(w) /\ Long(row) /\ Bounds(w) /\ Held(e) /\ e \in GA
  BY DEF DSState, Calling, DSType
<1>2. /\ TopBit \in Nat /\ DS!INT_E_MAX = TopBit - 1 /\ DS!INT_E_MAX \in Nat \ {0}
      /\ \A x : DS!HasTop(x) <=> x >= TopBit
      /\ \A x \in GA : x[1] \in DSVerts /\ x[2] \in DSVerts /\ x[3] \in Nat
      /\ \A v \in DSVerts : dists[v] \in Nat /\ Dist(v) \in Nat /\ Dist(v) <= DS!INT_E_MAX
      /\ \A v \in DSVerts : v \in Sighted <=> Dist(v) < DS!INT_E_MAX
      /\ IsFiniteSet(Sighted) /\ Cardinality(Sighted) \in Nat
      /\ start \in DSVerts /\ regs[e].n_dist \in Nat
      /\ \A x \in DOMAIN regs : regs[x].at # "source" => regs[x].n_dist \in Nat
      /\ \A x \in DOMAIN regs : Old(regs[x].oval) \in Nat
  BY <1>1, DSFacts
<1>3. d \in DSVerts /\ low \in Nat /\ regs[e].n_dist = low + TopBit /\ low < Dist(d)
  BY <1>1, <1>2 DEF Held
<1>4. DOMAIN regs' = DOMAIN regs \ {e} /\ \A x \in DOMAIN regs' : x \in DOMAIN regs /\ regs'[x] = regs[x]
  OBVIOUS
<1> HIDE DEF d, low
<1>5. dists' \in [DSVerts -> Nat] /\ dists'[d] = low + TopBit /\ \A v \in DSVerts \ {d} : dists'[v] = dists[v]
  BY <1>1, <1>2, <1>3 DEF DSType, d
<1>6. Dist(d)' = low /\ \A v \in DSVerts \ {d} : Dist(v)' = Dist(v)
  BY <1>2, <1>3, <1>5 DEF Dist
<1>7. Sighted' = Sighted \cup {d}
  <2>1. low # DS!INT_E_MAX
    BY <1>2, <1>3
  <2> QED BY <1>3, <1>6, <2>1 DEF Sighted
<1>8. DSType'
  <2>1. \A v \in DSVerts : Dist(v)' <= DS!INT_E_MAX
    BY <1>2, <1>3, <1>6
  <2> QED BY <1>1, <1>3, <1>4, <1>5, <2>1 DEF DSType, d
<1>9. Small(w)'
  <2>1. \A v \in Sighted : Dist(v) <= w * (Cardinality(Sighted) - 1)
    BY <1>1 DEF Small
  <2>2. \A x \in DOMAIN regs : regs[x].at # "source" => regs[x].n_dist - TopBit <= w * Cardinality(Sighted)
    BY <1>1 DEF Small
  <2>3. \A v \in Sighted : v \in DSVerts
    BY DEF Sighted
  <2>4. CASE d \in Sighted
    <3>1. Sighted' = Sighted
      BY <1>7, <2>4
    <3>2. w \in Nat /\ w * (Cardinality(Sighted) - 1) \in Int
      BY <1>1, <1>2 DEF Bounds
    <3>3. \A v \in Sighted : Dist(v)' <= w * (Cardinality(Sighted) - 1)
      BY <1>2, <1>3, <1>6, <2>1, <2>3, <2>4, <3>2
    <3> QED BY <1>4, <2>2, <3>1, <3>3 DEF Small
  <2>5. CASE d \notin Sighted
    <3>1. Cardinality(Sighted') = Cardinality(Sighted) + 1
      BY <1>2, <1>7, <2>5, FS_AddElement
    <3>2. start \in Sighted
      BY <1>1, <1>2 DEF Known
    <3>3. Cardinality(Sighted) # 0
      BY <1>2, <3>2, FS_EmptySet
    <3>4. w \in Nat /\ Cardinality(Sighted) - 1 \in Nat
      BY <1>1, <1>2, <3>3 DEF Bounds
    <3>5. w * (Cardinality(Sighted) - 1) <= w * Cardinality(Sighted) /\ w * (Cardinality(Sighted) - 1) \in Nat
      BY <1>2, <3>4, TimesGrows
    <3>6. w * Cardinality(Sighted) <= w * (Cardinality(Sighted) + 1) /\ w * Cardinality(Sighted) \in Nat
      BY <1>2, <3>4, TimesGrows
    <3>7. w * (Cardinality(Sighted) + 1) \in Nat
      BY <1>2, <3>4
    <3>8. low <= w * Cardinality(Sighted)
      BY <2>2 DEF low
    <3>9. \A v \in Sighted' : Dist(v)' <= w * Cardinality(Sighted)
      BY <1>2, <1>6, <1>7, <2>1, <2>3, <2>5, <3>5, <3>6, <3>8
    <3>10. \A x \in DOMAIN regs : regs[x].at # "source" => regs[x].n_dist - TopBit <= w * (Cardinality(Sighted) + 1)
      BY <1>2, <2>2, <3>6, <3>7
    <3>11. Cardinality(Sighted') - 1 = Cardinality(Sighted)
      BY <1>2, <3>1
    <3>12. \A v \in Sighted' : Dist(v)' <= w * (Cardinality(Sighted') - 1)
      BY <3>9, <3>11
    <3>13. \A x \in DOMAIN regs' : regs'[x].at # "source" => regs'[x].n_dist - TopBit <= w * Cardinality(Sighted')
      BY <1>4, <3>1, <3>10
    <3> QED BY <3>12, <3>13 DEF Small
  <2> QED BY <2>4, <2>5
<1>10. Long(row)'
  <2>1. row[d] <= low
    BY <1>1 DEF Long, d, low
  <2> QED BY <1>1, <1>4, <1>6, <2>1 DEF Long
<1>11. Known'
  <2>1. Dist(start)' <= Dist(start)
    BY <1>2, <1>3, <1>6
  <2>2. Dist(start)' <= 0
    BY <1>1, <1>2, <1>3, <1>6, <2>1 DEF Known
  <2> QED BY <1>1, <1>7, <2>2 DEF Known, d
<1>12. \A v \in DSVerts : Dist(v)' <= Dist(v) /\ Dist(v)' \in Nat
  BY <1>2, <1>3, <1>6
<1>13. ASSUME NEW x \in DOMAIN regs' PROVE Held(x)'
  <2>1. x \in DOMAIN regs /\ regs'[x] = regs[x] /\ x \in GA /\ x[2] \in DSVerts /\ Held(x)
    BY <1>1, <1>2, <1>4 DEF DSType, Calling
  <2>2. Old(regs[x].oval)' = Old(regs[x].oval) /\ Dist(x[2])' <= Old(regs[x].oval)
    <3>1. Old(regs[x].oval)' = Old(regs[x].oval)
      BY <2>1 DEF Old
    <3> QED BY <1>2, <1>12, <2>1, <3>1 DEF Held
  <2>3. dists'[x[2]] = dists[x[2]] \/ x[2] \in out'
    BY <1>5, <2>1 DEF d
  <2> QED BY <2>1, <2>2, <2>3 DEF Held
<1>14. ASSUME NEW x \in GA PROVE Followed(x)'
  <2>1. Followed(x) /\ x[1] \in DSVerts /\ x[2] \in DSVerts /\ x[3] \in Nat
    BY <1>1, <1>2 DEF Calling
  <2>2. CASE x[1] = d
    BY <2>2 DEF Followed, d
  <2>3. CASE x[1] # d
    <3>1. Dist(x[1])' = Dist(x[1]) /\ (x[1] \in Sighted' => x[1] \in Sighted)
      BY <1>6, <1>7, <2>1, <2>3
    <3>2. Relieved(x) => Relieved(x)'
      BY <1>2, <1>12, <2>1, <3>1 DEF Relieved
    <3>3. InHand(x) => InHand(x)' \/ Relieved(x)'
      <4>1. CASE x = e
        BY <1>6, <3>1, <4>1 DEF InHand, Relieved, d, low
      <4>2. CASE x # e
        BY <1>4, <3>1, <4>2 DEF InHand
      <4> QED BY <4>1, <4>2
    <3> QED BY <2>1, <3>1, <3>2, <3>3 DEF Followed
  <2> QED BY <2>2, <2>3
<1>15. Calling'
  BY <1>13, <1>14 DEF Calling
<1> QED BY <1>1, <1>8, <1>9, <1>10, <1>11, <1>15 DEF DSState, Bounds, Feasible

\* The first to lower a vertex marks it and reports the distance it had; another may
\* have come before it.
LEMMA SwapFirstKeepsDSState ==
  ASSUME DS!InputsOK, NEW row, NEW w, DSState(row, w), NEW e \in DOMAIN regs, DS!SwapFirst(e)
  PROVE  DSState(row, w)'
<1> DEFINE d == e[2]
           oval == regs[e].oval
<1>1. /\ regs[e].at = "cas" /\ stage' = stage /\ GA' = GA /\ Frontier' = Frontier
      /\ key' = key /\ filed' = filed /\ todo' = todo
      /\ dists[d] = oval =>
           /\ dists' = [dists EXCEPT ![d] = regs[e].n_dist]
           /\ oldDist' = [x \in DOMAIN oldDist \cup {d} |-> IF x = d THEN oval ELSE oldDist[x]]
           /\ out' = out \cup {d} /\ regs' = [x \in DOMAIN regs \ {e} |-> regs[x]]
      /\ dists[d] # oval => /\ regs' = [regs EXCEPT ![e] = [regs[e] EXCEPT !.at = "min"]]
                            /\ out' = out /\ dists' = dists /\ oldDist' = oldDist
  BY DEF DS!SwapFirst, DS!mainVars, DS!Local, DS!Answer
<1>2. DSType /\ Known /\ Small(w) /\ Long(row) /\ Bounds(w) /\ Feasible(GA, DSVerts, DS!INT_E_MAX, row)
  BY DEF DSState
<1>3. stage = "map" /\ Calling /\ Marks /\ Held(e) /\ e \in GA
  BY <1>2 DEF DSState, DSType, Calling
<1>4. /\ TopBit \in Nat /\ \A x : DS!HasTop(x) <=> x >= TopBit
      /\ d \in DSVerts /\ dists[d] \in Nat /\ Dist(d) \in Nat /\ oval \in Nat /\ regs[e].n_dist \in Nat
  BY <1>1, <1>2, <1>3, DSFacts
<1>5. /\ dists[d] = oval \/ d \in out
      /\ ~DS!HasTop(oval) /\ regs[e].n_dist - TopBit < oval /\ DS!HasTop(regs[e].n_dist)
  BY <1>1, <1>3 DEF Held
<1> HIDE DEF d, oval
<1>6. CASE dists[d] = oval
  <2>1. Dist(d) = oval /\ d \notin out
    BY <1>3, <1>4, <1>5, <1>6 DEF Dist, Marks
  <2>2. Marks'
    <3>1. \A v \in DSVerts : DS!HasTop(dists'[v]) <=> v \in out'
      BY <1>1, <1>2, <1>3, <1>4, <1>5, <1>6 DEF DSType, Marks
    <3>2. DOMAIN oldDist' = out' /\ \A v \in out' : DS!get_bkt(oldDist'[v]) = key'[v]
      <4>1. DOMAIN oldDist' = out'
        BY <1>1, <1>3, <1>6 DEF Marks
      <4>2. DS!get_bkt(oval) = key[d]
        BY <1>3, <1>4, <1>6, <2>1 DEF Marks
      <4>3. \A v \in out' : oldDist'[v] = IF v = d THEN oval ELSE oldDist[v]
        BY <1>1, <1>3, <1>6 DEF Marks
      <4>4. ASSUME NEW v \in out' PROVE DS!get_bkt(oldDist'[v]) = key'[v]
        <5>1. CASE v = d
          BY <1>1, <4>2, <4>3, <5>1
        <5>2. CASE v # d
          <6>1. v \in out /\ oldDist'[v] = oldDist[v]
            BY <1>1, <1>6, <4>3, <5>2
          <6> QED BY <1>1, <1>3, <6>1 DEF Marks
        <5> QED BY <5>1, <5>2
      <4> QED BY <4>1, <4>4
    <3>3. \A v \in DSVerts \ out' : key'[v] = DS!get_bkt(dists'[v])
      <4>1. \A v \in DSVerts \ out' : v \in DSVerts \ out /\ dists'[v] = dists[v]
        BY <1>1, <1>2, <1>6 DEF DSType
      <4> QED BY <1>1, <1>3, <4>1 DEF Marks
    <3> QED BY <3>1, <3>2, <3>3 DEF Marks
  <2> QED BY <1>1, <1>3, <1>5, <1>6, <2>1, <2>2, LoweredKeepsDSState DEF d
<1>7. CASE dists[d] # oval
  <2>1. d \in out
    BY <1>5, <1>7
  <2>2. /\ DOMAIN regs' = DOMAIN regs /\ regs'[e] = [regs[e] EXCEPT !.at = "min"]
        /\ \A x \in DOMAIN regs : x # e => regs'[x] = regs[x]
        /\ out' = out /\ dists' = dists /\ oldDist' = oldDist
    BY <1>1, <1>7
  <2>3. regs[e] \in AimedAt
    BY <1>1, <1>2 DEF DSType, SourceRead
  <2>4. /\ regs'[e] \in AimedAt /\ regs'[e].at = "min"
        /\ regs'[e].oval = oval /\ regs'[e].n_dist = regs[e].n_dist
    BY <2>2, <2>3 DEF AimedAt, oval
  <2>11. /\ regs[e].at # "source" /\ regs'[e].at # "source"
         /\ regs'[e].n_dist = regs[e].n_dist /\ e \in DOMAIN regs'
    <3>1. regs[e].at # "source"
      BY <1>1
    <3>2. e \in DOMAIN regs'
      BY <2>2
    <3> QED BY <2>4, <3>1, <3>2
  <2>5. (\A v : Dist(v)' = Dist(v)) /\ Sighted' = Sighted
    BY <2>2 DEF Dist, Sighted
  <2>6. DSType'
    <3>1. \A x \in DOMAIN regs' : regs'[x] \in SourceRead \cup AimedAt
      BY <1>2, <2>2, <2>4 DEF DSType
    <3> QED BY <1>1, <1>2, <2>2, <2>5, <3>1 DEF DSType
  <2>7. Small(w)' /\ Long(row)' /\ Known'
    <3>1. \A x \in DOMAIN regs : /\ regs'[x].at # "source" <=> regs[x].at # "source"
                                /\ regs'[x].at # "source" => regs'[x].n_dist = regs[x].n_dist
      <4> TAKE x \in DOMAIN regs
      <4>1. CASE x # e
        <5>1. regs'[x] = regs[x]
          BY <2>2, <4>1
        <5> QED BY <5>1
      <4>2. CASE x = e
        BY <2>11, <4>2
      <4> QED BY <4>1, <4>2
    <3> QED BY <1>1, <1>2, <2>2, <2>5, <3>1 DEF Small, Long, Known
  <2>8. ASSUME NEW x \in DOMAIN regs' PROVE Held(x)'
    <3>1. CASE x # e
      BY <1>3, <2>2, <2>5, <2>8, <3>1 DEF Calling, Held
    <3>2. CASE x = e
      <4>1. Old(regs[e].oval)' = Old(oval) /\ Dist(d)' <= Old(oval)
        BY <1>3, <2>4, <2>5 DEF Old, Held, oval, d
      <4>2. regs[e].n_dist - TopBit <= DS!INT_E_MAX
        BY <1>1, <1>3 DEF Held
      <4> QED BY <1>5, <2>1, <2>2, <2>4, <3>2, <4>1, <4>2 DEF Held, d, oval
    <3> QED BY <3>1, <3>2
  <2>9. ASSUME NEW x \in GA PROVE Followed(x)'
    <3>1. Followed(x)
      BY <1>3 DEF Calling
    <3>2. InHand(x) => InHand(x)'
      <4>1. CASE x # e
        BY <2>2, <2>5, <4>1 DEF InHand
      <4>2. CASE x = e
        BY <2>5, <2>11, <4>2 DEF InHand
      <4> QED BY <4>1, <4>2
    <3> QED BY <1>1, <2>2, <2>5, <3>1, <3>2 DEF Followed, Relieved
  <2>10. Calling'
    <3>1. Marks'
      BY <1>1, <1>3, <2>2 DEF Marks
    <3> QED BY <1>1, <2>8, <2>9, <3>1 DEF Calling
  <2> QED BY <1>1, <1>2, <1>3, <2>6, <2>7, <2>10 DEF DSState, Bounds, Feasible
<1> QED BY <1>6, <1>7

\* The others lower what is marked.
LEMMA WriteMinDistKeepsDSState ==
  ASSUME DS!InputsOK, NEW row, NEW w, DSState(row, w), NEW e \in DOMAIN regs, DS!WriteMinDist(e)
  PROVE  DSState(row, w)'
<1> DEFINE d == e[2]
<1>1. /\ regs[e].at = "min" /\ stage' = stage /\ GA' = GA /\ Frontier' = Frontier
      /\ key' = key /\ filed' = filed /\ todo' = todo /\ oldDist' = oldDist /\ out' = out
      /\ regs' = [x \in DOMAIN regs \ {e} |-> regs[x]]
      /\ dists' = IF regs[e].n_dist < dists[d] THEN [dists EXCEPT ![d] = regs[e].n_dist] ELSE dists
  BY DEF DS!WriteMinDist, DS!mainVars, DS!Answer
<1>2. DSType
  BY DEF DSState
<1>3. stage = "map" /\ Calling /\ Marks /\ Held(e) /\ e \in GA /\ d \in out /\ DS!HasTop(regs[e].n_dist)
  BY <1>1, <1>2 DEF DSState, DSType, Calling, Held
<1>4. /\ TopBit \in Nat /\ \A x : DS!HasTop(x) <=> x >= TopBit
      /\ d \in DSVerts /\ dists[d] \in Nat /\ Dist(d) \in Nat /\ regs[e].n_dist \in Nat
      /\ e[1] \in DSVerts /\ Dist(e[1]) \in Nat /\ e[3] \in Nat
  BY <1>1, <1>2, <1>3, DSFacts
<1>5. DS!HasTop(dists[d]) /\ Dist(d) = dists[d] - TopBit
  BY <1>3, <1>4 DEF Marks, Dist
<1> HIDE DEF d
<1>6. CASE regs[e].n_dist < dists[d]
  <2>1. Marks'
    <3>1. \A v \in DSVerts : DS!HasTop(dists'[v]) <=> DS!HasTop(dists[v])
      BY <1>1, <1>2, <1>3, <1>4, <1>5, <1>6 DEF DSType
    <3>2. \A v \in DSVerts \ out : dists'[v] = dists[v]
      BY <1>1, <1>2, <1>3, <1>6 DEF DSType
    <3> QED BY <1>1, <1>3, <3>1, <3>2 DEF Marks
  <2>2. regs[e].n_dist - TopBit < Dist(d)
    BY <1>4, <1>5, <1>6
  <2>3. out' = out \cup {d} /\ dists' = [dists EXCEPT ![d] = regs[e].n_dist]
    BY <1>1, <1>3, <1>6
  <2> QED BY <1>1, <1>3, <2>1, <2>2, <2>3, LoweredKeepsDSState DEF d
<1>7. CASE ~(regs[e].n_dist < dists[d])
  <2>1. dists' = dists /\ Dist(d) <= regs[e].n_dist - TopBit
    BY <1>1, <1>4, <1>5, <1>7
  <2>2. Relieved(e) \/ ~(e[1] \in Sighted) \/ e[1] \in filed \cup out
    <3>1. Followed(e) /\ e \notin todo
      BY <1>2, <1>3 DEF DSType, Calling
    <3>2. InHand(e) => Relieved(e)
      BY <1>1, <1>4, <2>1 DEF InHand, Relieved, d
    <3> QED BY <3>1, <3>2 DEF Followed
  <2> QED BY <1>1, <1>3, <2>1, <2>2, AnswerKeepsDSState
<1> QED BY <1>6, <1>7

\* The rows of shortest paths and the longest weight, which the graph fixes, bound every state.
DSInv == \E S, w : /\ S = ShortestIn(GA, DSVerts, Cardinality(DSVerts), DS!INT_E_MAX)
                   /\ DSState(S[Cardinality(DSVerts)], w)

\* With no negative weight the shortest paths are shorter than no one's lengths but every
\* walk's: no edge lowers them.
LEMMA LastRowIsFeasible ==
  ASSUME DS!InputsOK, NEW G \in DSGraphs, NEW S, S = ShortestIn(G, DSVerts, Cardinality(DSVerts), DS!INT_E_MAX)
  PROVE  /\ WalksOn(G, DSVerts, Cardinality(DSVerts), DS!INT_E_MAX)
         /\ Walks(G, DSVerts, Cardinality(DSVerts), DS!INT_E_MAX, S)
         /\ Feasible(G, DSVerts, DS!INT_E_MAX, S[Cardinality(DSVerts)])
<1> DEFINE N == Cardinality(DSVerts)
           zero == [v \in DSVerts |-> 0]
<1>1. /\ start \in DSVerts /\ N \in Nat \ {0} /\ DS!INT_E_MAX \in Nat \ {0}
      /\ WalksOn(G, DSVerts, N, DS!INT_E_MAX)
      /\ \A e \in G : e[1] \in DSVerts /\ e[2] \in DSVerts /\ e[3] \in Nat
  BY DSInputs
<1>2. Walks(G, DSVerts, N, DS!INT_E_MAX, S)
  BY <1>1, ShortestWalks
<1>3. Feasible(G, DSVerts, DS!INT_E_MAX, zero)
  BY <1>1 DEF Feasible
<1> HIDE DEF N, zero
<1>4. Cardinality(DSVerts) = N
  BY DEF N
<1>5. S[N] = S[N - 1]
  BY <1>1, <1>2, <1>3, <1>4, FeasibleStops
<1>6. N - 1 \in 0 .. N - 1 /\ (N - 1) + 1 = N /\ N \in 0 .. N
  BY <1>1
<1>7. \A e \in G : S[N][e[1]] # DS!INT_E_MAX => S[N][e[2]] <= S[N][e[1]] + e[3]
  <2>1. \A e \in G : S[N - 1][e[1]] # DS!INT_E_MAX => S[(N - 1) + 1][e[2]] <= S[N - 1][e[1]] + e[3]
    BY <1>2, <1>6 DEF Walks
  <2> QED BY <1>5, <1>6, <2>1
<1>8. S[N] \in [DSVerts -> Int] /\ S[N][start] <= 0 /\ \A v \in DSVerts : S[N][v] <= DS!INT_E_MAX
  BY <1>1, <1>2, <1>6, WalksBounds
<1>9. Feasible(G, DSVerts, DS!INT_E_MAX, S[N])
  BY <1>7, <1>8 DEF Feasible
<1> QED BY <1>1, <1>2, <1>9 DEF N

LEMMA DSInvKept == ASSUME DS!InputsOK PROVE DS!Spec => []DSInv
<1>1. DS!Init => DSInv
  <2> SUFFICES ASSUME DS!Init PROVE DSInv
    OBVIOUS
  <2>1. PICK G : G = GA
    OBVIOUS
  <2>2. G \in DSGraphs
    BY <2>1 DEF DS!Init
  <2>3. PICK S : S = ShortestIn(G, DSVerts, Cardinality(DSVerts), DS!INT_E_MAX)
    OBVIOUS
  <2>4. Feasible(G, DSVerts, DS!INT_E_MAX, S[Cardinality(DSVerts)])
    BY <2>2, <2>3, LastRowIsFeasible
  <2>5. PICK w \in Nat : Cardinality(DSVerts) * w < DS!INT_E_MAX /\ \A e \in G : e[3] <= w
    BY <2>2, DSInputs
  <2>6. Bounds(w)
    BY <2>1, <2>5 DEF Bounds
  <2>7. DSState(S[Cardinality(DSVerts)], w)
    BY <2>1, <2>4, <2>6, InitDSState
  <2> QED BY <2>1, <2>3, <2>7 DEF DSInv
<1>2. DSInv /\ [DS!Next]_DS!vars => DSInv'
  <2> SUFFICES ASSUME DSInv, [DS!Next]_DS!vars PROVE DSInv'
    OBVIOUS
  <2>1. PICK S, w : S = ShortestIn(GA, DSVerts, Cardinality(DSVerts), DS!INT_E_MAX) /\ DSState(S[Cardinality(DSVerts)], w)
    BY DEF DSInv
  <2>2. PICK row : row = S[Cardinality(DSVerts)]
    OBVIOUS
  <2>3. DSState(row, w)
    BY <2>1, <2>2
  <2>4. CASE DS!NextBucket
    <3>1. DSState(row, w)' /\ GA' = GA
      BY <2>3, <2>4, NextBucketKeepsDSState DEF DS!NextBucket
    <3> QED BY <2>1, <2>2, <3>1 DEF DSInv
  <2>5. CASE DS!NullBucket
    <3>1. DSState(row, w)' /\ GA' = GA
      BY <2>3, <2>5, NullBucketKeepsDSState DEF DS!NullBucket
    <3> QED BY <2>1, <2>2, <3>1 DEF DSInv
  <2>6. CASE DS!Rebucket
    <3>1. DSState(row, w)' /\ GA' = GA
      BY <2>3, <2>6, RebucketKeepsDSState DEF DS!Rebucket
    <3> QED BY <2>1, <2>2, <3>1 DEF DSInv
  <2>7. ASSUME NEW e \in todo, DS!ReadOld(e) PROVE DSInv'
    <3>1. DSState(row, w)' /\ GA' = GA
      BY <2>3, <2>7, ReadOldKeepsDSState DEF DS!ReadOld, DS!mainVars
    <3> QED BY <2>1, <2>2, <3>1 DEF DSInv
  <2>8. ASSUME NEW e \in DOMAIN regs, DS!ReadSource(e) PROVE DSInv'
    <3>1. DSState(row, w)' /\ GA' = GA
      BY <2>3, <2>8, ReadSourceKeepsDSState DEF DS!ReadSource, DS!mainVars
    <3> QED BY <2>1, <2>2, <3>1 DEF DSInv
  <2>9. ASSUME NEW e \in DOMAIN regs, DS!SwapFirst(e) PROVE DSInv'
    <3>1. DSState(row, w)' /\ GA' = GA
      BY <2>3, <2>9, SwapFirstKeepsDSState DEF DS!SwapFirst, DS!mainVars
    <3> QED BY <2>1, <2>2, <3>1 DEF DSInv
  <2>10. ASSUME NEW e \in DOMAIN regs, DS!WriteMinDist(e) PROVE DSInv'
    <3>1. DSState(row, w)' /\ GA' = GA
      BY <2>3, <2>10, WriteMinDistKeepsDSState DEF DS!WriteMinDist, DS!mainVars
    <3> QED BY <2>1, <2>2, <3>1 DEF DSInv
  <2>11. CASE UNCHANGED DS!vars
    BY <2>11, ZenonT(40) DEF DS!vars, DS!mainVars, DS!callVars, DS!dsVars, DSInv, DSState, DSType, Bounds, Feasible,
         Small, Long, Known, Calling, Marks, Held, Followed, InHand, Settled, Relieved, Sighted, Dist, Old
  <2> QED BY <2>4, <2>5, <2>6, <2>7, <2>8, <2>9, <2>10, <2>11 DEF DS!Next
<1> QED BY <1>1, <1>2, PTL DEF DS!Spec

\* Between two rounds of DeltaStepping no distance keeps its top bit and each vertex lies
\* in the bucket of its distance, or waits to be found there, as long as it can still lower
\* another; in a round every marked vertex has been reported, with the distance it was
\* bucketed by: no lowering is forgotten, in any interleaving.
THEOREM NoLoweredVertexIsForgotten == ASSUME DS!InputsOK PROVE DS!Spec => []DS!NothingIsLost
<1>1. DSInv => DS!NothingIsLost
  <2> SUFFICES ASSUME DSInv PROVE DS!NothingIsLost
    OBVIOUS
  <2>1. PICK row, w : DSState(row, w)
    BY DEF DSInv
  <2>2. DSType
    BY <2>1 DEF DSState
  <2>3. ASSUME stage = "loop"
        PROVE  /\ \A v \in DSVerts : dists[v] < TopBit /\ key[v] = DS!get_bkt(dists[v])
               /\ \A e \in GA : dists[e[1]] # DS!INT_E_MAX =>
                    e[1] \in filed \/ dists[e[2]] <= dists[e[1]] + e[3]
    <3>1. Settled
      BY <2>1, <2>3 DEF DSState
    <3>2. /\ TopBit \in Nat /\ \A x : DS!HasTop(x) <=> x >= TopBit
          /\ \A e \in GA : e[1] \in DSVerts /\ e[2] \in DSVerts
          /\ \A v \in DSVerts : dists[v] \in Nat
      BY <2>2, DSFacts
    <3>3. \A v \in DSVerts : Dist(v) = dists[v]
      BY <3>1 DEF Settled, Dist
    <3>4. \A v \in DSVerts : dists[v] < TopBit /\ key[v] = DS!get_bkt(dists[v])
      BY <3>1, <3>2 DEF Settled
    <3>5. ASSUME NEW e \in GA, dists[e[1]] # DS!INT_E_MAX
          PROVE  e[1] \in filed \/ dists[e[2]] <= dists[e[1]] + e[3]
      <4>1. e[1] \in Sighted
        BY <3>2, <3>3, <3>5 DEF Sighted
      <4> QED BY <3>1, <3>2, <3>3, <4>1 DEF Settled, Relieved
    <3> QED BY <3>4, <3>5
  <2>4. stage = "map" => Marks /\ out \subseteq DSVerts
    BY <2>1, <2>2 DEF DSState, Calling, DSType
  <2> QED BY <2>3, <2>4 DEF DS!NothingIsLost, Marks
<1> QED BY <1>1, DSInvKept, PTL

\* When DeltaStepping finds no bucket its distances are the lengths of the shortest paths,
\* whatever delta is.
THEOREM DeltaDistancesAreShortest == ASSUME DS!InputsOK PROVE DS!Spec => []DS!DistancesAreShortest
<1>1. DSInv => DS!DistancesAreShortest
  <2> SUFFICES ASSUME DSInv, stage = "done" PROVE dists = DS!Shortest[DS!Cardinality(DSVerts)]
    BY DEF DS!DistancesAreShortest, DS!Done
  <2>1. PICK S, w : S = ShortestIn(GA, DSVerts, Cardinality(DSVerts), DS!INT_E_MAX) /\ DSState(S[Cardinality(DSVerts)], w)
    BY DEF DSInv
  <2>2. PICK G, P, N : G = GA /\ P = dists /\ N = Cardinality(DSVerts)
    OBVIOUS
  <2>3. DSType /\ Settled /\ Known /\ Long(S[N])
    BY <2>1, <2>2 DEF DSState
  <2>4. /\ start \in DSVerts /\ DS!INT_E_MAX \in Nat \ {0} /\ N \in Nat \ {0}
        /\ \A e \in GA : e[1] \in DSVerts /\ e[2] \in DSVerts
        /\ \A v \in DSVerts : dists[v] \in Nat /\ Dist(v) <= DS!INT_E_MAX
    BY <2>2, <2>3, DSFacts, DSInputs
  <2>5. \A v \in DSVerts : Dist(v) = dists[v]
    BY <2>3 DEF Settled, Dist
  <2>6. /\ G \in DSGraphs /\ WalksOn(G, DSVerts, N, DS!INT_E_MAX) /\ Walks(G, DSVerts, N, DS!INT_E_MAX, S)
        /\ Feasible(G, DSVerts, DS!INT_E_MAX, S[N])
    BY <2>1, <2>2, <2>3, LastRowIsFeasible DEF DSType
  <2>7. Feasible(G, DSVerts, DS!INT_E_MAX, P)
    <3>1. P \in [DSVerts -> Int] /\ P[start] <= 0 /\ \A v \in DSVerts : P[v] <= DS!INT_E_MAX
      BY <2>2, <2>3, <2>4, <2>5 DEF DSType, Known
    <3>2. ASSUME NEW e \in GA, dists[e[1]] # DS!INT_E_MAX PROVE dists[e[2]] <= dists[e[1]] + e[3]
      <4>1. e[1] \in Sighted /\ filed = {}
        BY <2>3, <2>4, <2>5, <3>2 DEF Sighted, Settled
      <4> QED BY <2>3, <2>4, <2>5, <4>1 DEF Settled, Relieved
    <3> QED BY <2>2, <3>1, <3>2 DEF Feasible
  <2>8. \A v \in DSVerts : P[v] <= S[N][v]
    <3>1. N \in 0 .. N
      BY <2>4
    <3> QED BY <2>6, <2>7, <3>1, FeasibleIsShort
  <2>9. \A v \in DSVerts : S[N][v] <= dists[v]
    BY <2>3, <2>5 DEF Long
  <2>10. dists = S[N]
    <3>1. \A v \in DSVerts : dists[v] \in Int /\ S[N][v] \in Int
      BY <2>4, <2>6 DEF Feasible
    <3>2. \A v \in DSVerts : dists[v] = S[N][v]
      BY <2>2, <2>8, <2>9, <3>1
    <3>3. dists \in [DSVerts -> Nat] /\ S[N] \in [DSVerts -> Int]
      BY <2>3, <2>6 DEF DSType, Feasible
    <3> QED BY <3>2, <3>3
  <2>11. DS!Cardinality(DSVerts) = N
    BY <2>2 DEF DS!Cardinality, Cardinality
  <2>12. DS!Shortest = S
    BY <2>1, <2>2, <2>11 DEF DS!Shortest, ShortestIn, DS!Min, BF!Min
  <2> QED BY <2>10, <2>11, <2>12
<1> QED BY <1>1, DSInvKept, PTL

-----------------------------------------------------------------------------
\* The programs side by side.
\* A step of the whole is a step of one program, and the places of the others stay.
LEMMA AllStep ==
  [AllNext]_allVars => /\ prog' = prog
                       /\ [ProgramsNext]_programsVars
                       /\ prog = "BFS" => [B!Next]_(B!vars)
                       /\ prog = "Radii" => [Next]_vars
                       /\ prog # "Radii" => UNCHANGED radiiVars
<1>1. CASE ProgramsNext /\ UNCHANGED <<vars, bfsParents>>
  <2>1. prog' = prog /\ prog # "BFS" /\ prog # "Radii"
    BY <1>1 DEF ProgramsNext
  <2>2. UNCHANGED radiiVars
    BY <1>1 DEF vars
  <2> QED BY <1>1, <2>1, <2>2
<1>2. CASE prog = "BFS" /\ B!Next /\ UNCHANGED <<programsVars, radiiVars>>
  <2>1. prog' = prog /\ UNCHANGED programsVars /\ UNCHANGED radiiVars
    BY <1>2 DEF programsVars
  <2> QED BY <1>2, <2>1
<1>3. CASE prog = "Radii" /\ Next /\ UNCHANGED <<programsVars, bfsParents>>
  <2>1. prog' = prog /\ UNCHANGED programsVars
    BY <1>3 DEF programsVars
  <2> QED BY <1>3, <2>1
<1>4. CASE UNCHANGED allVars
  <2>1. UNCHANGED programsVars /\ UNCHANGED vars /\ bfsParents' = bfsParents
    BY <1>4 DEF allVars
  <2>2. prog' = prog /\ UNCHANGED radiiVars /\ UNCHANGED B!vars
    BY <2>1 DEF programsVars, vars, B!vars, B!emVars, emVars
  <2> QED BY <2>1, <2>2
<1> QED BY <1>1, <1>2, <1>3, <1>4 DEF AllNext

\* The two searches, over the detailed edgeMap; no array is the null pointer.
LEMMA BFSInAll ==
  ASSUME NullIsNoArray
  PROVE  AllSpec => [](prog = "BFS" => B!ParentsAreShortest /\ B!FrontierIsLevel)
<1>1. AllInit /\ prog = "BFS" => B!Init
  BY DEF AllInit, ProgramsInit
<1>2. /\ prog = "BFS" /\ [AllNext]_allVars => (prog = "BFS")'
      /\ ~(prog = "BFS") /\ [AllNext]_allVars => (~(prog = "BFS"))'
  BY AllStep
<1>3. prog = "BFS" /\ [AllNext]_allVars => [B!Next]_(B!vars)
  BY AllStep
<1>4. B!StartInGraph /\ B!NullIsNoArray
  BY SearchesAssumption, NullIsNoArray DEF NullIsNoArray, B!NullIsNoArray, V, B!V
<1>5. /\ n \in Nat \ {0} /\ m \in Nat /\ Beyond \in B!V
      /\ B!IsCSR(offset, E) /\ B!IsCSR(inOffset, inE) /\ B!IsTranspose
  BY GraphAssumption DEF V, IsCSR, IsTranspose, OutDegree, OutNeighbor, InDegree, InNeighbor,
     B!V, B!IsCSR, B!IsTranspose, B!OutDegree, B!OutNeighbor, B!InDegree, B!InNeighbor
<1>6. /\ NULL \notin [B!V -> BOOLEAN]
      /\ UINT_E_MAX \notin B!V /\ UNINIT \notin B!V /\ UNINIT \notin BOOLEAN /\ UNINIT # UINT_E_MAX
      /\ Nvm \in BOOLEAN /\ Div \in Nat \ {0} /\ Grain \in Nat /\ BSize \in Nat \ {0}
  BY EdgeMapAssumption DEF V, B!V
<1>7. B!Init /\ [][B!Next]_(B!vars) => []B!Searches
  BY <1>4, <1>5, <1>6, B!SearchesInvariant
<1>8. B!Searches => B!ParentsAreShortest /\ B!FrontierIsLevel
  BY <1>5, <1>6, B!SearchesSuffice
<1> QED BY <1>1, <1>2, <1>3, <1>7, <1>8, PTL DEF AllSpec

LEMMA RadiiInAll ==
  ASSUME NullIsNoArray
  PROVE  AllSpec => [](prog = "Radii" => SearchesInStep /\ RadiiAreEccentricities)
<1>1. AllInit /\ prog = "Radii" => Init
  BY DEF AllInit, ProgramsInit
<1>2. /\ prog = "Radii" /\ [AllNext]_allVars => (prog = "Radii")'
      /\ ~(prog = "Radii") /\ [AllNext]_allVars => (~(prog = "Radii"))'
  BY AllStep
<1>3. prog = "Radii" /\ [AllNext]_allVars => [Next]_vars
  BY AllStep
<1>4. Init /\ [][Next]_vars => []RadiiSearches
  BY RadiiSearchesInvariant, SearchesAssumption
<1>5. RadiiSearches => SearchesInStep /\ RadiiAreEccentricities
  BY RoundsAreInStep, EndsAreEccentricities, SearchesAssumption
<1> QED BY <1>1, <1>2, <1>3, <1>4, <1>5, PTL DEF AllSpec

\* Without Radii synced stays as it is.
LEMMA NoSearchWaits == AllSpec => [](~(prog = "Radii") => synced)
<1>1. AllInit => (~(prog = "Radii") => synced)
  BY DEF AllInit, NoRadii
<1>2. (~(prog = "Radii") => synced) /\ [AllNext]_allVars => (~(prog = "Radii") => synced)'
  BY AllStep DEF radiiVars
<1> QED BY <1>1, <1>2, PTL DEF AllSpec

LEMMA BellmanFordInAll ==
  AllSpec => [](prog = "BellmanFord" => BF!DistancesAreShortest /\ BF!NothingIsLost)
<1>1. AllInit /\ prog = "BellmanFord" => BF!Init
  BY DEF AllInit, ProgramsInit
<1>2. /\ prog = "BellmanFord" /\ [AllNext]_allVars => (prog = "BellmanFord")'
      /\ ~(prog = "BellmanFord") /\ [AllNext]_allVars => (~(prog = "BellmanFord"))'
  BY AllStep
<1>3. prog = "BellmanFord" /\ [AllNext]_allVars => [BF!Next]_(BF!vars)
  BY AllStep DEF ProgramsNext, programsVars, BF!vars, BF!mainVars, BF!callVars, BF!bfVars
<1>4. BF!InputsOK
  BY ProgramsAssumption
<1>5. BF!Spec => []BF!DistancesAreShortest
  BY <1>4, DistancesAreAlwaysShortest
<1>6. BF!Spec => []BF!NothingIsLost
  BY <1>4, NothingIsEverLost
<1> QED BY <1>1, <1>2, <1>3, <1>5, <1>6, PTL DEF AllSpec, BF!Spec

LEMMA DeltaSteppingInAll ==
  AllSpec => [](prog = "DeltaStepping" => DS!DistancesAreShortest /\ DS!NothingIsLost)
<1>1. AllInit /\ prog = "DeltaStepping" => DS!Init
  BY DEF AllInit, ProgramsInit
<1>2. /\ prog = "DeltaStepping" /\ [AllNext]_allVars => (prog = "DeltaStepping")'
      /\ ~(prog = "DeltaStepping") /\ [AllNext]_allVars => (~(prog = "DeltaStepping"))'
  BY AllStep
<1>3. prog = "DeltaStepping" /\ [AllNext]_allVars => [DS!Next]_(DS!vars)
  BY AllStep DEF ProgramsNext, programsVars, DS!vars, DS!mainVars, DS!callVars, DS!dsVars
<1>4. DS!InputsOK
  BY ProgramsAssumption
<1>5. DS!Spec => []DS!DistancesAreShortest
  BY <1>4, DeltaDistancesAreShortest
<1>6. DS!Spec => []DS!NothingIsLost
  BY <1>4, NoLoweredVertexIsForgotten
<1> QED BY <1>1, <1>2, <1>3, <1>5, <1>6, PTL DEF AllSpec, DS!Spec

LEMMA HyperSSSPInAll ==
  AllSpec => [](prog = "HyperSSSP" => HS!DistancesUnlessGivenUp /\ HS!NothingIsLost)
<1>1. AllInit /\ prog = "HyperSSSP" => HS!Init
  BY DEF AllInit, ProgramsInit
<1>2. /\ prog = "HyperSSSP" /\ [AllNext]_allVars => (prog = "HyperSSSP")'
      /\ ~(prog = "HyperSSSP") /\ [AllNext]_allVars => (~(prog = "HyperSSSP"))'
  BY AllStep
<1>3. prog = "HyperSSSP" /\ [AllNext]_allVars => [HS!Next]_(HS!vars)
  BY AllStep DEF ProgramsNext, programsVars, HS!vars, HS!mainVars, HS!callVars, HS!bfVars
<1>4. HS!InputsOK
  BY ProgramsAssumption
<1>5. HS!Spec => []HS!DistancesUnlessGivenUp
  BY <1>4, HyperDistancesUnlessGivenUp
<1>6. HS!Spec => []HS!NothingIsLost
  BY <1>4, NoHyperRelaxationIsLost
<1> QED BY <1>1, <1>2, <1>3, <1>5, <1>6, PTL DEF AllSpec, HS!Spec

LEMMA ComponentsShortcutInAll ==
  AllSpec => [](prog = "ComponentsShortcut" => CS!LabelsAreMinimal /\ CS!NothingIsLost)
<1>1. AllInit /\ prog = "ComponentsShortcut" => CS!Init
  BY DEF AllInit, ProgramsInit
<1>2. /\ prog = "ComponentsShortcut" /\ [AllNext]_allVars => (prog = "ComponentsShortcut")'
      /\ ~(prog = "ComponentsShortcut") /\ [AllNext]_allVars => (~(prog = "ComponentsShortcut"))'
  BY AllStep
<1>3. prog = "ComponentsShortcut" /\ [AllNext]_allVars => [CS!Next]_(CS!vars)
  BY AllStep DEF ProgramsNext, programsVars, CS!vars, CS!mainVars, CS!callVars, CS!ccVars
<1>4. CS!InputsOK
  BY ProgramsAssumption
<1>5. CS!Spec => []CS!LabelsAreMinimal
  BY <1>4, LabelsAreAlwaysMinimal
<1>6. CS!Spec => []CS!NothingIsLost
  BY <1>4, NoJumpLosesAnEdge
<1> QED BY <1>1, <1>2, <1>3, <1>5, <1>6, PTL DEF AllSpec, CS!Spec

LEMMA HyperCCInAll ==
  AllSpec => [](prog = "HyperCC" => HC!LabelsAreMinimal /\ HC!NothingIsLost)
<1>1. AllInit /\ prog = "HyperCC" => HC!Init
  BY DEF AllInit, ProgramsInit
<1>2. /\ prog = "HyperCC" /\ [AllNext]_allVars => (prog = "HyperCC")'
      /\ ~(prog = "HyperCC") /\ [AllNext]_allVars => (~(prog = "HyperCC"))'
  BY AllStep
<1>3. prog = "HyperCC" /\ [AllNext]_allVars => [HC!Next]_(HC!vars)
  BY AllStep DEF ProgramsNext, programsVars, HC!vars, HC!mainVars, HC!callVars, HC!ccVars
<1>4. HC!InputsOK
  BY ProgramsAssumption
<1>5. HC!Spec => []HC!LabelsAreMinimal
  BY <1>4, HyperLabelsAreAlwaysMinimal
<1>6. HC!Spec => []HC!NothingIsLost
  BY <1>4, NoHyperedgeIsLost
<1> QED BY <1>1, <1>2, <1>3, <1>5, <1>6, PTL DEF AllSpec, HC!Spec

LEMMA HyperBPathInAll ==
  AllSpec => [](prog = "HyperBPath" => BP!HyperpathsAreFound)
<1>1. AllInit /\ prog = "HyperBPath" => BP!Init
  BY DEF AllInit, ProgramsInit
<1>2. /\ prog = "HyperBPath" /\ [AllNext]_allVars => (prog = "HyperBPath")'
      /\ ~(prog = "HyperBPath") /\ [AllNext]_allVars => (~(prog = "HyperBPath"))'
  BY AllStep
<1>3. prog = "HyperBPath" /\ [AllNext]_allVars => [BP!Next]_(BP!vars)
  BY AllStep DEF ProgramsNext, programsVars, BP!vars, BP!mainVars, BP!callVars, BP!bpVars
<1>4. BP!InputsOK
  BY ProgramsAssumption
<1>5. BP!Spec => []BP!HyperpathsAreFound
  BY <1>4, HyperpathsAreAlwaysFound
<1> QED BY <1>1, <1>2, <1>3, <1>5, PTL DEF AllSpec, BP!Spec

LEMMA KCoreInAll ==
  AllSpec => [](prog = "KCore" => KC!DegreesAreInduced /\ KC!CoresAreRight)
<1>1. AllInit /\ prog = "KCore" => KC!Init
  BY DEF AllInit, ProgramsInit
<1>2. /\ prog = "KCore" /\ [AllNext]_allVars => (prog = "KCore")'
      /\ ~(prog = "KCore") /\ [AllNext]_allVars => (~(prog = "KCore"))'
  BY AllStep
<1>3. prog = "KCore" /\ [AllNext]_allVars => [KC!Next]_(KC!vars)
  BY AllStep DEF ProgramsNext, programsVars, KC!vars, KC!mainVars, KC!callVars, KC!coreVars
<1>4. KC!InputsOK
  BY ProgramsAssumption
<1>5. KC!Spec => []KC!DegreesAreInduced
  BY <1>4, DegreesAreAlwaysInduced
<1>6. KC!Spec => []KC!CoresAreRight
  BY <1>4, CoresAreAlwaysRight
<1> QED BY <1>1, <1>2, <1>3, <1>5, <1>6, PTL DEF AllSpec, KC!Spec

LEMMA HyperKCoreInAll ==
  AllSpec => [](prog = "HyperKCore" => HK!DegreesAreInduced /\ HK!CoresAreRight)
<1>1. AllInit /\ prog = "HyperKCore" => HK!Init
  BY DEF AllInit, ProgramsInit
<1>2. /\ prog = "HyperKCore" /\ [AllNext]_allVars => (prog = "HyperKCore")'
      /\ ~(prog = "HyperKCore") /\ [AllNext]_allVars => (~(prog = "HyperKCore"))'
  BY AllStep
<1>3. prog = "HyperKCore" /\ [AllNext]_allVars => [HK!Next]_(HK!vars)
  BY AllStep DEF ProgramsNext, programsVars, HK!vars, HK!mainVars, HK!callVars, HK!coreVars
<1>4. HK!InputsOK
  BY ProgramsAssumption
<1>5. HK!Spec => []HK!DegreesAreInduced
  BY <1>4, HyperDegreesAreAlwaysInduced
<1>6. HK!Spec => []HK!CoresAreRight
  BY <1>4, HyperCoresAreAlwaysRight
<1> QED BY <1>1, <1>2, <1>3, <1>5, <1>6, PTL DEF AllSpec, HK!Spec

LEMMA BucketKCoreInAll ==
  AllSpec => [](prog = "BucketKCore" => BK!DegreesAreInduced /\ BK!CoresAreRight)
<1>1. AllInit /\ prog = "BucketKCore" => BK!Init
  BY DEF AllInit, ProgramsInit
<1>2. /\ prog = "BucketKCore" /\ [AllNext]_allVars => (prog = "BucketKCore")'
      /\ ~(prog = "BucketKCore") /\ [AllNext]_allVars => (~(prog = "BucketKCore"))'
  BY AllStep
<1>3. prog = "BucketKCore" /\ [AllNext]_allVars => [BK!Next]_(BK!vars)
  BY AllStep DEF ProgramsNext, programsVars, BK!vars
<1>4. BK!InputsOK
  BY ProgramsAssumption
<1>5. BK!Spec => []BK!DegreesAreInduced
  BY <1>4, BucketDegreesAreInduced
<1>6. BK!Spec => []BK!CoresAreRight
  BY <1>4, BucketCoresAreRight
<1> QED BY <1>1, <1>2, <1>3, <1>5, <1>6, PTL DEF AllSpec, BK!Spec

\* On every graph, whatever the interleaving and the traversals chosen, the parent of a
\* vertex nvmBFS visited is a neighbour of it one level closer to the start.
THEOREM EveryParentIsShortest ==
  ASSUME NullIsNoArray
  PROVE  AllSpec => []ParentsAreShortest
  BY BFSInAll, PTL DEF ParentsAreShortest

\* On every graph the frontier of nvmBFS between two rounds is exactly one level, each of
\* its vertices once.
THEOREM EveryFrontierIsLevel ==
  ASSUME NullIsNoArray
  PROVE  AllSpec => []FrontierIsLevel
  BY BFSInAll, PTL DEF FrontierIsLevel

\* nvmRadii's searches stay at the same distance, on every graph, for all samples and in
\* every interleaving of the writeOrs, the reads of radii and the CASes: no bit is lost,
\* none runs ahead, and a vertex is in the next frontier once, just when it got a new bit.
THEOREM SearchesAreAlwaysInStep ==
  ASSUME NullIsNoArray
  PROVE  AllSpec => []SearchesInStep
<1>1. ~(prog = "Radii") /\ synced => SearchesInStep
  BY DEF SearchesInStep
<1> QED BY <1>1, RadiiInAll, NoSearchWaits, PTL

\* When nvmRadii ends, radii[v] is the largest distance of v from a sample whose bit
\* survived, and -1 where none reaches: on every graph.
THEOREM RadiiAreAlwaysEccentricities ==
  ASSUME NullIsNoArray
  PROVE  AllSpec => []RadiiAreEccentricities
<1>1. ~(prog = "Radii") /\ synced => RadiiAreEccentricities
  BY DEF RadiiAreEccentricities, Done
<1> QED BY <1>1, RadiiInAll, NoSearchWaits, PTL

\* On every graph, weighting and hypergraph BellmanFord, DeltaStepping, the connectivity
\* and the hyperpath programs end with what they promise, whoever won each CAS.
THEOREM EveryResultIsExact == AllSpec => []ResultsAreExact
  BY BellmanFordInAll, DeltaSteppingInAll, ComponentsShortcutInAll, HyperCCInAll, HyperBPathInAll, PTL DEF ResultsAreExact

\* On every weighted hypergraph HyperSSSP ends with the shortest distances unless its loop
\* gave up, which it may do without a negative cycle.
THEOREM DistancesUnlessGivenUpAlways == AllSpec => []DistancesUnlessGivenUp
  BY HyperSSSPInAll, PTL DEF DistancesUnlessGivenUp

\* On every graph, between two calls, whatever can still improve a neighbour is in the
\* frontier or in a bucket, and the marks of the last call are gone.
THEOREM NothingIsLostAnywhere == AllSpec => []NothingIsLost
  BY BellmanFordInAll, DeltaSteppingInAll, HyperSSSPInAll, ComponentsShortcutInAll, HyperCCInAll, PTL DEF NothingIsLost

\* On every graph and hypergraph the three k-core programs hold exact degrees between
\* the rounds, and end with the core numbers.
THEOREM EveryCoreIsRight == AllSpec => []CoresAreRight
  BY KCoreInAll, HyperKCoreInAll, BucketKCoreInAll, PTL DEF CoresAreRight
=============================================================================
