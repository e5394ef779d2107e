----------------------------- MODULE Cores_proofs -----------------------------
(***************************************************************************)
(* Proofs about the programs that count neighbours down: KCore, the        *)
(* bucketed KCore and HyperKCore, whose degrees are those among the        *)
(* vertices still in, and HyperBPath, whose hyperedges hold minus the      *)
(* number of in-vertices not yet reached.  Each is an instance of its own, *)
(* over the abstract edgeMap (EdgeCall) or BucketSpec, and needs nothing   *)
(* of the detailed one.                                                    *)
(***************************************************************************)
EXTENDS Programs, EdgeMap_proofs

-----------------------------------------------------------------------------
(* The cores, for every symmetric graph without loops.  The degree of a    *)
(* vertex still in is that among those still in and the decrements still   *)
(* to come; so cond, which reads it while other workers lower it, is true  *)
(* of each such vertex, and of no other.  With the degrees right, what is  *)
(* taken out in round k is in the set the round began with, in which every *)
(* vertex has k - 1 neighbours, and in no set in which every one has k.    *)

Nbrs(v, S) == {u \in S : <<v, u>> \in GA}
Pending(v) == {e \in todo \cup DOMAIN regs : e[2] = v}

KCType == /\ GA \in KCGraphs
          /\ stage \in {"filter", "map", "done"}
          /\ Frontier \subseteq CoreVerts
          /\ todo \subseteq GA /\ DOMAIN regs \subseteq GA /\ todo \cap DOMAIN regs = {}
          /\ stage # "map" => todo = {} /\ DOMAIN regs = {}
          /\ coreK \in 1 .. KC!nv
          /\ Degrees \in [CoreVerts -> Int] /\ coreNumbers \in [CoreVerts -> Nat]

Counted == stage # "done" =>
  /\ \A v \in Frontier : Degrees[v] = Cardinality(Nbrs(v, Frontier)) + Cardinality(Pending(v))
  /\ \A v \in CoreVerts \ Frontier : Degrees[v] = 0
  /\ \A e \in DOMAIN regs : e[2] \in Frontier

HasCore(v, j) == /\ \E S \in SUBSET CoreVerts : v \in S /\ KC!InCore(j, S)
                 /\ ~ \E S \in SUBSET CoreVerts : v \in S /\ KC!InCore(j + 1, S)

\* C is the frontier that round k began with.
Begun(C) == /\ C \in SUBSET CoreVerts /\ Frontier \subseteq C /\ C # {}
            /\ KC!InCore(coreK - 1, C)
            /\ \A v \in C \ Frontier : coreNumbers[v] = coreK - 1

Peeled == stage # "done" =>
  /\ \A S \in SUBSET CoreVerts : KC!InCore(coreK, S) => S \subseteq Frontier
  /\ \E C : Begun(C)
  /\ \A v \in CoreVerts \ Frontier : HasCore(v, coreNumbers[v]) /\ coreNumbers[v] <= coreK - 1

Finished == stage = "done" =>
  /\ \A v \in CoreVerts : HasCore(v, coreNumbers[v]) /\ coreNumbers[v] <= largestCore
  /\ \E v \in CoreVerts : coreNumbers[v] = largestCore
  /\ \A v \in CoreVerts : coreNumbers[v] <= KC!nv

KCInv == KCType /\ Counted /\ Peeled /\ Finished

\* What the inputs give the proofs below.
LEMMA KCoreInputs ==
  ASSUME KC!InputsOK
  PROVE  /\ IsFiniteSet(CoreVerts) /\ CoreVerts # {} /\ KC!nv = Cardinality(CoreVerts) /\ KC!nv \in Nat \ {0}
         /\ UintRange \in Nat /\ KC!nv < UintRange
         /\ \A S : KC!Cardinality(S) = Cardinality(S)
         /\ \A G \in KCGraphs : /\ G \subseteq CoreVerts \X CoreVerts /\ IsFiniteSet(G)
                                /\ \A e \in G : /\ e = <<e[1], e[2]>> /\ e[1] \in CoreVerts /\ e[2] \in CoreVerts
                                                /\ <<e[2], e[1]>> \in G /\ e[1] # e[2]
<1>1. \A S : KC!Cardinality(S) = Cardinality(S)
  BY DEF KC!Cardinality, Cardinality
<1>2. IsFiniteSet(CoreVerts)
  BY DEF KC!InputsOK, KC!IsFiniteSet, IsFiniteSet
<1>3. /\ CoreVerts # {} /\ KC!nv = Cardinality(CoreVerts) /\ UintRange \in Nat /\ KC!nv < UintRange
      /\ \A G \in KCGraphs : G \subseteq CoreVerts \X CoreVerts /\ \A e \in G : <<e[2], e[1]>> \in G /\ e[1] # e[2]
  BY <1>1 DEF KC!InputsOK, KC!nv
<1>4. KC!nv \in Nat \ {0}
  BY <1>2, <1>3, FS_CardinalityType, FS_EmptySet
<1>5. \A G \in KCGraphs : IsFiniteSet(G)
  <2>1. IsFiniteSet(CoreVerts \X CoreVerts)
    BY <1>2, FS_Product
  <2> QED BY <1>3, <2>1, FS_Subset
<1> QED BY <1>1, <1>2, <1>3, <1>4, <1>5

\* Edges into a node, and out of it, counted by their other ends.
TwoWay(G) == \A e \in G : e = <<e[1], e[2]>> /\ <<e[2], e[1]>> \in G
EdgesFrom(G, U, v) == {e \in G : e[1] \in U /\ e[2] = v}
EdgesTo(G, v, U) == {e \in G : e[1] = v /\ e[2] \in U}
OtherEnds(G, v, U) == {u \in U : <<v, u>> \in G}
LEMMA EdgesByEnds ==
  ASSUME NEW G, TwoWay(G), NEW U, IsFiniteSet(U), NEW v
  PROVE  /\ Cardinality(EdgesFrom(G, U, v)) = Cardinality(OtherEnds(G, v, U))
         /\ Cardinality(EdgesTo(G, v, U)) = Cardinality(OtherEnds(G, v, U))
<1> DEFINE Us == OtherEnds(G, v, U)
           In == EdgesFrom(G, U, v)
           Out == EdgesTo(G, v, U)
           f == [u \in Us |-> <<u, v>>]
           g == [u \in Us |-> <<v, u>>]
<1>1. IsFiniteSet(Us)
  BY FS_Subset DEF OtherEnds
<1>2. \A e \in G : e = <<e[1], e[2]>> /\ <<e[2], e[1]>> \in G
  BY DEF TwoWay
<1>3. f \in [Us -> In] /\ (\A a, b \in Us : f[a] = f[b] => a = b) /\ \A e \in In : \E u \in Us : f[u] = e
  <2>1. \A u \in Us : <<u, v>> \in In
    <3> TAKE u \in Us
    <3>1. <<v, u>> \in G /\ u \in U
      BY DEF OtherEnds
    <3>2. <<u, v>> \in G
      BY <1>2, <3>1
    <3> QED BY <3>1, <3>2 DEF EdgesFrom
  <2>2. \A e \in In : e[1] \in Us /\ e = <<e[1], v>>
    BY <1>2 DEF EdgesFrom, OtherEnds
  <2> QED BY <2>1, <2>2
<1>4. g \in [Us -> Out] /\ (\A a, b \in Us : g[a] = g[b] => a = b) /\ \A e \in Out : \E u \in Us : g[u] = e
  <2>1. \A u \in Us : <<v, u>> \in Out
    BY DEF OtherEnds, EdgesTo
  <2>2. \A e \in Out : e[2] \in Us /\ e = <<v, e[2]>>
    BY <1>2 DEF EdgesTo, OtherEnds
  <2> QED BY <2>1, <2>2
<1> HIDE DEF Us, In, Out, f, g
<1>5. f \in Bijection(Us, In) /\ g \in Bijection(Us, Out)
  BY <1>3, <1>4, Fun_IsBij
<1>6. Cardinality(In) = Cardinality(Us) /\ Cardinality(Out) = Cardinality(Us)
  BY <1>1, <1>5, FS_Bijection DEF ExistsBijection
<1> QED BY <1>6 DEF Us, In, Out

\* A vertex has fewer neighbours in a set than there are vertices.
LEMMA NbrsCounted ==
  ASSUME KC!InputsOK, KCType, NEW v, NEW S \in SUBSET CoreVerts
  PROVE  /\ IsFiniteSet(Nbrs(v, S)) /\ Cardinality(Nbrs(v, S)) \in Nat
         /\ v \in CoreVerts => Cardinality(Nbrs(v, S)) < KC!nv
<1>1. IsFiniteSet(CoreVerts) /\ KC!nv = Cardinality(CoreVerts) /\ KC!nv \in Nat
  BY KCoreInputs DEF KCType
<1>2. IsFiniteSet(Nbrs(v, S)) /\ Cardinality(Nbrs(v, S)) \in Nat
  <2>1. Nbrs(v, S) \in SUBSET CoreVerts
    BY DEF Nbrs
  <2> QED BY <1>1, <2>1, FS_Subset, FS_CardinalityType
<1>3. ASSUME v \in CoreVerts PROVE Cardinality(Nbrs(v, S)) < KC!nv
  <2>1. Nbrs(v, S) \in SUBSET (CoreVerts \ {v})
    <3>1. <<v, v>> \notin GA
      BY <1>3, KCoreInputs DEF KCType
    <3> QED BY <3>1 DEF Nbrs
  <2>2. IsFiniteSet(CoreVerts \ {v}) /\ Cardinality(CoreVerts \ {v}) = KC!nv - 1
    BY <1>1, <1>3, FS_RemoveElement
  <2>3. Cardinality(Nbrs(v, S)) <= KC!nv - 1
    BY <2>1, <2>2, FS_Subset
  <2> QED BY <1>1, <1>2, <2>3
<1> QED BY <1>2, <1>3

\* What makes a set a core, in those terms.
LEMMA InCoreIs ==
  ASSUME KC!InputsOK, KCType, NEW j, NEW S \in SUBSET CoreVerts
  PROVE  KC!InCore(j, S) <=> \A v \in S : Cardinality(Nbrs(v, S)) >= j
<1>1. \A X : KC!Cardinality(X) = Cardinality(X)
  BY KCoreInputs DEF KCType
<1> QED BY <1>1 DEF KC!InCore, Nbrs

\* The decrements still to come are finitely many, and the neighbours in a set are those
\* in a part of it and in the rest.
LEMMA KCFacts ==
  ASSUME KC!InputsOK, KCType
  PROVE  /\ \A v : IsFiniteSet(Pending(v)) /\ Cardinality(Pending(v)) \in Nat
         /\ \A v : \A S, U \in SUBSET CoreVerts :
              S \subseteq U => Cardinality(Nbrs(v, U)) = Cardinality(Nbrs(v, S)) + Cardinality(Nbrs(v, U \ S))
         /\ todo \cup DOMAIN regs \subseteq GA /\ GA \in KCGraphs
<1>1. IsFiniteSet(GA)
  BY KCoreInputs DEF KCType
<1>2. ASSUME NEW v PROVE IsFiniteSet(Pending(v)) /\ Cardinality(Pending(v)) \in Nat
  <2>1. Pending(v) \in SUBSET GA
    BY DEF Pending, KCType
  <2> QED BY <1>1, <2>1, FS_Subset, FS_CardinalityType
<1>3. ASSUME NEW v, NEW S \in SUBSET CoreVerts, NEW U \in SUBSET CoreVerts, S \subseteq U
      PROVE  Cardinality(Nbrs(v, U)) = Cardinality(Nbrs(v, S)) + Cardinality(Nbrs(v, U \ S))
  <2>1. Nbrs(v, U) = Nbrs(v, S) \cup Nbrs(v, U \ S) /\ Nbrs(v, S) \cap Nbrs(v, U \ S) = {}
    BY <1>3 DEF Nbrs
  <2>2. /\ IsFiniteSet(Nbrs(v, S)) /\ IsFiniteSet(Nbrs(v, U \ S))
        /\ Cardinality(Nbrs(v, S)) \in Nat /\ Cardinality(Nbrs(v, U \ S)) \in Nat
    <3>1. U \ S \in SUBSET CoreVerts
      OBVIOUS
    <3> QED BY <3>1, NbrsCounted
  <2>3. Cardinality(Nbrs(v, S) \cup Nbrs(v, U \ S))
          = Cardinality(Nbrs(v, S)) + Cardinality(Nbrs(v, U \ S)) - Cardinality(Nbrs(v, S) \cap Nbrs(v, U \ S))
    BY <2>2, FS_Union
  <2>4. Cardinality(Nbrs(v, S) \cap Nbrs(v, U \ S)) = 0
    BY <2>1, FS_EmptySet
  <2> QED BY <2>1, <2>2, <2>3, <2>4
<1> QED BY <1>2, <1>3 DEF KCType

\* The numbers of neighbours that a set has everywhere.
LEMMA CoresNest ==
  ASSUME KC!InputsOK, KCType, NEW i \in Int, NEW j \in Int, i <= j, NEW S \in SUBSET CoreVerts, KC!InCore(j, S)
  PROVE  KC!InCore(i, S)
<1>1. \A v \in S : Cardinality(Nbrs(v, S)) \in Nat
  BY NbrsCounted
<1>2. \A v \in S : Cardinality(Nbrs(v, S)) >= i
  BY <1>1, InCoreIs
<1> QED BY <1>2, InCoreIs

\* A number with a core of its own and none one higher is the core number.
LEMMA CoreNumberIs ==
  ASSUME KC!InputsOK, KCType, NEW v, NEW j \in 0 .. KC!nv, HasCore(v, j)
  PROVE  KC!CoreNumber(v) = j
<1>1. KC!nv \in Nat
  BY KCoreInputs
<1>2. ASSUME NEW i \in 0 .. KC!nv, HasCore(v, i), NEW h \in 0 .. KC!nv, HasCore(v, h), i < h PROVE FALSE
  <2>1. PICK S \in SUBSET CoreVerts : v \in S /\ KC!InCore(h, S)
    BY <1>2 DEF HasCore
  <2>2. i + 1 \in Int /\ h \in Int /\ i + 1 <= h
    BY <1>1, <1>2
  <2>3. KC!InCore(i + 1, S)
    BY <2>1, <2>2, CoresNest
  <2> QED BY <1>2, <2>1, <2>3 DEF HasCore
<1>3. \A i \in 0 .. KC!nv : HasCore(v, i) => i = j
  <2> SUFFICES ASSUME NEW i \in 0 .. KC!nv, HasCore(v, i), i # j PROVE FALSE
    OBVIOUS
  <2>1. i < j \/ j < i
    BY <1>1
  <2> QED BY <1>2, <2>1
<1> QED BY <1>3 DEF KC!CoreNumber, HasCore

\* In the filters the degrees are numbers of neighbours, so as unsigned words they are
\* what they are.
LEMMA FilterFacts ==
  ASSUME KC!InputsOK, KCType, Counted, stage = "filter"
  PROVE  /\ \A v \in Frontier : Degrees[v] = Cardinality(Nbrs(v, Frontier))
         /\ \A v \in Frontier : KC!Unsigned(Degrees[v]) = Degrees[v]
         /\ KC!Unsigned(0) = 0 /\ Frontier \in SUBSET CoreVerts
         /\ KC!ToRemove = {v \in Frontier : Cardinality(Nbrs(v, Frontier)) < coreK}
<1>1. Frontier \in SUBSET CoreVerts /\ KC!nv \in Nat /\ UintRange \in Nat /\ KC!nv < UintRange
  BY KCoreInputs DEF KCType
<1>2. ASSUME NEW v \in Frontier PROVE Degrees[v] = Cardinality(Nbrs(v, Frontier))
  <2>1. Cardinality(Pending(v)) = 0
    <3>1. Pending(v) = {}
      BY DEF Pending, KCType
    <3> QED BY <3>1, FS_EmptySet
  <2>2. Cardinality(Nbrs(v, Frontier)) \in Nat
    BY <1>1, NbrsCounted
  <2> QED BY <2>1, <2>2 DEF Counted
<1>3. ASSUME NEW x \in Nat, x < UintRange PROVE KC!Unsigned(x) = x
  <2>1. UintRange \in Int /\ UintRange > 0 /\ x \in Int /\ x >= 0 /\ x < UintRange
    BY <1>1, <1>3
  <2>2. x % UintRange = x
    BY <2>1, Z3
  <2> QED BY <2>2 DEF KC!Unsigned
<1>4. \A v \in Frontier : KC!Unsigned(Degrees[v]) = Degrees[v]
  <2> TAKE v \in Frontier
  <2>1. Cardinality(Nbrs(v, Frontier)) \in Nat /\ Cardinality(Nbrs(v, Frontier)) < KC!nv
    BY <1>1, NbrsCounted
  <2> QED BY <1>1, <1>2, <1>3, <2>1
<1>5. KC!Unsigned(0) = 0
  BY <1>1, <1>3
<1> QED BY <1>1, <1>2, <1>4, <1>5 DEF KC!ToRemove

\* Steps that leave the frontier and the core numbers alone.
LEMMA KCQuiet ==
  ASSUME KCInv, KCType', Counted', GA' = GA, Frontier' = Frontier, coreK' = coreK, coreNumbers' = coreNumbers,
         largestCore' = largestCore, stage' = "done" <=> stage = "done"
  PROVE  KCInv'
<1>1. \A j : \A S \in SUBSET CoreVerts : KC!InCore(j, S)' <=> KC!InCore(j, S)
  BY DEF KC!InCore
<1>2. \A v, j : HasCore(v, j)' <=> HasCore(v, j)
  BY <1>1 DEF HasCore
<1>3. \A v : HasCore(v, coreNumbers[v])' <=> HasCore(v, coreNumbers[v])
  BY <1>1 DEF HasCore
<1>4. \A C : Begun(C)' <=> Begun(C)
  BY <1>1 DEF Begun
<1>5. Peeled'
  BY <1>1, <1>3, <1>4 DEF KCInv, Peeled
<1>6. Finished'
  BY <1>3 DEF KCInv, Finished, KC!nv
<1> QED BY <1>5, <1>6 DEF KCInv

\* With all vertices in, each has its degree and the whole graph is a 0-core.
LEMMA InitKCInv == KC!InputsOK /\ KC!Init => KCInv
<1> SUFFICES ASSUME KC!InputsOK, KC!Init PROVE KCInv
  OBVIOUS
<1>1. /\ GA \in KCGraphs /\ stage = "filter" /\ todo = {} /\ DOMAIN regs = {} /\ Frontier = CoreVerts /\ coreK = 1
      /\ Degrees = [v \in CoreVerts |-> KC!Cardinality(KC!OutOf({v}))] /\ coreNumbers = [v \in CoreVerts |-> 0]
  BY DEF KC!Init, KC!NoCall
<1>2. \A v \in CoreVerts : KC!Cardinality(KC!OutOf({v})) = Cardinality(Nbrs(v, CoreVerts))
  <2> TAKE v \in CoreVerts
  <2>1. KC!OutOf({v}) = EdgesTo(GA, v, CoreVerts)
    BY <1>1, KCoreInputs DEF KC!OutOf, EdgesTo
  <2>2. Cardinality(EdgesTo(GA, v, CoreVerts)) = Cardinality(OtherEnds(GA, v, CoreVerts))
    <3>1. TwoWay(GA) /\ IsFiniteSet(CoreVerts)
      BY <1>1, KCoreInputs DEF TwoWay
    <3> QED BY <3>1, EdgesByEnds
  <2> QED BY <2>1, <2>2, KCoreInputs DEF Nbrs, OtherEnds
<1>3. \A v \in CoreVerts : Cardinality(Nbrs(v, CoreVerts)) \in Nat
  <2> TAKE v \in CoreVerts
  <2>1. IsFiniteSet(Nbrs(v, CoreVerts))
    BY KCoreInputs, FS_Subset DEF Nbrs
  <2> QED BY <2>1, FS_CardinalityType
<1>4. KCType
  BY <1>1, <1>2, <1>3, KCoreInputs DEF KCType
<1>5. Counted
  <2>1. \A v : Cardinality(Pending(v)) = 0
    <3>1. \A v : Pending(v) = {}
      BY <1>1 DEF Pending
    <3> QED BY <3>1, FS_EmptySet
  <2> QED BY <1>1, <1>2, <1>3, <2>1 DEF Counted
<1>6. Peeled
  <2>1. KC!InCore(coreK - 1, CoreVerts)
    BY <1>1, <1>3, <1>4, NbrsCounted, InCoreIs
  <2>2. Begun(CoreVerts)
    BY <1>1, <2>1, KCoreInputs DEF Begun
  <2> QED BY <1>1, <2>2 DEF Peeled
<1> QED BY <1>1, <1>4, <1>5, <1>6 DEF KCInv, Finished

\* What is taken out is in no set in which every vertex has k neighbours.
LEMMA RemoveKeepsKCInv ==
  ASSUME KC!InputsOK, KCInv, KC!Remove
  PROVE  KCInv'
<1> DEFINE R == KC!ToRemove
<1>1. /\ stage = "filter" /\ stage' = "map" /\ GA' = GA /\ coreK' = coreK /\ largestCore' = largestCore
      /\ todo' = KC!OutOf(R) /\ regs' = <<>> /\ DOMAIN regs' = {}
      /\ coreNumbers' = [v \in CoreVerts |-> IF v \in R THEN coreK - 1 ELSE coreNumbers[v]]
      /\ Degrees' = [v \in CoreVerts |-> IF v \in R THEN 0 ELSE Degrees[v]]
      /\ Frontier' = {v \in Frontier : KC!Unsigned(Degrees'[v]) >= coreK}
  BY DEF KC!Remove, KC!Begin
<1>2. /\ KCType /\ Counted /\ Peeled /\ coreK \in 1 .. KC!nv /\ KC!nv \in Nat
  BY KCoreInputs DEF KCInv, KCType
<1>3. /\ \A v \in Frontier : Degrees[v] = Cardinality(Nbrs(v, Frontier)) /\ KC!Unsigned(Degrees[v]) = Degrees[v]
      /\ KC!Unsigned(0) = 0 /\ Frontier \in SUBSET CoreVerts
      /\ R = {v \in Frontier : Cardinality(Nbrs(v, Frontier)) < coreK}
      /\ \A v \in CoreVerts : Cardinality(Nbrs(v, Frontier)) \in Nat
  <2>1. Frontier \in SUBSET CoreVerts
    BY <1>2 DEF KCType
  <2> QED BY <1>1, <1>2, <2>1, FilterFacts, NbrsCounted
<1> HIDE DEF R
<1>4. Frontier' = Frontier \ R /\ R \subseteq Frontier /\ R \in SUBSET CoreVerts
  <2>1. \A v \in Frontier : KC!Unsigned(Degrees'[v]) >= coreK <=> v \notin R
    <3> TAKE v \in Frontier
    <3>1. v \in CoreVerts /\ Degrees'[v] = IF v \in R THEN 0 ELSE Degrees[v]
      BY <1>1, <1>3
    <3> QED BY <1>2, <1>3, <3>1
  <2> QED BY <1>1, <1>3, <2>1
<1>5. KCType'
  BY <1>1, <1>2, <1>4 DEF KCType, KC!OutOf
<1>6. Counted'
  <2>1. ASSUME NEW v \in Frontier'
        PROVE  Degrees'[v] = Cardinality(Nbrs(v, Frontier')) + Cardinality({e \in KC!OutOf(R) : e[2] = v})
    <3>1. v \in CoreVerts /\ v \notin R /\ Degrees'[v] = Cardinality(Nbrs(v, Frontier))
      BY <1>1, <1>3, <1>4
    <3>2. Cardinality(Nbrs(v, Frontier)) = Cardinality(Nbrs(v, Frontier')) + Cardinality(Nbrs(v, R))
      <4>1. Frontier \ Frontier' = R /\ Frontier' \subseteq Frontier /\ Frontier' \in SUBSET CoreVerts
        BY <1>3, <1>4
      <4> QED BY <1>2, <1>3, <4>1, KCFacts
    <3>3. {e \in KC!OutOf(R) : e[2] = v} = EdgesFrom(GA, R, v)
      BY DEF KC!OutOf, EdgesFrom
    <3>4. Cardinality(EdgesFrom(GA, R, v)) = Cardinality(OtherEnds(GA, v, R))
      <4>1. TwoWay(GA) /\ IsFiniteSet(R)
        BY <1>2, <1>4, KCoreInputs, FS_Subset DEF KCType, TwoWay
      <4> QED BY <4>1, EdgesByEnds
    <3> QED BY <3>1, <3>2, <3>3, <3>4 DEF Nbrs, OtherEnds
  <2>2. \A v : \A S : Nbrs(v, S)' = Nbrs(v, S') /\ Pending(v)' = {e \in KC!OutOf(R) : e[2] = v}
    BY <1>1 DEF Nbrs, Pending
  <2>3. \A v \in Frontier' : Degrees'[v] = Cardinality(Nbrs(v, Frontier)') + Cardinality(Pending(v)')
    BY <1>1, <2>1 DEF Nbrs, Pending
  <2>4. \A v \in CoreVerts \ Frontier' : Degrees'[v] = 0
    BY <1>1, <1>2, <1>4 DEF Counted
  <2> QED BY <1>1, <2>3, <2>4 DEF Counted
<1>7. \A j : \A S \in SUBSET CoreVerts : KC!InCore(j, S)' <=> KC!InCore(j, S)
  BY <1>1 DEF KC!InCore
<1>8. ASSUME NEW S \in SUBSET CoreVerts, KC!InCore(coreK, S) PROVE S \subseteq Frontier'
  <2> SUFFICES ASSUME NEW v \in S, v \in R PROVE FALSE
    BY <1>1, <1>2, <1>4, <1>8 DEF Peeled
  <2>1. S \subseteq Frontier
    BY <1>1, <1>2, <1>8 DEF Peeled
  <2>2. Cardinality(Nbrs(v, S)) >= coreK
    BY <1>2, <1>8, InCoreIs
  <2>3. Cardinality(Nbrs(v, S)) <= Cardinality(Nbrs(v, Frontier))
    <3>1. Cardinality(Nbrs(v, Frontier)) = Cardinality(Nbrs(v, S)) + Cardinality(Nbrs(v, Frontier \ S))
      BY <1>2, <1>3, <2>1, KCFacts
    <3>2. Frontier \ S \in SUBSET CoreVerts
      BY <1>3
    <3>3. Cardinality(Nbrs(v, S)) \in Nat /\ Cardinality(Nbrs(v, Frontier \ S)) \in Nat
      BY <1>2, <3>2, NbrsCounted
    <3> QED BY <3>1, <3>3
  <2>4. Cardinality(Nbrs(v, Frontier)) < coreK /\ v \in CoreVerts
    BY <1>3
  <2>5. Cardinality(Nbrs(v, S)) \in Nat
    BY <1>2, NbrsCounted
  <2> QED BY <1>2, <1>3, <2>2, <2>3, <2>4, <2>5
<1>9. PICK C : Begun(C)
  BY <1>1, <1>2 DEF Peeled
<1>10. Begun(C)'
  BY <1>1, <1>3, <1>4, <1>7, <1>9 DEF Begun
<1>11. ASSUME NEW v \in CoreVerts \ Frontier' PROVE HasCore(v, coreNumbers'[v]) /\ coreNumbers'[v] <= coreK - 1
  <2>1. CASE v \in R
    <3>1. coreNumbers'[v] = coreK - 1 /\ v \in C /\ C \in SUBSET CoreVerts /\ KC!InCore(coreK - 1, C) /\ (coreK - 1) + 1 = coreK
      BY <1>1, <1>2, <1>4, <1>9, <2>1 DEF Begun
    <3>2. ~ \E S \in SUBSET CoreVerts : v \in S /\ KC!InCore(coreK, S)
      BY <1>4, <1>8, <2>1
    <3> QED BY <1>2, <3>1, <3>2 DEF HasCore
  <2>2. CASE v \notin R
    BY <1>1, <1>2, <1>4, <2>2 DEF Peeled
  <2> QED BY <2>1, <2>2
<1>12. \A v \in CoreVerts \ Frontier' : HasCore(v, coreNumbers[v])' /\ coreNumbers'[v] <= coreK - 1
  BY <1>7, <1>11 DEF HasCore
<1>13. Peeled'
  BY <1>1, <1>7, <1>8, <1>10, <1>12 DEF Peeled
<1> QED BY <1>1, <1>5, <1>6, <1>13 DEF KCInv, Finished

\* cond passes over none of the vertices that are still in.
LEMMA TestKeepsKCInv ==
  ASSUME KC!InputsOK, KCInv, NEW e \in todo, KC!Test(e)
  PROVE  KCInv'
<1>1. /\ stage = "map" /\ stage' = stage /\ GA' = GA /\ Frontier' = Frontier
      /\ coreK' = coreK /\ Degrees' = Degrees /\ coreNumbers' = coreNumbers /\ largestCore' = largestCore
      /\ todo' = todo \ {e}
      /\ DOMAIN regs' = IF Degrees[e[2]] > 0 THEN DOMAIN regs \cup {e} ELSE DOMAIN regs
  BY DEF KC!Test, KC!Enter, KC!Pass, KC!mainVars, KC!coreVars, KCInv, KCType
<1>2. KCType /\ Counted /\ e \in GA /\ e[2] \in CoreVerts
  BY KCoreInputs DEF KCInv, KCType
<1>3. KCType'
  BY <1>1, <1>2 DEF KCType
<1>4. e[2] \in Frontier <=> Degrees[e[2]] > 0
  <2>1. CASE e[2] \in Frontier
    <3>1. Cardinality(Pending(e[2])) # 0 /\ Cardinality(Pending(e[2])) \in Nat
      <4>1. e \in Pending(e[2])
        BY DEF Pending
      <4> QED BY <1>2, <4>1, KCFacts, FS_EmptySet
    <3>2. Cardinality(Nbrs(e[2], Frontier)) \in Nat
      <4>1. Frontier \in SUBSET CoreVerts
        BY <1>2 DEF KCType
      <4> QED BY <1>2, <4>1, NbrsCounted
    <3> QED BY <1>1, <1>2, <2>1, <3>1, <3>2 DEF Counted
  <2>2. CASE e[2] \notin Frontier
    BY <1>1, <1>2, <2>2 DEF Counted
  <2> QED BY <2>1, <2>2
<1>5. \A v \in Frontier : Pending(v)' = Pending(v) /\ Nbrs(v, Frontier)' = Nbrs(v, Frontier)
  BY <1>1, <1>4 DEF Pending, Nbrs
<1>6. Counted'
  BY <1>1, <1>2, <1>4, <1>5 DEF Counted
<1> QED BY <1>1, <1>3, <1>6, KCQuiet

\* Each decrement is one that the count expects.
LEMMA LowerKeepsKCInv ==
  ASSUME KC!InputsOK, KCInv, NEW e \in DOMAIN regs, KC!Lower(e)
  PROVE  KCInv'
<1>1. /\ stage = "map" /\ stage' = stage /\ GA' = GA /\ Frontier' = Frontier
      /\ coreK' = coreK /\ coreNumbers' = coreNumbers /\ largestCore' = largestCore
      /\ Degrees' = [Degrees EXCEPT ![e[2]] = @ - 1]
      /\ todo' = todo /\ DOMAIN regs' = DOMAIN regs \ {e}
  BY DEF KC!Lower, KC!Answer, KC!mainVars, KCInv, KCType
<1>2. KCType /\ Counted /\ e \in GA /\ e[2] \in CoreVerts /\ e[2] \in Frontier /\ e \notin todo
  BY <1>1, KCoreInputs DEF KCInv, KCType, Counted
<1>3. KCType'
  BY <1>1, <1>2 DEF KCType
<1>4. \A v : Nbrs(v, Frontier)' = Nbrs(v, Frontier) /\ Pending(v)' = Pending(v) \ {e}
  BY <1>1, <1>2 DEF Pending, Nbrs
<1>5. Degrees'[e[2]] = Cardinality(Nbrs(e[2], Frontier)) + Cardinality(Pending(e[2])')
  <2>1. e \in Pending(e[2])
    BY DEF Pending
  <2>2. IsFiniteSet(Pending(e[2])) /\ Cardinality(Pending(e[2])) \in Nat
    BY <1>2, KCFacts
  <2>3. Cardinality(Pending(e[2]) \ {e}) = Cardinality(Pending(e[2])) - 1
    BY <2>1, <2>2, FS_RemoveElement
  <2>4. Cardinality(Nbrs(e[2], Frontier)) \in Nat
    <3>1. Frontier \in SUBSET CoreVerts
      BY <1>2 DEF KCType
    <3> QED BY <1>2, <3>1, NbrsCounted
  <2>5. Degrees'[e[2]] = Degrees[e[2]] - 1
    BY <1>1, <1>2 DEF KCType
  <2>6. Degrees[e[2]] = Cardinality(Nbrs(e[2], Frontier)) + Cardinality(Pending(e[2]))
    BY <1>1, <1>2 DEF Counted
  <2>7. Cardinality(Pending(e[2])') = Cardinality(Pending(e[2])) - 1
    BY <1>4, <2>3
  <2> QED BY <2>2, <2>4, <2>5, <2>6, <2>7
<1>6. \A v \in CoreVerts : v # e[2] => Degrees'[v] = Degrees[v] /\ Pending(v)' = Pending(v)
  BY <1>1, <1>2, <1>4 DEF KCType, Pending
<1>7. Counted'
  <2>1. \A v \in Frontier : Degrees'[v] = Cardinality(Nbrs(v, Frontier)') + Cardinality(Pending(v)')
    <3> TAKE v \in Frontier
    <3>1. CASE v = e[2]
      BY <1>4, <1>5, <3>1
    <3>2. CASE v # e[2]
      <4>1. v \in CoreVerts
        BY <1>2 DEF KCType
      <4> QED BY <1>1, <1>2, <1>4, <1>6, <3>2, <4>1 DEF Counted
    <3> QED BY <3>1, <3>2
  <2>2. \A v \in CoreVerts \ Frontier : Degrees'[v] = 0
    BY <1>1, <1>2, <1>6 DEF Counted
  <2>3. \A x \in DOMAIN regs' : x[2] \in Frontier
    BY <1>1, <1>2 DEF Counted
  <2> QED BY <1>1, <2>1, <2>2, <2>3 DEF Counted
<1> QED BY <1>1, <1>3, <1>7, KCQuiet

\* After the call no decrement is to come: degrees are the induced ones.
LEMMA ReturnKeepsKCInv ==
  ASSUME KC!InputsOK, KCInv, KC!Return
  PROVE  KCInv'
<1>1. /\ stage = "map" /\ stage' = "filter" /\ GA' = GA /\ Frontier' = Frontier
      /\ coreK' = coreK /\ coreNumbers' = coreNumbers /\ largestCore' = largestCore /\ Degrees' = Degrees
      /\ todo' = todo /\ regs' = regs /\ todo = {} /\ DOMAIN regs = {}
  BY DEF KC!Return, KC!Returned, KC!callVars, KC!coreVars
<1>2. KCType'
  BY <1>1 DEF KCInv, KCType
<1>3. Counted'
  <2>1. \A v : Nbrs(v, Frontier)' = Nbrs(v, Frontier) /\ Pending(v)' = Pending(v)
    BY <1>1 DEF Pending, Nbrs
  <2> QED BY <1>1, <2>1 DEF KCInv, Counted
<1> QED BY <1>1, <1>2, <1>3, KCQuiet

\* A set that lost nothing in round k has k neighbours everywhere.
LEMMA NothingToRemove ==
  ASSUME KC!InputsOK, KCInv, stage = "filter", KC!ToRemove = {}
  PROVE  KC!InCore(coreK, Frontier) /\ (Frontier # {} => coreK # KC!nv)
<1>1. KCType /\ Counted /\ coreK \in Int /\ Frontier \in SUBSET CoreVerts
  BY DEF KCInv, KCType
<1>2. \A v \in Frontier : /\ Cardinality(Nbrs(v, Frontier)) >= coreK
                          /\ Cardinality(Nbrs(v, Frontier)) \in Nat /\ Cardinality(Nbrs(v, Frontier)) < KC!nv
  <2> TAKE v \in Frontier
  <2>1. Cardinality(Nbrs(v, Frontier)) \in Nat /\ Cardinality(Nbrs(v, Frontier)) < KC!nv
    BY <1>1, NbrsCounted
  <2>2. ~(Cardinality(Nbrs(v, Frontier)) < coreK)
    BY <1>1, FilterFacts
  <2> QED BY <1>1, <2>1, <2>2
<1>3. KC!InCore(coreK, Frontier)
  BY <1>1, <1>2, InCoreIs
<1>4. Frontier # {} => coreK # KC!nv
  BY <1>1, <1>2, KCoreInputs
<1> QED BY <1>3, <1>4

\* With nothing to remove the frontier is the k-core itself, and round k + 1 begins with it.
LEMMA NextKKeepsKCInv ==
  ASSUME KC!InputsOK, KCInv, KC!NextK
  PROVE  KCInv'
<1>1. KC!InCore(coreK, Frontier) /\ coreK # KC!nv
  BY NothingToRemove DEF KC!NextK
<1>2. /\ stage = "filter" /\ stage' = stage /\ coreK' = coreK + 1 /\ Frontier # {} /\ GA' = GA /\ Frontier' = Frontier
      /\ coreNumbers' = coreNumbers /\ largestCore' = largestCore /\ Degrees' = Degrees
      /\ todo' = todo /\ regs' = regs
  BY <1>1 DEF KC!NextK, KC!callVars
<1>3. KCType /\ Counted /\ Peeled /\ KC!nv \in Nat /\ coreK \in 1 .. KC!nv /\ Frontier \in SUBSET CoreVerts
      /\ coreNumbers \in [CoreVerts -> Nat]
  BY KCoreInputs DEF KCInv, KCType
<1>4. KCType'
  BY <1>1, <1>2, <1>3 DEF KCType
<1>5. Counted'
  <2>1. \A v : Nbrs(v, Frontier)' = Nbrs(v, Frontier) /\ Pending(v)' = Pending(v)
    BY <1>2 DEF Pending, Nbrs
  <2> QED BY <1>2, <1>3, <2>1 DEF Counted
<1>6. \A j : \A S \in SUBSET CoreVerts : KC!InCore(j, S)' <=> KC!InCore(j, S)
  BY <1>2 DEF KC!InCore
<1>7. \A S \in SUBSET CoreVerts : KC!InCore(coreK + 1, S) => S \subseteq Frontier
  <2>1. \A S \in SUBSET CoreVerts : KC!InCore(coreK + 1, S) => KC!InCore(coreK, S)
    BY <1>3, CoresNest
  <2> QED BY <1>2, <1>3, <2>1 DEF Peeled
<1>8. Begun(Frontier)'
  <2>1. coreK' - 1 = coreK
    BY <1>2, <1>3
  <2> QED BY <1>1, <1>2, <1>3, <1>6, <2>1 DEF Begun
<1>9. \A v \in CoreVerts \ Frontier : HasCore(v, coreNumbers[v])' /\ coreNumbers[v] <= coreK
  <2>1. \A v \in CoreVerts \ Frontier : HasCore(v, coreNumbers[v]) /\ coreNumbers[v] <= coreK - 1 /\ coreNumbers[v] \in Nat
    BY <1>2, <1>3 DEF Peeled
  <2>2. \A v \in CoreVerts \ Frontier : HasCore(v, coreNumbers[v])'
    BY <1>2, <1>6, <2>1 DEF HasCore
  <2>3. \A v \in CoreVerts \ Frontier : coreNumbers[v] <= coreK
    BY <1>3, <2>1
  <2> QED BY <2>2, <2>3
<1>10. Peeled'
  <2>1. \A v \in CoreVerts \ Frontier' : coreNumbers'[v] <= coreK' - 1
    BY <1>2, <1>3, <1>9
  <2> QED BY <1>2, <1>6, <1>7, <1>8, <1>9, <2>1 DEF Peeled
<1> QED BY <1>2, <1>4, <1>5, <1>10 DEF KCInv, Finished

\* With an empty frontier the set of the last round was the largest core.
LEMMA LargestKeepsKCInv ==
  ASSUME KC!InputsOK, KCInv, KC!Largest
  PROVE  KCInv'
<1>1. /\ stage = "filter" /\ stage' = "done" /\ largestCore' = coreK - 1 /\ Frontier = {} /\ GA' = GA
      /\ coreK' = coreK /\ Frontier' = Frontier /\ coreNumbers' = coreNumbers /\ Degrees' = Degrees
      /\ todo' = todo /\ regs' = regs
  BY DEF KC!Largest, KC!callVars
<1>2. KCType /\ Peeled /\ KC!nv \in Nat /\ coreK \in 1 .. KC!nv /\ \A v \in CoreVerts : coreNumbers[v] \in Nat
  BY KCoreInputs DEF KCInv, KCType
<1>3. KCType'
  BY <1>1, <1>2 DEF KCType
<1>4. \A j : \A S \in SUBSET CoreVerts : KC!InCore(j, S)' <=> KC!InCore(j, S)
  BY <1>1 DEF KC!InCore
<1>5. \A v \in CoreVerts : HasCore(v, coreNumbers[v])'
  BY <1>1, <1>2, <1>4 DEF Peeled, HasCore
<1>6. \A v \in CoreVerts : coreNumbers[v] <= coreK - 1 /\ coreNumbers[v] <= KC!nv
  BY <1>1, <1>2 DEF Peeled
<1>7. \E v \in CoreVerts : coreNumbers[v] = coreK - 1
  BY <1>1, <1>2 DEF Peeled, Begun
<1>8. KC!nv' = KC!nv
  BY DEF KC!nv
<1> QED BY <1>1, <1>3, <1>5, <1>6, <1>7, <1>8 DEF KCInv, Counted, Peeled, Finished

\* So every step keeps it.
LEMMA KCInvKept == KC!InputsOK /\ KCInv /\ [KC!Next]_(KC!vars) => KCInv'
<1> SUFFICES ASSUME KC!InputsOK, KCInv, [KC!Next]_(KC!vars) PROVE KCInv'
  OBVIOUS
<1>1. CASE UNCHANGED KC!vars
  <2>1. /\ stage' = stage /\ GA' = GA /\ Frontier' = Frontier
        /\ coreK' = coreK /\ coreNumbers' = coreNumbers /\ largestCore' = largestCore /\ Degrees' = Degrees
        /\ todo' = todo /\ regs' = regs
    BY <1>1 DEF KC!vars, KC!mainVars, KC!callVars, KC!coreVars
  <2>2. KCType'
    BY <2>1 DEF KCInv, KCType
  <2>3. Counted'
    <3>1. \A v : Nbrs(v, Frontier)' = Nbrs(v, Frontier) /\ Pending(v)' = Pending(v)
      BY <2>1 DEF Pending, Nbrs
    <3> QED BY <2>1, <3>1 DEF KCInv, Counted
  <2> QED BY <2>1, <2>2, <2>3, KCQuiet
<1>2. CASE \E e \in todo : KC!Test(e)
  BY <1>2, TestKeepsKCInv
<1>3. CASE \E e \in DOMAIN regs : KC!Lower(e)
  BY <1>3, LowerKeepsKCInv
<1> QED BY <1>1, <1>2, <1>3, RemoveKeepsKCInv, ReturnKeepsKCInv, NextKKeepsKCInv, LargestKeepsKCInv DEF KC!Next

\* Between two calls a vertex still in has the degree it has among those still in, and
\* the degrees of a call, read while they are lowered, lose and invent no decrement: for
\* every symmetric graph.
THEOREM DegreesAreAlwaysInduced == ASSUME KC!InputsOK PROVE KC!Spec => []KC!DegreesAreInduced
<1>1. KCInv => KC!DegreesAreInduced
  <2> SUFFICES ASSUME KCInv, stage = "filter", NEW v \in Frontier
               PROVE  Degrees[v] = KC!Cardinality(Nbrs(v, Frontier))
    BY DEF KC!DegreesAreInduced, Nbrs
  <2> QED BY FilterFacts, KCoreInputs DEF KCInv
<1> QED BY <1>1, InitKCInv, KCInvKept, PTL DEF KC!Spec

\* KCore ends with every vertex's core number and the largest of them: for every
\* symmetric graph without loops.
THEOREM CoresAreAlwaysRight == ASSUME KC!InputsOK PROVE KC!Spec => []KC!CoresAreRight
<1>1. KCInv => KC!CoresAreRight
  <2> SUFFICES ASSUME KCInv, stage = "done" PROVE KC!CoresAreRight
    BY DEF KC!CoresAreRight, KC!Done
  <2>1. \A v \in CoreVerts : HasCore(v, coreNumbers[v]) /\ coreNumbers[v] \in 0 .. KC!nv
    BY KCoreInputs DEF KCInv, KCType, Finished
  <2>2. \A v \in CoreVerts : KC!CoreNumber(v) = coreNumbers[v]
    BY <2>1, CoreNumberIs DEF KCInv
  <2> QED BY <2>2 DEF KC!CoresAreRight, KCInv, Finished
<1> QED BY <1>1, InitKCInv, KCInvKept, PTL DEF KC!Spec

-----------------------------------------------------------------------------
(* The bucketed k-core, for every symmetric graph.  RoundK is k of the last*)
(* round.  A vertex that waits has as its key the number of its neighbours *)
(* that wait, held at RoundK; what waits holds every (RoundK + 1)-core and *)
(* lies in a RoundK-core, so that a vertex has its core number when it is  *)
(* taken (BKPeeled, BKDegrees).                                            *)

RoundK == IF taken.id = UintMax THEN 0 ELSE taken.id
NbrsIn(v, S) == Cardinality(Nbrs(v, S))

BKType == /\ GA \in BKGraphs /\ stage \in {"loop", "apply"} /\ filed \subseteq CoreVerts
          /\ Deg \in [CoreVerts -> Nat] /\ \A v \in CoreVerts : Deg[v] <= BK!nv
          /\ taken.id = UintMax \/ taken.id \in 0 .. BK!nv
          /\ finished = Cardinality(CoreVerts \ filed)

BKPeeled == /\ \A S \in SUBSET CoreVerts : KC!InCore(RoundK + 1, S) => S \subseteq filed
            /\ \E C \in SUBSET CoreVerts : filed \subseteq C /\ KC!InCore(RoundK, C)
            /\ \A v \in CoreVerts \ filed : HasCore(v, Deg[v]) /\ Deg[v] <= RoundK

BKDegrees ==
  /\ stage = "loop" => \A v \in filed : Deg[v] = IF NbrsIn(v, filed) > RoundK THEN NbrsIn(v, filed) ELSE RoundK
  /\ stage = "apply" => /\ taken.id # UintMax /\ BK!active \cap filed = {} /\ BK!active \subseteq CoreVerts
                        /\ \A v \in filed : Deg[v] > RoundK /\ Deg[v] = NbrsIn(v, filed \cup BK!active)

BKInv == BKType /\ BKPeeled /\ BKDegrees

\* Neighbours are finitely many, and those in a set are those in a part and in the rest.
LEMMA NbrsSplit ==
  ASSUME IsFiniteSet(CoreVerts), NEW v, NEW U \in SUBSET CoreVerts
  PROVE  /\ IsFiniteSet(Nbrs(v, U)) /\ NbrsIn(v, U) \in Nat /\ NbrsIn(v, U) <= Cardinality(CoreVerts)
         /\ \A S \in SUBSET U : NbrsIn(v, U) = NbrsIn(v, S) + NbrsIn(v, U \ S) /\ NbrsIn(v, S) <= NbrsIn(v, U)
<1>1. \A S \in SUBSET CoreVerts : IsFiniteSet(Nbrs(v, S)) /\ NbrsIn(v, S) \in Nat /\ NbrsIn(v, S) <= Cardinality(CoreVerts)
  <2> TAKE S \in SUBSET CoreVerts
  <2>1. Nbrs(v, S) \in SUBSET CoreVerts
    BY DEF Nbrs
  <2> QED BY <2>1, FS_Subset, FS_CardinalityType DEF NbrsIn
<1>2. ASSUME NEW S \in SUBSET U
      PROVE  NbrsIn(v, U) = NbrsIn(v, S) + NbrsIn(v, U \ S) /\ NbrsIn(v, S) <= NbrsIn(v, U)
  <2>1. S \in SUBSET CoreVerts /\ U \ S \in SUBSET CoreVerts
    OBVIOUS
  <2>2. Nbrs(v, U) = Nbrs(v, S) \cup Nbrs(v, U \ S) /\ Nbrs(v, S) \cap Nbrs(v, U \ S) = {}
    BY DEF Nbrs
  <2>3. Cardinality(Nbrs(v, S) \cup Nbrs(v, U \ S))
          = NbrsIn(v, S) + NbrsIn(v, U \ S) - Cardinality(Nbrs(v, S) \cap Nbrs(v, U \ S))
    BY <1>1, <2>1, FS_Union DEF NbrsIn
  <2>4. Cardinality(Nbrs(v, S) \cap Nbrs(v, U \ S)) = 0
    BY <2>2, FS_EmptySet
  <2>5. NbrsIn(v, U) = NbrsIn(v, S) + NbrsIn(v, U \ S)
    <3>1. NbrsIn(v, S) \in Nat /\ NbrsIn(v, U \ S) \in Nat
      BY <1>1, <2>1
    <3> QED BY <2>2, <2>3, <2>4, <3>1 DEF NbrsIn
  <2> QED BY <1>1, <2>1, <2>5
<1> QED BY <1>1, <1>2

\* What the inputs give, and the two programs' words for a core.
LEMMA BKFacts ==
  ASSUME BK!InputsOK
  PROVE  /\ IsFiniteSet(CoreVerts) /\ \A S : BK!Cardinality(S) = Cardinality(S) /\ KC!Cardinality(S) = Cardinality(S)
         /\ BK!nv = Cardinality(CoreVerts) /\ BK!nv \in Nat /\ UintMax \in Nat /\ BK!nv < UintMax
         /\ \A j, S : KC!InCore(j, S) <=> \A v \in S : NbrsIn(v, S) >= j
         /\ \A j, S : BK!InCore(j, S) <=> KC!InCore(j, S)
         /\ \A G \in BKGraphs : G \in SUBSET (CoreVerts \X CoreVerts) /\ \A e \in G : <<e[2], e[1]>> \in G
<1>1. \A S : BK!Cardinality(S) = Cardinality(S) /\ KC!Cardinality(S) = Cardinality(S)
  BY DEF BK!Cardinality, KC!Cardinality, Cardinality
<1>2. IsFiniteSet(CoreVerts)
  BY DEF BK!InputsOK, BK!IsFiniteSet, IsFiniteSet
<1>3. BK!nv = Cardinality(CoreVerts) /\ BK!nv \in Nat
  BY <1>1, <1>2, FS_CardinalityType DEF BK!nv
<1>4. \A j, S : KC!InCore(j, S) <=> \A v \in S : NbrsIn(v, S) >= j
  BY <1>1 DEF KC!InCore, NbrsIn, Nbrs
<1>5. \A j, S : BK!InCore(j, S) <=> KC!InCore(j, S)
  BY <1>1 DEF KC!InCore, BK!InCore
<1>6. UintMax \in Nat /\ BK!nv < UintMax /\ \A G \in BKGraphs : G \subseteq CoreVerts \X CoreVerts /\ \A e \in G : <<e[2], e[1]>> \in G
  BY DEF BK!InputsOK
<1> QED BY <1>1, <1>2, <1>3, <1>4, <1>5, <1>6

\* A core of a higher number is one of a lower.
LEMMA LowerCores ==
  ASSUME BK!InputsOK, NEW i \in Int, NEW j \in Int, i <= j, NEW S \in SUBSET CoreVerts, KC!InCore(j, S)
  PROVE  KC!InCore(i, S)
<1>1. \A v \in S : NbrsIn(v, S) \in Nat /\ NbrsIn(v, S) >= j
  BY BKFacts, NbrsSplit
<1> QED BY <1>1, BKFacts

LEMMA InitBKInv == ASSUME BK!InputsOK, BK!Init PROVE BKInv
<1>1. /\ GA \in BKGraphs /\ stage = "loop" /\ finished = 0 /\ taken.id = UintMax
      /\ Deg = [v \in CoreVerts |-> BK!Cardinality({e \in GA : e[1] = v})]
      /\ filed = {v \in CoreVerts : Deg[v] # UintMax}
  BY DEF BK!Init, BK!b!Init
<1>2. ASSUME NEW v \in CoreVerts PROVE Deg[v] = NbrsIn(v, CoreVerts) /\ Deg[v] \in Nat /\ Deg[v] <= BK!nv /\ Deg[v] # UintMax
  <2>1. TwoWay(GA) /\ IsFiniteSet(CoreVerts) /\ \A e \in GA : e[2] \in CoreVerts
    BY <1>1, BKFacts DEF TwoWay
  <2>2. {e \in GA : e[1] = v} = EdgesTo(GA, v, CoreVerts)
    BY <2>1 DEF EdgesTo
  <2>3. Cardinality(EdgesTo(GA, v, CoreVerts)) = Cardinality(OtherEnds(GA, v, CoreVerts))
    BY <2>1, EdgesByEnds
  <2>4. Deg[v] = NbrsIn(v, CoreVerts)
    BY <1>1, <2>2, <2>3, BKFacts DEF NbrsIn, Nbrs, OtherEnds
  <2>5. NbrsIn(v, CoreVerts) \in Nat /\ NbrsIn(v, CoreVerts) <= BK!nv
    <3>1. CoreVerts \in SUBSET CoreVerts
      OBVIOUS
    <3> QED BY <3>1, BKFacts, NbrsSplit
  <2> QED BY <2>4, <2>5, BKFacts
<1>3. filed = CoreVerts /\ RoundK = 0
  BY <1>1, <1>2 DEF RoundK
<1>4. BKType
  <2>1. CoreVerts \ filed = {}
    BY <1>3
  <2>2. finished = Cardinality(CoreVerts \ filed)
    BY <1>1, <2>1, FS_EmptySet
  <2>3. Deg \in [CoreVerts -> Nat]
    BY <1>1, <1>2
  <2> QED BY <1>1, <1>2, <1>3, <2>2, <2>3 DEF BKType
<1>5. BKPeeled
  <2>1. KC!InCore(0, CoreVerts)
    BY <1>2, BKFacts
  <2> QED BY <1>3, <2>1 DEF BKPeeled
<1>6. BKDegrees
  <2>1. \A v \in filed : Deg[v] = IF NbrsIn(v, filed) > RoundK THEN NbrsIn(v, filed) ELSE RoundK
    BY <1>2, <1>3
  <2>2. stage = "loop" /\ stage # "apply"
    BY <1>1
  <2> QED BY <2>1, <2>2 DEF BKDegrees
<1> QED BY <1>4, <1>5, <1>6 DEF BKInv

\* What is taken out of the first bucket has its core number as its key.
LEMMA NextBucketKeepsBKInv ==
  ASSUME BK!InputsOK, BKInv, BK!NextBucket
  PROVE  BKInv'
<1>1. PICK low \in {Deg[v] : v \in filed} :
        /\ stage = "loop" /\ stage' = "apply" /\ BK!b!Take(low) /\ GA' = GA
        /\ finished' = finished + BK!Cardinality(filed \ filed')
  BY DEF BK!NextBucket
<1> DEFINE ids == {v \in filed : Deg[v] = low}
<1>2. BKType /\ BKPeeled /\ BKDegrees /\ filed \in SUBSET CoreVerts /\ BK!nv \in Nat /\ UintMax \in Nat
  BY BKFacts DEF BKInv, BKType
<1>3. /\ ids # {} /\ \A u \in filed : low <= Deg[u]
      /\ taken' = [id |-> low, identifiers |-> [v \in CoreVerts |-> IF v \in ids THEN 1 ELSE 0]]
      /\ filed' = filed \ ids /\ Deg' = Deg
  BY <1>1 DEF BK!b!Take, BK!b!IsFirst
<1>4. ids \subseteq filed /\ ids \subseteq CoreVerts /\ \A v \in filed : v \in ids <=> Deg[v] = low
  BY <1>2
<1>5. low \in 0 .. BK!nv /\ low # UintMax /\ low >= RoundK /\ RoundK \in Nat
  <2>1. PICK v \in filed : Deg[v] = low
    BY <1>1
  <2>2. v \in CoreVerts /\ Deg[v] \in Nat /\ Deg[v] <= BK!nv
    BY <1>2, <2>1 DEF BKType
  <2>3. NbrsIn(v, filed) \in Nat
    BY <1>2, BKFacts, NbrsSplit
  <2>4. RoundK \in Nat
    BY <1>2 DEF BKType, RoundK
  <2>5. Deg[v] = IF NbrsIn(v, filed) > RoundK THEN NbrsIn(v, filed) ELSE RoundK
    BY <1>1, <1>2, <2>1 DEF BKDegrees
  <2> QED BY <1>2, <2>1, <2>2, <2>3, <2>4, <2>5, BKFacts
<1> HIDE DEF ids
<1>6. RoundK' = low /\ BK!active' = ids
  <2>1. \A v \in CoreVerts : taken'.identifiers[v] = 1 <=> v \in ids
    BY <1>3
  <2>2. taken'.id = low
    BY <1>3
  <2> QED BY <1>4, <1>5, <2>1, <2>2 DEF RoundK, BK!active
\* A vertex whose key is above the level has that many neighbours that wait.
<1>7. ASSUME NEW v \in filed
      PROVE  /\ v \in CoreVerts /\ Deg[v] \in Nat /\ NbrsIn(v, filed) \in Nat
             /\ Deg[v] > RoundK => Deg[v] = NbrsIn(v, filed)
             /\ NbrsIn(v, filed) <= Deg[v]
  <2>1. v \in CoreVerts /\ Deg[v] \in Nat
    BY <1>2 DEF BKType
  <2>2. NbrsIn(v, filed) \in Nat
    BY <1>2, BKFacts, NbrsSplit
  <2>3. Deg[v] = IF NbrsIn(v, filed) > RoundK THEN NbrsIn(v, filed) ELSE RoundK
    BY <1>1, <1>2 DEF BKDegrees
  <2> QED BY <1>5, <2>1, <2>2, <2>3
<1>8. PICK C \in SUBSET CoreVerts : filed \subseteq C /\ KC!InCore(low, C)
  <2>1. CASE low = RoundK
    BY <1>2, <2>1 DEF BKPeeled
  <2>2. CASE low # RoundK
    <3>1. \A v \in filed : NbrsIn(v, filed) >= low
      <4> TAKE v \in filed
      <4>1. Deg[v] \in Nat /\ low <= Deg[v] /\ Deg[v] > RoundK
        BY <1>3, <1>5, <1>7, <2>2
      <4> QED BY <1>7, <4>1
    <3>2. KC!InCore(low, filed)
      BY <3>1, BKFacts
    <3> QED BY <1>2, <3>2
  <2> QED BY <2>1, <2>2
<1>9. ASSUME NEW S \in SUBSET CoreVerts, KC!InCore(low + 1, S) PROVE S \subseteq filed'
  <2>1. S \subseteq filed
    <3>1. RoundK + 1 \in Int /\ low + 1 \in Int /\ RoundK + 1 <= low + 1
      BY <1>5
    <3>2. KC!InCore(RoundK + 1, S)
      BY <1>9, <3>1, LowerCores
    <3> QED BY <1>2, <3>2 DEF BKPeeled
  <2> SUFFICES ASSUME NEW v \in S, v \in ids PROVE FALSE
    BY <1>3, <2>1
  <2>2. v \in filed /\ Deg[v] = low /\ NbrsIn(v, filed) <= low
    BY <1>4, <1>7
  <2>3. NbrsIn(v, S) >= low + 1
    BY <1>9, BKFacts
  <2>4. NbrsIn(v, S) <= NbrsIn(v, filed) /\ NbrsIn(v, S) \in Nat
    BY <1>2, <2>1, BKFacts, NbrsSplit
  <2>5. NbrsIn(v, filed) \in Nat /\ low \in Nat
    BY <1>5, <1>7, <2>2
  <2> QED BY <2>2, <2>3, <2>4, <2>5
<1>10. \A j : \A S \in SUBSET CoreVerts : KC!InCore(j, S)' <=> KC!InCore(j, S)
  BY <1>1 DEF KC!InCore
<1>11. BKType'
  <2>1. finished' = Cardinality(CoreVerts \ filed')
    <3>1. CoreVerts \ filed' = (CoreVerts \ filed) \cup ids /\ (CoreVerts \ filed) \cap ids = {} /\ filed \ filed' = ids
      BY <1>2, <1>3, <1>4
    <3>2. /\ IsFiniteSet(ids) /\ IsFiniteSet(CoreVerts \ filed)
          /\ Cardinality(ids) \in Nat /\ Cardinality(CoreVerts \ filed) \in Nat
      BY <1>4, BKFacts, FS_Subset, FS_CardinalityType
    <3>3. Cardinality((CoreVerts \ filed) \cup ids)
            = Cardinality(CoreVerts \ filed) + Cardinality(ids) - Cardinality((CoreVerts \ filed) \cap ids)
      BY <3>2, FS_Union
    <3>4. Cardinality((CoreVerts \ filed) \cap ids) = 0
      BY <3>1, FS_EmptySet
    <3>5. finished' = Cardinality(CoreVerts \ filed) + Cardinality(ids)
      <4>1. finished = Cardinality(CoreVerts \ filed) /\ finished' = finished + BK!Cardinality(filed \ filed')
        BY <1>1, <1>2 DEF BKType
      <4>2. BK!Cardinality(filed \ filed') = Cardinality(ids)
        BY <3>1, BKFacts
      <4> QED BY <4>1, <4>2
    <3>6. Cardinality((CoreVerts \ filed) \cup ids) = Cardinality(CoreVerts \ filed) + Cardinality(ids)
      BY <3>2, <3>3, <3>4
    <3> QED BY <3>1, <3>5, <3>6
  <2>2. BK!nv' = BK!nv
    BY DEF BK!nv
  <2> QED BY <1>1, <1>2, <1>3, <1>5, <2>1, <2>2 DEF BKType
<1>12. BKPeeled'
  <2>1. ASSUME NEW v \in CoreVerts \ filed' PROVE HasCore(v, Deg[v]) /\ Deg[v] <= low
    <3>1. CASE v \in ids
      <4>1. Deg[v] = low /\ v \in C
        BY <1>4, <1>8, <3>1
      <4>2. ~ \E S \in SUBSET CoreVerts : v \in S /\ KC!InCore(low + 1, S)
        BY <1>9, <2>1
      <4> QED BY <1>5, <1>8, <4>1, <4>2 DEF HasCore
    <3>2. CASE v \notin ids
      <4>1. HasCore(v, Deg[v]) /\ Deg[v] <= RoundK /\ Deg[v] \in Nat
        BY <1>2, <1>3, <2>1, <3>2 DEF BKPeeled, BKType
      <4> QED BY <1>5, <4>1
    <3> QED BY <3>1, <3>2
  <2>2. \A v \in CoreVerts \ filed' : HasCore(v, Deg[v])' /\ Deg'[v] <= low
    BY <1>3, <1>10, <2>1 DEF HasCore
  <2>3. filed' \subseteq C /\ KC!InCore(low, C)'
    BY <1>3, <1>8, <1>10
  <2> QED BY <1>6, <1>9, <1>10, <2>2, <2>3 DEF BKPeeled
<1>13. BKDegrees'
  <2>1. filed' \cup ids = filed /\ ids \cap filed' = {}
    BY <1>3, <1>4
  <2>2. ASSUME NEW v \in filed' PROVE Deg[v] > low /\ Deg[v] = NbrsIn(v, filed)
    <3>1. v \in filed /\ Deg[v] # low /\ low <= Deg[v] /\ Deg[v] \in Nat
      BY <1>3, <1>4, <1>7, <2>2
    <3> QED BY <1>5, <1>7, <3>1
  <2>3. \A v : NbrsIn(v, filed \cup BK!active)' = NbrsIn(v, filed)
    BY <1>1, <1>6, <2>1 DEF NbrsIn, Nbrs
  <2>4. taken'.id # UintMax
    BY <1>3, <1>5
  <2> QED BY <1>1, <1>3, <1>4, <1>6, <2>1, <2>2, <2>3, <2>4 DEF BKDegrees
<1> QED BY <1>11, <1>12, <1>13 DEF BKInv

\* No degree is lowered by more than it has.
LEMMA ApplyKeepsBKInv ==
  ASSUME BK!InputsOK, BKInv, BK!Apply
  PROVE  BKInv'
<1> DEFINE rest(v) == (Deg[v] - BK!edgesRemoved(v)) % (UintMax + 1)
<1>1. /\ stage = "apply" /\ stage' = "loop" /\ GA' = GA /\ filed' = filed /\ taken' = taken /\ finished' = finished
      /\ Deg' = [v \in CoreVerts |-> IF Deg[v] > taken.id THEN IF rest(v) > taken.id THEN rest(v) ELSE taken.id ELSE Deg[v]]
  BY DEF BK!Apply
<1>2. /\ BKType /\ BKPeeled /\ BKDegrees /\ filed \in SUBSET CoreVerts /\ BK!nv \in Nat /\ UintMax \in Nat
      /\ RoundK = taken.id /\ taken.id \in 0 .. BK!nv /\ BK!active \in SUBSET CoreVerts /\ BK!nv < UintMax
  BY <1>1, BKFacts DEF BKInv, BKType, BKDegrees, RoundK
<1>3. ASSUME NEW v \in filed
      PROVE  /\ Deg[v] > taken.id /\ rest(v) = NbrsIn(v, filed) /\ NbrsIn(v, filed) \in Nat /\ NbrsIn(v, filed) <= BK!nv
             /\ v \in CoreVerts
  <2>1. Deg[v] > taken.id /\ Deg[v] = NbrsIn(v, filed \cup BK!active) /\ BK!active \cap filed = {} /\ v \in CoreVerts
    BY <1>1, <1>2 DEF BKDegrees
  <2>2. BK!edgesRemoved(v) = NbrsIn(v, BK!active)
    <3>1. TwoWay(GA) /\ IsFiniteSet(BK!active)
      BY <1>2, BKFacts, FS_Subset DEF BKType, TwoWay
    <3>2. Cardinality(EdgesFrom(GA, BK!active, v)) = Cardinality(OtherEnds(GA, v, BK!active))
      BY <3>1, EdgesByEnds
    <3> QED BY <3>2, BKFacts DEF BK!edgesRemoved, NbrsIn, Nbrs, EdgesFrom, OtherEnds
  <2>3. NbrsIn(v, filed \cup BK!active) = NbrsIn(v, filed) + NbrsIn(v, BK!active)
    <3>1. filed \cup BK!active \in SUBSET CoreVerts /\ filed \in SUBSET (filed \cup BK!active)
          /\ (filed \cup BK!active) \ filed = BK!active
      BY <1>2, <2>1
    <3>2. NbrsIn(v, filed \cup BK!active) = NbrsIn(v, filed) + NbrsIn(v, (filed \cup BK!active) \ filed)
      <4> DEFINE U == filed \cup BK!active
      <4>1. U \in SUBSET CoreVerts /\ filed \in SUBSET U /\ IsFiniteSet(CoreVerts)
        BY <3>1, BKFacts
      <4> HIDE DEF U
      <4>2. NbrsIn(v, U) = NbrsIn(v, filed) + NbrsIn(v, U \ filed)
        BY <4>1, NbrsSplit
      <4> QED BY <4>2 DEF U
    <3> QED BY <3>1, <3>2
  <2>4. /\ NbrsIn(v, filed) \in Nat /\ NbrsIn(v, filed) <= BK!nv /\ NbrsIn(v, BK!active) \in Nat
    BY <1>2, BKFacts, NbrsSplit
  <2>5. Deg[v] - BK!edgesRemoved(v) = NbrsIn(v, filed)
    BY <2>1, <2>2, <2>3, <2>4
  <2>6. NbrsIn(v, filed) % (UintMax + 1) = NbrsIn(v, filed)
    <3> DEFINE x == NbrsIn(v, filed)
               y == UintMax + 1
    <3>1. x \in Int /\ x >= 0 /\ y \in Int /\ x < y /\ y > 0
      BY <1>2, <2>4
    <3> HIDE DEF x, y
    <3>2. x % y = x
      BY <3>1, Z3
    <3> QED BY <3>2 DEF x, y
  <2> QED BY <2>1, <2>4, <2>5, <2>6
<1> HIDE DEF rest
<1>4. \A v \in filed : Deg'[v] = IF NbrsIn(v, filed) > taken.id THEN NbrsIn(v, filed) ELSE taken.id
  BY <1>1, <1>3
<1>5. ASSUME NEW v \in CoreVerts \ filed PROVE Deg'[v] = Deg[v]
  <2>1. Deg[v] <= taken.id /\ Deg[v] \in Nat
    BY <1>2 DEF BKPeeled, BKType
  <2> QED BY <1>1, <1>2, <2>1
<1>6. BKType'
  <2>1. \A v \in CoreVerts : Deg'[v] \in Nat /\ Deg'[v] <= BK!nv
    BY <1>2, <1>3, <1>4, <1>5 DEF BKType
  <2>2. Deg' \in [CoreVerts -> Nat]
    BY <1>1, <2>1
  <2>3. BK!nv' = BK!nv
    BY DEF BK!nv
  <2> QED BY <1>1, <1>2, <2>1, <2>2, <2>3 DEF BKType
<1>7. \A j : \A S \in SUBSET CoreVerts : KC!InCore(j, S)' <=> KC!InCore(j, S)
  BY <1>1 DEF KC!InCore
<1>8. RoundK' = RoundK
  BY <1>1 DEF RoundK
<1>9. BKPeeled'
  <2>1. \A v \in CoreVerts \ filed : HasCore(v, Deg[v])' /\ Deg'[v] <= RoundK
    BY <1>2, <1>5, <1>7 DEF HasCore, BKPeeled
  <2> QED BY <1>1, <1>2, <1>7, <1>8, <2>1 DEF BKPeeled
<1>10. BKDegrees'
  <2>1. \A v : NbrsIn(v, filed)' = NbrsIn(v, filed)
    BY <1>1 DEF NbrsIn, Nbrs
  <2> QED BY <1>1, <1>2, <1>4, <1>8, <2>1 DEF BKDegrees
<1> QED BY <1>6, <1>9, <1>10 DEF BKInv

LEMMA BKInvKept == BK!InputsOK /\ BKInv /\ [BK!Next]_(BK!vars) => BKInv'
<1> SUFFICES ASSUME BK!InputsOK, BKInv, [BK!Next]_(BK!vars) PROVE BKInv'
  OBVIOUS
<1>1. CASE UNCHANGED BK!vars
  <2>1. GA' = GA /\ stage' = stage /\ Deg' = Deg /\ filed' = filed /\ taken' = taken /\ finished' = finished
    BY <1>1 DEF BK!vars
  <2>2. \A j : \A S \in SUBSET CoreVerts : KC!InCore(j, S)' <=> KC!InCore(j, S)
    BY <2>1 DEF KC!InCore
  <2>3. /\ RoundK' = RoundK /\ BK!nv' = BK!nv /\ BK!active' = BK!active
        /\ \A v, S : Nbrs(v, S)' = Nbrs(v, S')
    BY <2>1 DEF RoundK, BK!nv, BK!active, Nbrs
  <2>4. BKType'
    BY <2>1, <2>3 DEF BKInv, BKType
  <2>5. BKPeeled'
    BY <2>1, <2>2, <2>3 DEF BKInv, BKPeeled, HasCore
  <2>6. \A v : NbrsIn(v, filed)' = NbrsIn(v, filed) /\ NbrsIn(v, filed \cup BK!active)' = NbrsIn(v, filed \cup BK!active)
    BY <2>1, <2>3 DEF NbrsIn, Nbrs
  <2>7. BKDegrees'
    BY <2>1, <2>3, <2>6 DEF BKInv, BKDegrees
  <2> QED BY <2>4, <2>5, <2>7 DEF BKInv
<1> QED BY <1>1, NextBucketKeepsBKInv, ApplyKeepsBKInv DEF BK!Next

\* The degrees of the bucketed k-core between its rounds, for every symmetric graph: the
\* unsigned difference deg - edgesRemoved never wraps.
THEOREM BucketDegreesAreInduced == ASSUME BK!InputsOK PROVE BK!Spec => []BK!DegreesAreInduced
<1>1. BK!InputsOK /\ BKInv => BK!DegreesAreInduced
  BY BKFacts DEF BKInv, BKDegrees, RoundK, NbrsIn, Nbrs, BK!DegreesAreInduced
<1>2. BK!InputsOK /\ BK!Init => BKInv
  BY InitBKInv
<1> QED BY <1>1, <1>2, BKInvKept, PTL DEF BK!Spec

\* The bucketed k-core takes every vertex once and ends with each one's core number.
THEOREM BucketCoresAreRight == ASSUME BK!InputsOK PROVE BK!Spec => []BK!CoresAreRight
<1>1. BK!InputsOK /\ BKInv => BK!CoresAreRight
  <2> SUFFICES ASSUME BK!InputsOK, BKInv, BK!Done PROVE filed = {} /\ \A v \in CoreVerts : Deg[v] = BK!CoreNumber(v)
    BY DEF BK!CoresAreRight
  <2>1. BKType /\ BKPeeled /\ filed \in SUBSET CoreVerts
    BY DEF BKInv, BKType
  <2>2. filed = {}
    <3>1. Cardinality(CoreVerts \ filed) = Cardinality(CoreVerts) /\ IsFiniteSet(CoreVerts)
      BY <2>1, BKFacts DEF BK!Done, BKType
    <3>2. CoreVerts \ filed = CoreVerts
      BY <3>1, FS_Subset
    <3> QED BY <2>1, <3>2
  <2>3. ASSUME NEW v \in CoreVerts PROVE Deg[v] = BK!CoreNumber(v)
    <3>1. HasCore(v, Deg[v]) /\ Deg[v] \in 0 .. BK!nv
      BY <2>1, <2>2, BKFacts DEF BKPeeled, BKType
    <3>2. ASSUME NEW i \in 0 .. BK!nv, NEW j \in 0 .. BK!nv, HasCore(v, i), HasCore(v, j), i < j PROVE FALSE
      <4>1. PICK S \in SUBSET CoreVerts : v \in S /\ KC!InCore(j, S)
        BY <3>2 DEF HasCore
      <4>2. i + 1 \in Int /\ j \in Int /\ i + 1 <= j
        BY <3>2, BKFacts
      <4>3. KC!InCore(i + 1, S)
        BY <4>1, <4>2, LowerCores
      <4> QED BY <3>2, <4>1, <4>3 DEF HasCore
    <3>3. \A j \in 0 .. BK!nv : HasCore(v, j) => j = Deg[v]
      <4> SUFFICES ASSUME NEW j \in 0 .. BK!nv, HasCore(v, j), j # Deg[v] PROVE FALSE
        OBVIOUS
      <4>1. j < Deg[v] \/ Deg[v] < j
        BY <3>1, BKFacts
      <4> QED BY <3>1, <3>2, <4>1
    <3> QED BY <3>1, <3>3, BKFacts DEF BK!CoreNumber, HasCore
  <2> QED BY <2>2, <2>3
<1>2. BK!InputsOK /\ BK!Init => BKInv
  BY InitBKInv
<1> QED BY <1>1, <1>2, BKInvKept, PTL DEF BK!Spec

-----------------------------------------------------------------------------
(* HyperKCore, for every symmetric hypergraph.  A hyperedge is claimed once*)
(* one of its vertices is out (Claims).  A vertex still in has a degree of *)
(* at least its hyperedges that are whole and the decrements still to come,*)
(* and of exactly that many as long as it is k or more: cond passes over a *)
(* decrement only below k (Owing).  So no degree falls below zero, and who *)
(* is out is passed over.                                                  *)

NH == Cardinality(HKHyperedges)
Around(v) == {h \in HKHyperedges : <<h, v>> \in GA}
Whole(v) == {h \in Around(v) : Claimed[h] = 0}
Owed(v) == IF stage = "toH" THEN Around(v) \cap out ELSE Pending(v)
HyperCore(v, j) == /\ \E S \in SUBSET HKVerts : v \in S /\ HK!InCore(j, S)
                   /\ ~ \E S \in SUBSET HKVerts : v \in S /\ HK!InCore(j + 1, S)

HKType == /\ GA \in HKGraphs
          /\ stage \in {"filter", "toH", "toV", "done"}
          /\ Frontier \subseteq HKVerts
          /\ todo \subseteq GA /\ DOMAIN regs \subseteq GA /\ todo \cap DOMAIN regs = {}
          /\ stage \in {"filter", "done"} => todo = {} /\ DOMAIN regs = {}
          /\ coreK \in 1 .. NH + 1
          /\ Degrees \in [HKVerts -> Int] /\ \A v \in HKVerts : Degrees[v] <= NH
          /\ Claimed \in [HKHyperedges -> {0, 1}]
          /\ stage = "toH" => /\ \A e \in todo \cup DOMAIN regs : e[1] \in HKVerts \ Frontier
                              /\ \A h \in out : h \in HKHyperedges /\ Claimed[h] = 1
          /\ stage = "toV" => /\ \A e \in todo \cup DOMAIN regs : e[1] \in HKHyperedges
                              /\ \A e \in DOMAIN regs : e[2] \in Frontier

Claims == \A h \in HKHyperedges :
  /\ Claimed[h] = 1 => ~(HK!Members(h) \subseteq Frontier)
  /\ Claimed[h] = 0 => \/ HK!Members(h) \subseteq Frontier
                       \/ stage = "toH" /\ \E e \in todo \cup DOMAIN regs : e[2] = h

Owing == stage # "done" => \A v \in Frontier :
  /\ Degrees[v] >= Cardinality(Whole(v)) + Cardinality(Owed(v))
  /\ Degrees[v] >= coreK => Degrees[v] = Cardinality(Whole(v)) + Cardinality(Owed(v))

\* C is the frontier that round k began with.
HyperBegun(C) == /\ C \in SUBSET HKVerts /\ Frontier \subseteq C /\ C # {}
                 /\ HK!InCore(coreK - 1, C)
                 /\ \A v \in C \ Frontier : Degrees[v] = coreK - 1

HyperPeeled == stage # "done" =>
  /\ \A S \in SUBSET HKVerts : HK!InCore(coreK, S) => S \subseteq Frontier
  /\ \E C : HyperBegun(C)
  /\ \A v \in HKVerts \ Frontier : HyperCore(v, Degrees[v]) /\ Degrees[v] \in 0 .. coreK - 1

HyperFinished == stage = "done" =>
  /\ \A v \in HKVerts : HyperCore(v, Degrees[v]) /\ Degrees[v] \in 0 .. NH /\ Degrees[v] <= largestCore
  /\ \E v \in HKVerts : Degrees[v] = largestCore

HKInv == HKType /\ Claims /\ Owing /\ HyperPeeled /\ HyperFinished

\* What the inputs give the proofs below.
LEMMA HKInputs ==
  ASSUME HK!InputsOK
  PROVE  /\ IsFiniteSet(HKVerts) /\ HKVerts # {} /\ IsFiniteSet(HKHyperedges) /\ NH \in Nat
         /\ UintRange \in Nat /\ NH < UintRange
         /\ \A S : HK!Cardinality(S) = Cardinality(S)
         /\ IsFiniteSet(HKVerts \cup HKHyperedges) /\ HKVerts \cap HKHyperedges = {}
         /\ \A G \in HKGraphs : /\ G \in SUBSET ((HKVerts \cup HKHyperedges) \X (HKVerts \cup HKHyperedges)) /\ IsFiniteSet(G)
                                /\ \A e \in G : /\ e = <<e[1], e[2]>> /\ <<e[2], e[1]>> \in G
                                                /\ \/ e[1] \in HKVerts /\ e[2] \in HKHyperedges
                                                   \/ e[1] \in HKHyperedges /\ e[2] \in HKVerts
<1> DEFINE Nodes == HKVerts \cup HKHyperedges
<1>1. \A S : HK!Cardinality(S) = Cardinality(S)
  BY DEF HK!Cardinality, Cardinality
<1>2. IsFiniteSet(HKVerts) /\ IsFiniteSet(HKHyperedges)
  BY DEF HK!InputsOK, HK!IsFiniteSet, IsFiniteSet
<1>3. /\ HKVerts # {} /\ UintRange \in Nat /\ NH < UintRange /\ HKVerts \cap HKHyperedges = {}
      /\ \A G \in HKGraphs : /\ G \subseteq (HKVerts \X HKHyperedges) \cup (HKHyperedges \X HKVerts)
                             /\ \A e \in G : <<e[2], e[1]>> \in G
  BY <1>1 DEF HK!InputsOK, NH
<1>4. IsFiniteSet(Nodes) /\ NH \in Nat
  BY <1>2, FS_Union, FS_CardinalityType DEF NH
<1>5. IsFiniteSet(Nodes \X Nodes)
  BY <1>4, FS_Product
<1>6. ASSUME NEW G \in HKGraphs
      PROVE  /\ G \in SUBSET (Nodes \X Nodes) /\ IsFiniteSet(G)
             /\ \A e \in G : /\ e = <<e[1], e[2]>> /\ <<e[2], e[1]>> \in G
                             /\ \/ e[1] \in HKVerts /\ e[2] \in HKHyperedges
                                \/ e[1] \in HKHyperedges /\ e[2] \in HKVerts
  <2>1. G \in SUBSET (Nodes \X Nodes)
    BY <1>3
  <2>2. IsFiniteSet(G)
    BY <1>5, <2>1, FS_Subset
  <2>3. \A e \in (HKVerts \X HKHyperedges) \cup (HKHyperedges \X HKVerts) :
          e = <<e[1], e[2]>> /\ (\/ e[1] \in HKVerts /\ e[2] \in HKHyperedges
                                 \/ e[1] \in HKHyperedges /\ e[2] \in HKVerts)
    OBVIOUS
  <2> QED BY <1>3, <2>1, <2>2, <2>3
<1> QED BY <1>1, <1>2, <1>3, <1>4, <1>6

\* What is counted is finite; the degree in a set grows with the set.
LEMMA HKFacts ==
  ASSUME HK!InputsOK, HKType
  PROVE  /\ \A v : IsFiniteSet(Around(v)) /\ IsFiniteSet(Whole(v)) /\ IsFiniteSet(Pending(v)) /\ IsFiniteSet(Owed(v))
         /\ \A v : Cardinality(Whole(v)) \in Nat /\ Cardinality(Owed(v)) \in Nat
         /\ \A v : \A S \in SUBSET HKVerts : HK!Induced(v, S) \in Nat /\ HK!Induced(v, S) <= NH
         /\ \A v : \A S, U \in SUBSET HKVerts : S \subseteq U => HK!Induced(v, S) <= HK!Induced(v, U)
<1> DEFINE Inside(v, S) == {h \in HKHyperedges : v \in HK!Members(h) /\ HK!Members(h) \subseteq S}
<1>1. IsFiniteSet(HKHyperedges) /\ IsFiniteSet(GA) /\ \A S : HK!Cardinality(S) = Cardinality(S)
  BY HKInputs DEF HKType
<1>2. ASSUME NEW v PROVE IsFiniteSet(Around(v)) /\ IsFiniteSet(Whole(v)) /\ IsFiniteSet(Pending(v)) /\ IsFiniteSet(Owed(v))
  <2>1. Around(v) \in SUBSET HKHyperedges /\ Whole(v) \in SUBSET HKHyperedges
    BY DEF Around, Whole
  <2>2. Pending(v) \in SUBSET GA
    BY DEF Pending, HKType
  <2>3. Owed(v) \in SUBSET HKHyperedges \/ Owed(v) \in SUBSET GA
    BY <2>1, <2>2 DEF Owed
  <2> QED BY <1>1, <2>1, <2>2, <2>3, FS_Subset
<1>3. ASSUME NEW v, NEW S \in SUBSET HKVerts
      PROVE  /\ HK!Induced(v, S) = Cardinality(Inside(v, S)) /\ IsFiniteSet(Inside(v, S))
             /\ HK!Induced(v, S) \in Nat /\ HK!Induced(v, S) <= NH
  <2>1. Inside(v, S) \in SUBSET HKHyperedges
    OBVIOUS
  <2>2. HK!Induced(v, S) = Cardinality(Inside(v, S))
    BY <1>1 DEF HK!Induced
  <2> HIDE DEF Inside
  <2> QED BY <1>1, <2>1, <2>2, FS_Subset, FS_CardinalityType DEF NH
<1>4. ASSUME NEW v, NEW S \in SUBSET HKVerts, NEW U \in SUBSET HKVerts, S \subseteq U
      PROVE  HK!Induced(v, S) <= HK!Induced(v, U)
  <2>1. Inside(v, S) \in SUBSET Inside(v, U)
    BY <1>4
  <2> HIDE DEF Inside
  <2> QED BY <1>3, <2>1, FS_Subset
<1> QED BY <1>2, <1>3, <1>4, FS_CardinalityType

\* A core of a higher number is one of a lower.
LEMMA HyperCoresNest ==
  ASSUME HK!InputsOK, HKType, NEW i \in Int, NEW j \in Int, i <= j, NEW S \in SUBSET HKVerts, HK!InCore(j, S)
  PROVE  HK!InCore(i, S)
<1>1. \A v \in S : HK!Induced(v, S) \in Nat /\ HK!Induced(v, S) >= j
  BY HKFacts DEF HK!InCore
<1> QED BY <1>1 DEF HK!InCore

\* A number with a core of its own and none one higher is the core number.
LEMMA HyperCoreNumberIs ==
  ASSUME HK!InputsOK, HKType, NEW v, NEW j \in 0 .. NH, HyperCore(v, j)
  PROVE  HK!CoreNumber(v) = j
<1>1. NH \in Nat /\ HK!Cardinality(HKHyperedges) = NH
  BY HKInputs DEF NH
<1>2. ASSUME NEW i \in 0 .. NH, HyperCore(v, i), NEW l \in 0 .. NH, HyperCore(v, l), i < l PROVE FALSE
  <2>1. PICK S \in SUBSET HKVerts : v \in S /\ HK!InCore(l, S)
    BY <1>2 DEF HyperCore
  <2>2. i + 1 \in Int /\ l \in Int /\ i + 1 <= l
    BY <1>1, <1>2
  <2>3. HK!InCore(i + 1, S)
    BY <2>1, <2>2, HyperCoresNest
  <2> QED BY <1>2, <2>1, <2>3 DEF HyperCore
<1>3. \A i \in 0 .. NH : HyperCore(v, i) => i = j
  <2> SUFFICES ASSUME NEW i \in 0 .. NH, HyperCore(v, i), i # j PROVE FALSE
    OBVIOUS
  <2>1. i < j \/ j < i
    BY <1>1
  <2> QED BY <1>2, <2>1
<1> QED BY <1>1, <1>3 DEF HK!CoreNumber, HyperCore

\* Degrees are small enough for an unsigned word, and not negative.
LEMMA HKUnsigned ==
  ASSUME HK!InputsOK, HKInv, stage # "done"
  PROVE  /\ \A v \in HKVerts : HK!Unsigned(Degrees[v]) = Degrees[v] /\ Degrees[v] \in Nat
         /\ HK!Unsigned(coreK - 1) = coreK - 1 /\ coreK - 1 \in Nat /\ coreK \in Nat
<1>1. HKType /\ Owing /\ HyperPeeled /\ NH \in Nat /\ UintRange \in Nat /\ NH < UintRange
  BY HKInputs DEF HKInv
<1>2. ASSUME NEW x \in Nat, x <= NH PROVE HK!Unsigned(x) = x
  <2>1. UintRange \in Int /\ UintRange > 0 /\ x \in Int /\ x >= 0 /\ x < UintRange
    BY <1>1, <1>2
  <2>2. x % UintRange = x
    BY <2>1, Z3
  <2> QED BY <2>2 DEF HK!Unsigned
<1>3. coreK \in 1 .. NH + 1
  BY <1>1 DEF HKType
<1>4. ASSUME NEW v \in HKVerts PROVE Degrees[v] \in Nat /\ Degrees[v] <= NH
  <2>1. Degrees[v] \in Int /\ Degrees[v] <= NH
    BY <1>1 DEF HKType
  <2>2. CASE v \in Frontier
    <3>1. Degrees[v] >= Cardinality(Whole(v)) + Cardinality(Owed(v))
      BY <1>1, <2>2 DEF Owing
    <3>2. Cardinality(Whole(v)) \in Nat /\ Cardinality(Owed(v)) \in Nat
      BY <1>1, HKFacts
    <3> QED BY <2>1, <3>1, <3>2
  <2>3. CASE v \notin Frontier
    BY <1>1, <1>3, <2>1, <2>3 DEF HyperPeeled
  <2> QED BY <2>2, <2>3
<1> QED BY <1>1, <1>2, <1>3, <1>4

\* In the filters the whole hyperedges are those inside the frontier, and nothing is owed.
LEMMA HyperFilterFacts ==
  ASSUME HK!InputsOK, HKInv, stage = "filter"
  PROVE  /\ \A v : Cardinality(Owed(v)) = 0
         /\ \A v \in Frontier : /\ Cardinality(Whole(v)) = HK!Induced(v, Frontier) /\ Degrees[v] >= HK!Induced(v, Frontier)
                                /\ Degrees[v] >= coreK => Degrees[v] = HK!Induced(v, Frontier)
         /\ HK!ToRemove = {v \in Frontier : Degrees[v] < coreK}
<1>1. HKType /\ Claims /\ Owing
  BY DEF HKInv
<1>2. ASSUME NEW v PROVE Cardinality(Owed(v)) = 0
  <2>1. Owed(v) = {}
    BY <1>1 DEF Owed, Pending, HKType
  <2> QED BY <2>1, FS_EmptySet
<1>3. ASSUME NEW v \in Frontier PROVE Cardinality(Whole(v)) = HK!Induced(v, Frontier) /\ Cardinality(Whole(v)) \in Nat
  <2>1. v \in HKVerts
    BY <1>1 DEF HKType
  <2>2. Whole(v) = {h \in HKHyperedges : v \in HK!Members(h) /\ HK!Members(h) \subseteq Frontier}
    <3>1. \A h \in HKHyperedges : Claimed[h] = 0 <=> HK!Members(h) \subseteq Frontier
      BY <1>1 DEF HKType, Claims
    <3> QED BY <2>1, <3>1 DEF Whole, Around, HK!Members
  <2> QED BY <1>1, <2>2, HKInputs, HKFacts DEF HK!Induced
<1>4. HK!ToRemove = {v \in Frontier : Degrees[v] < coreK}
  BY <1>1, HKUnsigned DEF HK!ToRemove, HKType
<1>5. \A v \in Frontier : /\ Degrees[v] >= Cardinality(Whole(v)) + Cardinality(Owed(v))
                          /\ Degrees[v] >= coreK => Degrees[v] = Cardinality(Whole(v)) + Cardinality(Owed(v))
  BY <1>1 DEF Owing
<1> QED BY <1>2, <1>3, <1>4, <1>5

\* Steps that leave the frontier, the degrees of those that are out, and k alone.
LEMMA HKQuiet ==
  ASSUME HKInv, HKType', Claims', Owing', GA' = GA, Frontier' = Frontier, coreK' = coreK, largestCore' = largestCore,
         stage # "done", stage' # "done", \A v \in HKVerts \ Frontier : Degrees'[v] = Degrees[v]
  PROVE  HKInv'
<1>1. \A j : \A S \in SUBSET HKVerts : HK!InCore(j, S)' <=> HK!InCore(j, S)
  BY DEF HK!InCore, HK!Induced, HK!Members
<1>2. \A v \in HKVerts \ Frontier : HyperCore(v, Degrees[v])' <=> HyperCore(v, Degrees[v])
  BY <1>1 DEF HyperCore
<1>3. \A C : HyperBegun(C)' <=> HyperBegun(C)
  BY <1>1 DEF HyperBegun
<1>4. HyperPeeled'
  BY <1>1, <1>2, <1>3 DEF HKInv, HyperPeeled
<1> QED BY <1>4 DEF HKInv, HyperFinished

\* With all vertices in, each has its degree and the whole hypergraph is a 0-core.
LEMMA InitHKInv == HK!InputsOK /\ HK!Init => HKInv
<1> SUFFICES ASSUME HK!InputsOK, HK!Init PROVE HKInv
  OBVIOUS
<1>1. /\ GA \in HKGraphs /\ stage = "filter" /\ todo = {} /\ DOMAIN regs = {} /\ Frontier = HKVerts /\ coreK = 1
      /\ Degrees = [v \in HKVerts |-> HK!Cardinality(HK!OutOf({v}))] /\ Claimed = [h \in HKHyperedges |-> 0]
  BY DEF HK!Init, HK!NoCall
<1>2. ASSUME NEW v \in HKVerts
      PROVE  /\ Degrees[v] = Cardinality(Around(v)) /\ Around(v) \in SUBSET HKHyperedges
             /\ Degrees[v] \in Nat /\ Degrees[v] <= NH
  <2>1. TwoWay(GA) /\ IsFiniteSet(HKHyperedges)
    BY <1>1, HKInputs DEF TwoWay
  <2>2. HK!OutOf({v}) = EdgesTo(GA, v, HKHyperedges)
    <3>1. \A e \in GA : e[1] = v => e[2] \in HKHyperedges
      BY <1>1, HKInputs, ZenonT(30)
    <3> QED BY <3>1 DEF HK!OutOf, EdgesTo
  <2>3. Cardinality(EdgesTo(GA, v, HKHyperedges)) = Cardinality(OtherEnds(GA, v, HKHyperedges))
    BY <2>1, EdgesByEnds
  <2>4. OtherEnds(GA, v, HKHyperedges) = Around(v)
    <3>1. \A x, y : <<x, y>> \in GA => <<y, x>> \in GA
      BY <2>1 DEF TwoWay
    <3> QED BY <3>1 DEF Around, OtherEnds
  <2>5. Around(v) \in SUBSET HKHyperedges
    BY DEF Around
  <2>6. Cardinality(Around(v)) \in Nat /\ Cardinality(Around(v)) <= NH
    BY <2>1, <2>5, FS_Subset, FS_CardinalityType DEF NH
  <2>7. Degrees[v] = HK!Cardinality(HK!OutOf({v}))
    BY <1>1
  <2>8. HK!Cardinality(HK!OutOf({v})) = Cardinality(HK!OutOf({v}))
    BY HKInputs
  <2>9. Degrees[v] = Cardinality(Around(v))
    BY <2>2, <2>3, <2>4, <2>7, <2>8
  <2> QED BY <2>5, <2>6, <2>9
<1>3. HKType
  <2>1. Degrees \in [HKVerts -> Int]
    <3>1. Degrees = [v \in HKVerts |-> Degrees[v]]
      BY <1>1
    <3> QED BY <1>2, <3>1
  <2>2. Claimed \in [HKHyperedges -> {0, 1}]
    BY <1>1
  <2>3. /\ GA \in HKGraphs /\ stage = "filter" /\ todo = {} /\ DOMAIN regs = {} /\ Frontier = HKVerts /\ coreK = 1
        /\ NH \in Nat
    BY <1>1, HKInputs
  <2> QED BY <1>2, <2>1, <2>2, <2>3 DEF HKType
<1>4. Claims
  BY <1>1 DEF Claims, HK!Members
<1>5. Owing
  <2>1. \A v : Owed(v) = {} /\ Cardinality({}) = 0
    BY <1>1, FS_EmptySet DEF Owed, Pending
  <2>2. \A v : Whole(v) = Around(v)
    BY <1>1 DEF Whole, Around
  <2>3. \A v \in HKVerts : Degrees[v] = Cardinality(Whole(v)) + Cardinality(Owed(v)) /\ Degrees[v] \in Nat
    <3> TAKE v \in HKVerts
    <3>1. Degrees[v] = Cardinality(Whole(v)) /\ Degrees[v] \in Nat
      BY <1>2, <2>2
    <3>2. Cardinality(Owed(v)) = 0
      BY <2>1
    <3> QED BY <3>1, <3>2
  <2>4. \A v \in Frontier : Degrees[v] = Cardinality(Whole(v)) + Cardinality(Owed(v)) /\ Degrees[v] \in Nat
    BY <1>1, <2>3
  <2> QED
    <3> DEFINE sum(v) == Cardinality(Whole(v)) + Cardinality(Owed(v))
    <3>1. \A v \in Frontier : Degrees[v] = sum(v) /\ Degrees[v] \in Nat
      BY <2>4
    <3> HIDE DEF sum
    <3>2. \A v \in Frontier : Degrees[v] >= sum(v) /\ (Degrees[v] >= coreK => Degrees[v] = sum(v))
      BY <3>1
    <3> QED BY <3>2 DEF Owing, sum
<1>6. HyperPeeled
  <2>1. HK!InCore(coreK - 1, HKVerts)
    BY <1>1, <1>3, HKFacts DEF HK!InCore
  <2>2. HyperBegun(HKVerts)
    BY <1>1, <2>1, HKInputs DEF HyperBegun
  <2> QED BY <1>1, <2>2 DEF HyperPeeled
<1> QED BY <1>1, <1>3, <1>4, <1>5, <1>6 DEF HKInv, HyperFinished

\* What is taken out is in no set in which every vertex has k whole hyperedges.
LEMMA RemoveKeepsHKInv ==
  ASSUME HK!InputsOK, HKInv, HK!Remove
  PROVE  HKInv'
<1> DEFINE R == HK!ToRemove
<1>1. /\ stage = "filter" /\ stage' = "toH" /\ GA' = GA /\ coreK' = coreK /\ largestCore' = largestCore /\ Claimed' = Claimed
      /\ todo' = HK!OutOf(R) /\ regs' = <<>> /\ DOMAIN regs' = {} /\ out' = {}
      /\ Degrees' = [v \in HKVerts |-> IF v \in R THEN coreK - 1 ELSE Degrees[v]]
      /\ Frontier' = {v \in Frontier : HK!Unsigned(Degrees'[v]) >= coreK}
  BY DEF HK!Remove, HK!Begin
<1>2. /\ HKType /\ Claims /\ Owing /\ HyperPeeled /\ coreK \in 1 .. NH + 1 /\ NH \in Nat /\ Frontier \in SUBSET HKVerts
  BY HKInputs DEF HKInv, HKType
<1>3. /\ \A v \in HKVerts : HK!Unsigned(Degrees[v]) = Degrees[v] /\ Degrees[v] \in Nat
      /\ HK!Unsigned(coreK - 1) = coreK - 1
      /\ \A v : Cardinality(Owed(v)) = 0
      /\ \A v \in Frontier : Degrees[v] >= HK!Induced(v, Frontier)
      /\ R = {v \in Frontier : Degrees[v] < coreK}
  BY <1>1, HKUnsigned, HyperFilterFacts
<1> HIDE DEF R
<1>4. Frontier' = Frontier \ R /\ R \subseteq Frontier /\ R \in SUBSET HKVerts
  <2>1. \A v \in Frontier : HK!Unsigned(Degrees'[v]) >= coreK <=> v \notin R
    <3> TAKE v \in Frontier
    <3>1. v \in HKVerts /\ Degrees'[v] = IF v \in R THEN coreK - 1 ELSE Degrees[v]
      BY <1>1, <1>2
    <3> QED BY <1>2, <1>3, <3>1
  <2> QED BY <1>1, <1>2, <1>3, <2>1
<1>5. HKType'
  <2>1. \A v \in HKVerts : Degrees'[v] \in Int /\ Degrees'[v] <= NH
    BY <1>1, <1>2 DEF HKType
  <2>2. Degrees' \in [HKVerts -> Int]
    BY <1>1, <2>1
  <2>3. \A e \in todo' : e \in GA /\ e[1] \in HKVerts \ Frontier'
    BY <1>1, <1>4 DEF HK!OutOf
  <2> QED BY <1>1, <1>2, <1>4, <2>1, <2>2, <2>3 DEF HKType, NH
<1>6. Claims'
  <2>1. ASSUME NEW h \in HKHyperedges
        PROVE  /\ Claimed[h] = 1 => ~(HK!Members(h) \subseteq Frontier')
               /\ Claimed[h] = 0 => HK!Members(h) \subseteq Frontier' \/ \E e \in todo' : e[2] = h
    <3>1. Claimed[h] = 0 => HK!Members(h) \subseteq Frontier
      BY <1>1, <1>2 DEF Claims
    <3>2. Claimed[h] = 1 => ~(HK!Members(h) \subseteq Frontier)
      BY <1>2 DEF Claims
    <3>3. ASSUME NEW v \in HK!Members(h), v \in R PROVE \E e \in todo' : e[2] = h
      <4>1. <<h, v>> \in GA
        BY DEF HK!Members
      <4>2. <<v, h>> \in GA
        <5>1. \A e \in GA : <<e[2], e[1]>> \in GA
          BY <1>2, HKInputs DEF HKType
        <5> QED BY <4>1, <5>1
      <4>3. <<v, h>> \in todo' /\ <<v, h>>[2] = h
        BY <1>1, <3>3, <4>2 DEF HK!OutOf
      <4> QED BY <4>3
    <3> QED BY <1>4, <3>1, <3>2, <3>3
  <2>2. \A h : HK!Members(h)' = HK!Members(h)
    BY <1>1 DEF HK!Members
  <2> QED BY <1>1, <2>1, <2>2 DEF Claims
<1>7. Owing'
  <2>1. \A v : Whole(v)' = Whole(v) /\ Owed(v)' = {} /\ Cardinality({}) = 0
    BY <1>1, FS_EmptySet DEF Whole, Around, Owed
  <2>2. \A v \in Frontier' : v \in Frontier /\ Degrees'[v] = Degrees[v]
    BY <1>1, <1>2, <1>4
  <2> QED BY <1>1, <1>2, <1>3, <2>1, <2>2 DEF Owing
<1>8. \A j : \A S \in SUBSET HKVerts : HK!InCore(j, S)' <=> HK!InCore(j, S)
  BY <1>1 DEF HK!InCore, HK!Induced, HK!Members
<1>9. ASSUME NEW S \in SUBSET HKVerts, HK!InCore(coreK, S) PROVE S \subseteq Frontier'
  <2>1. S \subseteq Frontier
    BY <1>1, <1>2, <1>9 DEF HyperPeeled
  <2> SUFFICES ASSUME NEW v \in S, v \in R PROVE FALSE
    BY <1>4, <2>1
  <2>2. HK!Induced(v, S) >= coreK /\ HK!Induced(v, S) \in Nat
    BY <1>2, <1>9, HKFacts DEF HK!InCore
  <2>3. HK!Induced(v, S) <= HK!Induced(v, Frontier) /\ HK!Induced(v, Frontier) \in Nat
    BY <1>2, <2>1, HKFacts
  <2>4. Degrees[v] >= HK!Induced(v, Frontier) /\ Degrees[v] < coreK /\ Degrees[v] \in Nat
    BY <1>2, <1>3, <2>1
  <2> QED BY <1>2, <2>2, <2>3, <2>4
<1>10. PICK C : HyperBegun(C)
  BY <1>1, <1>2 DEF HyperPeeled
<1>11. HyperBegun(C)'
  <2>1. C \in SUBSET HKVerts /\ Frontier \subseteq C /\ C # {} /\ HK!InCore(coreK - 1, C) /\ \A v \in C \ Frontier : Degrees[v] = coreK - 1
    BY <1>10 DEF HyperBegun
  <2>2. \A v \in C \ Frontier' : Degrees'[v] = coreK - 1
    BY <1>1, <1>4, <2>1
  <2> QED BY <1>1, <1>4, <1>8, <2>1, <2>2 DEF HyperBegun
<1>12. ASSUME NEW v \in HKVerts \ Frontier' PROVE HyperCore(v, Degrees'[v]) /\ Degrees'[v] \in 0 .. coreK - 1
  <2>1. CASE v \in R
    <3>1. Degrees'[v] = coreK - 1 /\ v \in C /\ C \in SUBSET HKVerts /\ HK!InCore(coreK - 1, C) /\ (coreK - 1) + 1 = coreK
      BY <1>1, <1>2, <1>4, <1>10, <2>1 DEF HyperBegun
    <3>2. ~ \E S \in SUBSET HKVerts : v \in S /\ HK!InCore(coreK, S)
      BY <1>4, <1>9, <2>1
    <3> QED BY <1>2, <3>1, <3>2 DEF HyperCore
  <2>2. CASE v \notin R
    BY <1>1, <1>2, <1>4, <2>2 DEF HyperPeeled
  <2> QED BY <2>1, <2>2
<1>13. \A v \in HKVerts \ Frontier' : HyperCore(v, Degrees[v])' /\ Degrees'[v] \in 0 .. coreK - 1
  BY <1>8, <1>12 DEF HyperCore
<1>14. HyperPeeled'
  BY <1>1, <1>8, <1>9, <1>11, <1>13 DEF HyperPeeled
<1> QED BY <1>1, <1>5, <1>6, <1>7, <1>14 DEF HKInv, HyperFinished

\* Who passes over a hyperedge saw it claimed.
LEMMA TestFlagKeepsHKInv ==
  ASSUME HK!InputsOK, HKInv, NEW e \in todo, HK!TestFlag(e)
  PROVE  HKInv'
<1>1. /\ stage = "toH" /\ stage' = stage /\ GA' = GA /\ Frontier' = Frontier
      /\ coreK' = coreK /\ Degrees' = Degrees /\ Claimed' = Claimed /\ largestCore' = largestCore
      /\ todo' = todo \ {e} /\ out' = out
      /\ DOMAIN regs' = IF Claimed[e[2]] = 0 THEN DOMAIN regs \cup {e} ELSE DOMAIN regs
  BY DEF HK!TestFlag, HK!Enter, HK!Pass, HK!mainVars, HK!coreVars
<1>2. HKType /\ Claims /\ Owing
  BY DEF HKInv
<1>3. HKType'
  BY <1>1, <1>2 DEF HKType
<1>4. Claims'
  <2>1. \A h : HK!Members(h)' = HK!Members(h)
    BY <1>1 DEF HK!Members
  <2>2. \A h \in HKHyperedges : Claimed[h] = 0 /\ (\E x \in todo \cup DOMAIN regs : x[2] = h)
                                  => \E x \in todo' \cup DOMAIN regs' : x[2] = h
    BY <1>1
  <2> QED BY <1>1, <1>2, <2>1, <2>2 DEF Claims
<1>5. Owing'
  <2>1. \A v : Whole(v)' = Whole(v) /\ Owed(v)' = Owed(v)
    BY <1>1 DEF Whole, Around, Owed
  <2> QED BY <1>1, <1>2, <2>1 DEF Owing
<1> QED BY <1>1, <1>3, <1>4, <1>5, HKQuiet

\* The CAS moves a hyperedge from the whole to the claimed ones, once.
LEMMA ClaimKeepsHKInv ==
  ASSUME HK!InputsOK, HKInv, NEW e \in DOMAIN regs, HK!Claim(e)
  PROVE  HKInv'
<1> DEFINE h == e[2]
<1>1. /\ stage = "toH" /\ stage' = stage /\ GA' = GA /\ Frontier' = Frontier
      /\ coreK' = coreK /\ Degrees' = Degrees /\ largestCore' = largestCore
      /\ Claimed' = [Claimed EXCEPT ![h] = 1]
      /\ todo' = todo /\ DOMAIN regs' = DOMAIN regs \ {e}
      /\ out' = IF Claimed[h] = 0 THEN out \cup {h} ELSE out
  BY DEF HK!Claim, HK!Answer, HK!mainVars
<1>2. HKType /\ Claims /\ Owing
  BY DEF HKInv
<1>3. /\ e \in GA /\ e[1] \in HKVerts \ Frontier /\ h \in HKHyperedges /\ <<h, e[1]>> \in GA
      /\ \A x \in out : x \in HKHyperedges /\ Claimed[x] = 1
  <2>1. e \in GA /\ e[1] \in HKVerts \ Frontier /\ \A x \in out : x \in HKHyperedges /\ Claimed[x] = 1
    BY <1>1, <1>2 DEF HKType
  <2> QED BY <1>2, <2>1, HKInputs DEF HKType
<1> HIDE DEF h
<1>4. \A x \in HKHyperedges : Claimed'[x] = IF x = h THEN 1 ELSE Claimed[x]
  BY <1>1, <1>2 DEF HKType
<1>5. HKType'
  <2>1. Claimed' \in [HKHyperedges -> {0, 1}]
    BY <1>1, <1>2 DEF HKType
  <2>2. \A x \in out' : x \in HKHyperedges /\ Claimed'[x] = 1
    BY <1>1, <1>3, <1>4
  <2> QED BY <1>1, <1>2, <2>1, <2>2 DEF HKType
<1>6. Claims'
  <2>1. \A x : HK!Members(x)' = HK!Members(x)
    BY <1>1 DEF HK!Members
  <2>2. ~(HK!Members(h) \subseteq Frontier)
    BY <1>3 DEF HK!Members
  <2>3. \A x \in HKHyperedges : x # h /\ (\E y \in todo \cup DOMAIN regs : y[2] = x) => \E y \in todo' \cup DOMAIN regs' : y[2] = x
    BY <1>1 DEF h
  <2> QED BY <1>1, <1>2, <1>4, <2>1, <2>2, <2>3 DEF Claims
<1>7. Owing'
  <2>1. ASSUME NEW v
        PROVE  Cardinality(Whole(v)') + Cardinality(Owed(v)') = Cardinality(Whole(v)) + Cardinality(Owed(v))
    <3>1. Owed(v) = Around(v) \cap out /\ Owed(v)' = Around(v) \cap out' /\ Around(v)' = Around(v)
      BY <1>1 DEF Owed, Around
    <3>2. /\ IsFiniteSet(Whole(v)) /\ IsFiniteSet(Owed(v))
          /\ Cardinality(Whole(v)) \in Nat /\ Cardinality(Owed(v)) \in Nat
      BY <1>2, HKFacts
    <3>3. CASE h \in Around(v) /\ Claimed[h] = 0
      <4>1. h \in Whole(v) /\ h \notin Owed(v)
        BY <1>3, <3>1, <3>3 DEF Whole
      <4>2. Whole(v)' = Whole(v) \ {h}
        BY <1>4, <3>1 DEF Whole, Around
      <4>3. Owed(v)' = Owed(v) \cup {h}
        BY <1>1, <3>1, <3>3
      <4>4. Cardinality(Whole(v) \ {h}) = Cardinality(Whole(v)) - 1
        BY <3>2, <4>1, FS_RemoveElement
      <4>5. Cardinality(Owed(v) \cup {h}) = Cardinality(Owed(v)) + 1
        BY <3>2, <4>1, FS_AddElement
      <4> QED BY <3>2, <4>2, <4>3, <4>4, <4>5
    <3>4. CASE h \notin Around(v) \/ Claimed[h] # 0
      <4>1. Whole(v)' = Whole(v)
        <5>1. \A x \in Around(v) : Claimed'[x] = 0 <=> Claimed[x] = 0
          BY <1>4, <3>4 DEF Around
        <5> QED BY <3>1, <5>1 DEF Whole
      <4>2. Owed(v)' = Owed(v)
        BY <1>1, <3>1, <3>4
      <4> QED BY <4>1, <4>2
    <3> QED BY <3>3, <3>4
  <2> QED BY <1>1, <1>2, <2>1 DEF Owing
<1> QED BY <1>1, <1>5, <1>6, <1>7, HKQuiet

\* Each claimed hyperedge owes one decrement to each of its vertices.
LEMMA PropKeepsHKInv ==
  ASSUME HK!InputsOK, HKInv, HK!HyperedgeProp
  PROVE  HKInv'
<1>1. /\ stage = "toH" /\ stage' = "toV" /\ GA' = GA /\ Frontier' = Frontier
      /\ coreK' = coreK /\ Degrees' = Degrees /\ Claimed' = Claimed /\ largestCore' = largestCore
      /\ todo' = HK!OutOf(out) /\ DOMAIN regs' = {} /\ todo = {} /\ DOMAIN regs = {}
  BY DEF HK!HyperedgeProp, HK!Returned, HK!Begin, HK!coreVars
<1>2. HKType /\ Claims /\ Owing /\ out \in SUBSET HKHyperedges
  BY <1>1 DEF HKInv, HKType
<1>3. HKType'
  <2>1. \A e \in todo' : e \in GA /\ e[1] \in HKHyperedges
    BY <1>1, <1>2 DEF HK!OutOf
  <2> QED BY <1>1, <1>2, <2>1 DEF HKType
<1>4. Claims'
  <2>1. \A h : HK!Members(h)' = HK!Members(h)
    BY <1>1 DEF HK!Members
  <2> QED BY <1>1, <1>2, <2>1 DEF Claims
<1>5. ASSUME NEW v PROVE Whole(v)' = Whole(v) /\ Cardinality(Owed(v)') = Cardinality(Owed(v))
  <2>1. TwoWay(GA) /\ IsFiniteSet(out)
    BY <1>2, HKInputs, FS_Subset DEF HKType, TwoWay
  <2>2. Cardinality(EdgesFrom(GA, out, v)) = Cardinality(OtherEnds(GA, v, out))
    BY <2>1, EdgesByEnds
  <2>3. \A x, y : <<x, y>> \in GA => <<y, x>> \in GA
    BY <2>1 DEF TwoWay
  <2>4. OtherEnds(GA, v, out) = Owed(v)
    BY <1>1, <1>2, <2>3 DEF Owed, Around, OtherEnds
  <2>5. Owed(v)' = EdgesFrom(GA, out, v)
    BY <1>1 DEF Owed, Pending, HK!OutOf, EdgesFrom
  <2>6. Whole(v)' = Whole(v)
    BY <1>1 DEF Whole, Around
  <2> QED BY <2>2, <2>4, <2>5, <2>6
<1>6. Owing'
  BY <1>1, <1>2, <1>5 DEF Owing
<1> QED BY <1>1, <1>3, <1>4, <1>6, HKQuiet

\* cond passes over those that are out, and over decrements below k only.
LEMMA TestDegreeKeepsHKInv ==
  ASSUME HK!InputsOK, HKInv, NEW e \in todo, HK!TestDegree(e)
  PROVE  HKInv'
<1>1. /\ stage = "toV" /\ stage' = stage /\ GA' = GA /\ Frontier' = Frontier
      /\ coreK' = coreK /\ Degrees' = Degrees /\ Claimed' = Claimed /\ largestCore' = largestCore
      /\ todo' = todo \ {e}
      /\ DOMAIN regs' = IF HK!Unsigned(Degrees[e[2]]) >= coreK THEN DOMAIN regs \cup {e} ELSE DOMAIN regs
  BY DEF HK!TestDegree, HK!Enter, HK!Pass, HK!mainVars, HK!coreVars
<1>2. HKType /\ Claims /\ Owing /\ HyperPeeled /\ e \in GA /\ e[1] \in HKHyperedges /\ e \notin DOMAIN regs
  BY <1>1 DEF HKInv, HKType
<1>3. e[2] \in HKVerts /\ HK!Unsigned(Degrees[e[2]]) = Degrees[e[2]] /\ Degrees[e[2]] \in Nat /\ coreK \in Nat
  <2>1. e[2] \in HKVerts
    BY <1>2, HKInputs DEF HKType
  <2> QED BY <1>1, <2>1, HKUnsigned
<1>4. Degrees[e[2]] >= coreK => e[2] \in Frontier
  BY <1>1, <1>2, <1>3 DEF HyperPeeled
<1>5. HKType'
  BY <1>1, <1>2, <1>3, <1>4 DEF HKType
<1>6. Claims'
  <2>1. \A h : HK!Members(h)' = HK!Members(h)
    BY <1>1 DEF HK!Members
  <2> QED BY <1>1, <1>2, <2>1 DEF Claims
<1>7. Owing'
  <2>1. ASSUME NEW v \in Frontier
        PROVE  /\ Degrees[v] >= Cardinality(Whole(v)') + Cardinality(Owed(v)')
               /\ Degrees[v] >= coreK => Degrees[v] = Cardinality(Whole(v)') + Cardinality(Owed(v)')
    <3>1. Whole(v)' = Whole(v) /\ Owed(v) = Pending(v) /\ Owed(v)' = Pending(v)'
      BY <1>1 DEF Whole, Around, Owed
    <3>2. /\ Degrees[v] >= Cardinality(Whole(v)) + Cardinality(Owed(v))
          /\ Degrees[v] >= coreK => Degrees[v] = Cardinality(Whole(v)) + Cardinality(Owed(v))
      BY <1>1, <1>2 DEF Owing
    <3>3. CASE v # e[2] \/ Degrees[e[2]] >= coreK
      <4>1. Pending(v)' = Pending(v)
        BY <1>1, <1>3, <3>3 DEF Pending
      <4> QED BY <3>1, <3>2, <4>1
    <3>4. CASE v = e[2] /\ ~(Degrees[e[2]] >= coreK)
      <4>1. Pending(v)' = Pending(v) \ {e} /\ e \in Pending(v)
        BY <1>1, <1>2, <1>3, <3>4 DEF Pending
      <4>2. /\ IsFiniteSet(Pending(v)) /\ Cardinality(Whole(v)) \in Nat /\ Cardinality(Owed(v)) \in Nat
        BY <1>2, HKFacts
      <4>3. Cardinality(Pending(v) \ {e}) = Cardinality(Pending(v)) - 1
        BY <4>1, <4>2, FS_RemoveElement
      <4>4. Cardinality(Owed(v)') = Cardinality(Owed(v)) - 1
        BY <3>1, <4>1, <4>3
      <4> QED BY <1>3, <3>1, <3>2, <3>4, <4>2, <4>4
    <3> QED BY <3>3, <3>4
  <2> QED BY <1>1, <2>1 DEF Owing
<1> QED BY <1>1, <1>5, <1>6, <1>7, HKQuiet

\* Each decrement is one that is owed.
LEMMA LowerKeepsHKInv ==
  ASSUME HK!InputsOK, HKInv, NEW e \in DOMAIN regs, HK!Lower(e)
  PROVE  HKInv'
<1>1. /\ stage = "toV" /\ stage' = stage /\ GA' = GA /\ Frontier' = Frontier
      /\ coreK' = coreK /\ Claimed' = Claimed /\ largestCore' = largestCore
      /\ Degrees' = [Degrees EXCEPT ![e[2]] = @ - 1]
      /\ todo' = todo /\ DOMAIN regs' = DOMAIN regs \ {e}
  BY DEF HK!Lower, HK!Answer, HK!mainVars
<1>2. HKType /\ Claims /\ Owing /\ e \notin todo /\ e[2] \in Frontier /\ e[2] \in HKVerts /\ NH \in Nat
  BY <1>1, HKInputs DEF HKInv, HKType
<1>3. Degrees \in [HKVerts -> Int] /\ coreK \in Int /\ \A v \in HKVerts : Degrees[v] <= NH
  BY <1>2 DEF HKType
<1>4. \A v \in HKVerts : Degrees'[v] = IF v = e[2] THEN Degrees[v] - 1 ELSE Degrees[v]
  BY <1>1, <1>3
<1>5. HKType'
  <2>1. \A v \in HKVerts : Degrees'[v] \in Int /\ Degrees'[v] <= NH
    BY <1>2, <1>3, <1>4
  <2>2. Degrees' \in [HKVerts -> Int]
    BY <1>1, <1>3, <2>1
  <2> QED BY <1>1, <1>2, <2>1, <2>2 DEF HKType
<1>6. Claims'
  <2>1. \A h : HK!Members(h)' = HK!Members(h)
    BY <1>1 DEF HK!Members
  <2> QED BY <1>1, <1>2, <2>1 DEF Claims
<1>7. Owing'
  <2>1. ASSUME NEW v \in Frontier
        PROVE  /\ Degrees'[v] >= Cardinality(Whole(v)') + Cardinality(Owed(v)')
               /\ Degrees'[v] >= coreK => Degrees'[v] = Cardinality(Whole(v)') + Cardinality(Owed(v)')
    <3>1. Whole(v)' = Whole(v) /\ Owed(v) = Pending(v) /\ Owed(v)' = Pending(v)' /\ v \in HKVerts
      BY <1>1, <1>2 DEF Whole, Around, Owed, HKType
    <3>2. /\ Degrees[v] >= Cardinality(Whole(v)) + Cardinality(Owed(v))
          /\ Degrees[v] >= coreK => Degrees[v] = Cardinality(Whole(v)) + Cardinality(Owed(v))
      BY <1>1, <1>2 DEF Owing
    <3>3. CASE v # e[2]
      <4>1. Pending(v)' = Pending(v)
        BY <1>1, <3>3 DEF Pending
      <4> QED BY <1>4, <3>1, <3>2, <3>3, <4>1
    <3>4. CASE v = e[2]
      <4>1. Pending(v)' = Pending(v) \ {e} /\ e \in Pending(v)
        BY <1>1, <1>2, <3>4 DEF Pending
      <4>2. /\ IsFiniteSet(Pending(v)) /\ Cardinality(Whole(v)) \in Nat /\ Cardinality(Owed(v)) \in Nat
        BY <1>2, HKFacts
      <4>3. Cardinality(Pending(v) \ {e}) = Cardinality(Pending(v)) - 1
        BY <4>1, <4>2, FS_RemoveElement
      <4>4. Cardinality(Owed(v)') = Cardinality(Owed(v)) - 1 /\ Degrees'[v] = Degrees[v] - 1 /\ Degrees[v] \in Int
        BY <1>3, <1>4, <3>1, <3>4, <4>1, <4>3
      <4> QED BY <1>3, <3>1, <3>2, <4>2, <4>4
    <3> QED BY <3>3, <3>4
  <2> QED BY <1>1, <2>1 DEF Owing
<1> QED BY <1>1, <1>2, <1>4, <1>5, <1>6, <1>7, HKQuiet

\* After the calls no decrement is owed.
LEMMA ReturnKeepsHKInv ==
  ASSUME HK!InputsOK, HKInv, HK!Return
  PROVE  HKInv'
<1>1. /\ stage = "toV" /\ stage' = "filter" /\ GA' = GA /\ Frontier' = Frontier
      /\ coreK' = coreK /\ Claimed' = Claimed /\ largestCore' = largestCore /\ Degrees' = Degrees
      /\ todo' = todo /\ regs' = regs /\ todo = {} /\ DOMAIN regs = {}
  BY DEF HK!Return, HK!Returned, HK!callVars, HK!coreVars
<1>2. HKType'
  BY <1>1 DEF HKInv, HKType
<1>3. Claims'
  <2>1. \A h : HK!Members(h)' = HK!Members(h)
    BY <1>1 DEF HK!Members
  <2> QED BY <1>1, <2>1 DEF HKInv, Claims
<1>4. Owing'
  <2>1. \A v : Whole(v)' = Whole(v) /\ Owed(v)' = Owed(v)
    BY <1>1 DEF Whole, Around, Owed, Pending
  <2> QED BY <1>1, <2>1 DEF HKInv, Owing
<1> QED BY <1>1, <1>2, <1>3, <1>4, HKQuiet

\* With nothing to remove the frontier is the k-core itself, and round k + 1 begins with it.
LEMMA NextKKeepsHKInv ==
  ASSUME HK!InputsOK, HKInv, HK!NextK
  PROVE  HKInv'
<1>1. /\ stage = "filter" /\ stage' = stage /\ coreK' = coreK + 1 /\ Frontier # {} /\ GA' = GA /\ Frontier' = Frontier
      /\ largestCore' = largestCore /\ Degrees' = Degrees /\ Claimed' = Claimed
      /\ todo' = todo /\ regs' = regs /\ out' = out /\ HK!ToRemove = {}
  BY DEF HK!NextK, HK!callVars, HK!mainVars
<1>2. HKType /\ Claims /\ Owing /\ HyperPeeled /\ NH \in Nat /\ coreK \in 1 .. NH + 1 /\ Frontier \in SUBSET HKVerts
      /\ Degrees \in [HKVerts -> Int]
  BY HKInputs DEF HKInv, HKType
<1>3. \A v \in Frontier : Degrees[v] >= coreK /\ Degrees[v] = HK!Induced(v, Frontier) /\ Degrees[v] <= NH
  <2>1. \A v \in Frontier : ~(Degrees[v] < coreK) /\ Degrees[v] \in Int /\ Degrees[v] <= NH
    BY <1>1, <1>2, HyperFilterFacts DEF HKType
  <2>2. \A v \in Frontier : Degrees[v] >= coreK
    BY <1>2, <2>1
  <2> QED BY <1>1, <2>1, <2>2, HyperFilterFacts
<1>4. HK!InCore(coreK, Frontier) /\ coreK <= NH
  <2>1. HK!InCore(coreK, Frontier)
    <3>1. \A v \in Frontier : HK!Induced(v, Frontier) >= coreK
      BY <1>3
    <3> QED BY <3>1 DEF HK!InCore
  <2> QED BY <1>1, <1>2, <1>3, <2>1
<1>5. HKType'
  BY <1>1, <1>2, <1>4 DEF HKType
<1>6. Claims'
  <2>1. \A h : HK!Members(h)' = HK!Members(h)
    BY <1>1 DEF HK!Members
  <2> QED BY <1>1, <1>2, <2>1 DEF Claims
<1>7. Owing'
  <2>1. \A v : Whole(v)' = Whole(v) /\ Owed(v)' = Owed(v)
    BY <1>1 DEF Whole, Around, Owed, Pending
  <2> QED BY <1>1, <1>2, <1>3, <2>1 DEF Owing
<1>8. \A j : \A S \in SUBSET HKVerts : HK!InCore(j, S)' <=> HK!InCore(j, S)
  BY <1>1 DEF HK!InCore, HK!Induced, HK!Members
<1>9. \A S \in SUBSET HKVerts : HK!InCore(coreK + 1, S) => S \subseteq Frontier
  <2>1. \A S \in SUBSET HKVerts : HK!InCore(coreK + 1, S) => HK!InCore(coreK, S)
    <3>1. coreK \in Int /\ coreK + 1 \in Int /\ coreK <= coreK + 1
      BY <1>2
    <3> QED BY <1>2, <3>1, HyperCoresNest
  <2> QED BY <1>1, <1>2, <2>1 DEF HyperPeeled
<1>10. HyperBegun(Frontier)'
  <2>1. coreK' - 1 = coreK
    BY <1>1, <1>2
  <2> QED BY <1>1, <1>2, <1>4, <1>8, <2>1 DEF HyperBegun
<1>11. \A v \in HKVerts \ Frontier : HyperCore(v, Degrees[v])' /\ Degrees[v] \in 0 .. coreK
  <2>1. \A v \in HKVerts \ Frontier : HyperCore(v, Degrees[v]) /\ Degrees[v] \in 0 .. coreK - 1
    BY <1>1, <1>2 DEF HyperPeeled
  <2>2. \A v \in HKVerts \ Frontier : HyperCore(v, Degrees[v])'
    BY <1>1, <1>8, <2>1 DEF HyperCore
  <2>3. \A v \in HKVerts \ Frontier : Degrees[v] \in 0 .. coreK
    BY <1>2, <2>1
  <2> QED BY <2>2, <2>3
<1>12. HyperPeeled'
  <2>1. \A v \in HKVerts \ Frontier' : Degrees'[v] \in 0 .. coreK' - 1
    <3>1. coreK' - 1 = coreK
      BY <1>1, <1>2
    <3> QED BY <1>1, <1>11, <3>1
  <2> QED BY <1>1, <1>8, <1>9, <1>10, <1>11, <2>1 DEF HyperPeeled
<1> QED BY <1>1, <1>5, <1>6, <1>7, <1>12 DEF HKInv, HyperFinished

\* With an empty frontier the set of the last round was the largest core.
LEMMA LargestKeepsHKInv ==
  ASSUME HK!InputsOK, HKInv, HK!Largest
  PROVE  HKInv'
<1>1. /\ stage = "filter" /\ stage' = "done" /\ largestCore' = coreK - 1 /\ Frontier = {} /\ GA' = GA
      /\ coreK' = coreK /\ Frontier' = Frontier /\ Claimed' = Claimed /\ Degrees' = Degrees
      /\ todo' = todo /\ regs' = regs
  BY DEF HK!Largest, HK!callVars
<1>2. HKType /\ Claims /\ HyperPeeled /\ NH \in Nat /\ coreK \in 1 .. NH + 1
  BY HKInputs DEF HKInv, HKType
<1>3. HKType'
  BY <1>1, <1>2 DEF HKType
<1>4. Claims'
  <2>1. \A h : HK!Members(h)' = HK!Members(h)
    BY <1>1 DEF HK!Members
  <2> QED BY <1>1, <1>2, <2>1 DEF Claims
<1>5. \A j : \A S \in SUBSET HKVerts : HK!InCore(j, S)' <=> HK!InCore(j, S)
  BY <1>1 DEF HK!InCore, HK!Induced, HK!Members
<1>6. \A v \in HKVerts : HyperCore(v, Degrees[v]) /\ Degrees[v] \in 0 .. coreK - 1
  BY <1>1, <1>2 DEF HyperPeeled
<1>7. \A v \in HKVerts : HyperCore(v, Degrees[v])'
  BY <1>1, <1>5, <1>6 DEF HyperCore
<1>8. \A v \in HKVerts : Degrees[v] <= coreK - 1 /\ Degrees[v] \in 0 .. NH
  BY <1>2, <1>6
<1>9. \E v \in HKVerts : Degrees[v] = coreK - 1
  <2>1. PICK C : HyperBegun(C)
    BY <1>1, <1>2 DEF HyperPeeled
  <2> QED BY <1>1, <2>1 DEF HyperBegun
<1> QED BY <1>1, <1>3, <1>4, <1>7, <1>8, <1>9 DEF HKInv, Owing, HyperPeeled, HyperFinished

\* So every step keeps it.
LEMMA HKInvKept == HK!InputsOK /\ HKInv /\ [HK!Next]_(HK!vars) => HKInv'
<1> SUFFICES ASSUME HK!InputsOK, HKInv, [HK!Next]_(HK!vars) PROVE HKInv'
  OBVIOUS
<1>1. CASE UNCHANGED HK!vars
  <2>1. /\ stage' = stage /\ GA' = GA /\ Frontier' = Frontier
        /\ coreK' = coreK /\ Claimed' = Claimed /\ largestCore' = largestCore /\ Degrees' = Degrees
        /\ todo' = todo /\ regs' = regs /\ out' = out
    BY <1>1 DEF HK!vars, HK!mainVars, HK!callVars, HK!coreVars
  <2>2. HKType'
    BY <2>1 DEF HKInv, HKType
  <2>3. \A h : HK!Members(h)' = HK!Members(h)
    BY <2>1 DEF HK!Members
  <2>4. Claims'
    BY <2>1, <2>3 DEF HKInv, Claims
  <2>5. Owing'
    <3>1. \A v : Whole(v)' = Whole(v) /\ Owed(v)' = Owed(v)
      BY <2>1 DEF Whole, Around, Owed, Pending
    <3> QED BY <2>1, <3>1 DEF HKInv, Owing
  <2>6. CASE stage # "done"
    BY <2>1, <2>2, <2>4, <2>5, <2>6, HKQuiet
  <2>7. CASE stage = "done"
    <3>1. \A j : \A S \in SUBSET HKVerts : HK!InCore(j, S)' <=> HK!InCore(j, S)
      BY <2>1 DEF HK!InCore, HK!Induced, HK!Members
    <3>2. \A v \in HKVerts : HyperCore(v, Degrees[v])' <=> HyperCore(v, Degrees[v])
      BY <2>1, <3>1 DEF HyperCore
    <3> QED BY <2>1, <2>2, <2>4, <2>5, <2>7, <3>2 DEF HKInv, HyperPeeled, HyperFinished
  <2> QED BY <2>6, <2>7
<1>2. CASE \E e \in todo : HK!TestFlag(e) \/ HK!TestDegree(e)
  BY <1>2, TestFlagKeepsHKInv, TestDegreeKeepsHKInv
<1>3. CASE \E e \in DOMAIN regs : HK!Claim(e) \/ HK!Lower(e)
  BY <1>3, ClaimKeepsHKInv, LowerKeepsHKInv
<1> QED BY <1>1, <1>2, <1>3, RemoveKeepsHKInv, PropKeepsHKInv, ReturnKeepsHKInv, NextKKeepsHKInv, LargestKeepsHKInv
        DEF HK!Next

\* Between two rounds a vertex still in has at least its degree among those still in, and
\* exactly that when it stays: for every symmetric hypergraph.
THEOREM HyperDegreesAreAlwaysInduced == ASSUME HK!InputsOK PROVE HK!Spec => []HK!DegreesAreInduced
<1>1. HK!InputsOK /\ HKInv => HK!DegreesAreInduced
  BY HyperFilterFacts DEF HK!DegreesAreInduced
<1> QED BY <1>1, InitHKInv, HKInvKept, PTL DEF HK!Spec

\* HyperKCore ends with every vertex's core number and the largest of them.
THEOREM HyperCoresAreAlwaysRight == ASSUME HK!InputsOK PROVE HK!Spec => []HK!CoresAreRight
<1>1. HK!InputsOK /\ HKInv => HK!CoresAreRight
  <2> SUFFICES ASSUME HK!InputsOK, HKInv, stage = "done" PROVE HK!CoresAreRight
    BY DEF HK!CoresAreRight, HK!Done
  <2>1. \A v \in HKVerts : HyperCore(v, Degrees[v]) /\ Degrees[v] \in 0 .. NH
    BY DEF HKInv, HyperFinished
  <2>2. \A v \in HKVerts : HK!CoreNumber(v) = Degrees[v]
    BY <2>1, HyperCoreNumberIs DEF HKInv
  <2> QED BY <2>2 DEF HK!CoresAreRight, HKInv, HyperFinished
<1> QED BY <1>1, InitHKInv, HKInvKept, PTL DEF HK!Spec
-----------------------------------------------------------------------------
(* HyperBPath, for every finite hypergraph and every interleaving of every *)
(* choice of traversals.  A hyperedge holds minus the number of its        *)
(* in-edges not yet counted: those whose source is not visited, or is of   *)
(* the round under way and its edge not taken or not answered.  So it is   *)
(* passed by the edge that leaves none, once; and the rounds are the steps *)
(* of the recursive definition, of which each but the last adds a vertex.  *)

\* The hyperedges all of whose in-vertices are in S, and where they lead.
IntoIn(G, h) == {e[1] : e \in {e \in G : e[2] = h}}
FedBy(G, S) == {h \in BPHyperedges : IntoIn(G, h) # {} /\ IntoIn(G, h) \subseteq S}
LeadsOn(G, S) == {e[2] : e \in {e \in G : e[1] \in FedBy(G, S)}}

BallIn(G, N) ==
  LET Rows[j \in 0 .. N] == IF j = 0 THEN {start} ELSE Rows[j - 1] \cup LeadsOn(G, Rows[j - 1])
  IN Rows

BPBalls(G, N, C) == /\ C[0] = {start}
                    /\ \A j \in 0 .. N - 1 : C[j + 1] = C[j] \cup LeadsOn(G, C[j])

Earlier(C, i) == IF i = 0 THEN {} ELSE C[i - 1]

InFlight == todo \cup DOMAIN regs

\* The in-edges of h not counted yet, when the counted ones come from K.
Uncounted(K, h) == {e \in GA : e[2] = h /\ (e[1] \notin K \/ e \in InFlight)}

Counts(K) == \A h \in BPHyperedges :
  IF Uncounted(K, h) = {} THEN Parents[h] \in Nat ELSE Parents[h] = -Cardinality(Uncounted(K, h))

Begotten == \A v \in BP!Visited \ {start} :
  <<<<1, Parents[v]>>, v>> \in GA /\ IntoIn(GA, <<1, Parents[v]>>) \subseteq BP!Visited

BPType == /\ GA \in BPGraphs
          /\ stage \in {"loop", "toH", "toV", "done"}
          /\ Parents \in [BPVerts \cup BPHyperedges -> Int]
          /\ todo \cap DOMAIN regs = {}
          /\ stage \in {"loop", "done"} => InFlight = {}

\* After i rounds; while the hyperedges, and then the vertices, of the next are found;
BPLoop(C, i) == /\ Counts(Earlier(C, i))
                /\ BP!Visited = C[i] /\ Frontier = C[i] \ Earlier(C, i)

BPToH(C, i) == /\ Counts(C[i])
               /\ BP!Visited = C[i] /\ Frontier = C[i] \ Earlier(C, i)
               /\ \A e \in InFlight : e \in GA /\ e[1] \in Frontier /\ e[2] \in BPHyperedges
               /\ out = {h \in BPHyperedges : /\ Uncounted(C[i], h) = {} /\ IntoIn(GA, h) # {}
                                              /\ h \notin FedBy(GA, Earlier(C, i))}

BPToV(C, i) == /\ Counts(C[i])
               /\ BP!Visited = C[i] \cup out /\ out \cap C[i] = {}
               /\ Frontier = FedBy(GA, C[i]) \ FedBy(GA, Earlier(C, i))
               /\ \A e \in InFlight : e \in GA /\ e[1] \in Frontier
               /\ \A e \in GA : e[1] \in Frontier => e \in InFlight \/ e[2] \in BP!Visited
               /\ out \subseteq LeadsOn(GA, C[i])

\* and at the end.
BPDone(C, i) == Counts(C[i]) /\ BP!Visited = C[i] /\ C[Cardinality(BPVerts)] = C[i]

BPState(C, i) == /\ BPType /\ Begotten
                 /\ BPBalls(GA, Cardinality(BPVerts), C)
                 /\ i \in Nat /\ i + 1 <= Cardinality(C[i]) /\ i + 1 <= Cardinality(BPVerts)
                 /\ stage = "loop" => BPLoop(C, i)
                 /\ stage = "toH" => BPToH(C, i)
                 /\ stage = "toV" => BPToV(C, i)
                 /\ stage = "done" => BPDone(C, i)

BPInv == \E C, i : C = BallIn(GA, Cardinality(BPVerts)) /\ BPState(C, i)

LEMMA BPBallsGrow == ASSUME NEW G, NEW N \in Nat PROVE BPBalls(G, N, BallIn(G, N))
<1> DEFINE Out(S) == S \cup LeadsOn(G, S)
           Table(g, j) == g = [i \in 0 .. j |-> IF i = 0 THEN {start} ELSE Out(g[i - 1])]
           Upto == {j \in Nat : \E g : Table(g, j)}
           C == BallIn(G, N)
<1>1. 0 \in Upto
  <2>1. Table([i \in 0 .. 0 |-> {start}], 0)
    OBVIOUS
  <2> QED BY <2>1
<1>2. ASSUME NEW j \in Nat, j \in Upto PROVE j + 1 \in Upto
  <2> SUFFICES \E g : Table(g, j + 1)
    OBVIOUS
  <2>1. PICK g : Table(g, j)
    BY <1>2
  <2> DEFINE h == [i \in 0 .. j + 1 |-> IF i = 0 THEN {start} ELSE Out(g[i - 1])]
  <2> HIDE DEF Out
  <2>2. ASSUME NEW i \in 0 .. j + 1, i # 0 PROVE h[i - 1] = g[i - 1]
    <3>1. i - 1 \in 0 .. j /\ i - 1 \in 0 .. j + 1
      BY <2>2
    <3> QED BY <2>1, <3>1
  <2>3. h = [i \in 0 .. j + 1 |-> IF i = 0 THEN {start} ELSE Out(h[i - 1])]
    BY <2>2
  <2> HIDE DEF h
  <2>4. Table(h, j + 1)
    BY <2>3
  <2> QED BY <2>4
<1>3. \E g : Table(g, N)
  <2> HIDE DEF Upto
  <2>1. N \in Upto
    BY <1>1, <1>2, SetInduction
  <2> QED BY <2>1 DEF Upto
<1>4. Table(C, N)
  BY <1>3 DEF BallIn
<1> HIDE DEF Out, C
<1>5. \A i \in 0 .. N : C[i] = IF i = 0 THEN {start} ELSE Out(C[i - 1])
  BY <1>4
<1>6. ASSUME NEW j \in 0 .. N - 1 PROVE C[j + 1] = Out(C[j])
  <2>1. j + 1 \in 0 .. N /\ j + 1 # 0 /\ (j + 1) - 1 = j
    OBVIOUS
  <2> QED BY <1>5, <2>1
<1>7. C[0] = {start}
  <2>1. 0 \in 0 .. N
    OBVIOUS
  <2> QED BY <1>5, <2>1
<1> QED BY <1>6, <1>7 DEF BPBalls, Out, C

\* What the inputs give.
LEMMA BPInputs ==
  ASSUME BP!InputsOK
  PROVE  /\ start \in BPVerts /\ UintMax \in Nat /\ start[2] # UintMax
         /\ BPVerts \cap BPHyperedges = {}
         /\ IsFiniteSet(BPVerts) /\ Cardinality(BPVerts) \in Nat
         /\ \A x \in BPVerts \cup BPHyperedges : x[2] \in Nat /\ x[2] # UintMax
         /\ \A h \in BPHyperedges : h = <<1, h[2]>>
         /\ \A G \in BPGraphs : /\ IsFiniteSet(G)
                                /\ \A e \in G : /\ e = <<e[1], e[2]>>
                                                /\ \/ e[1] \in BPVerts /\ e[2] \in BPHyperedges
                                                   \/ e[1] \in BPHyperedges /\ e[2] \in BPVerts
<1>1. /\ start \in BPVerts /\ UintMax \in Nat
      /\ BPVerts \subseteq {0} \X Nat /\ BPHyperedges \subseteq {1} \X Nat
      /\ \A x \in BPVerts \cup BPHyperedges : x[2] # UintMax
      /\ \A G \in BPGraphs : G \subseteq (BPVerts \X BPHyperedges) \cup (BPHyperedges \X BPVerts)
  BY DEF BP!InputsOK
<1>2. IsFiniteSet(BPVerts) /\ \A G \in BPGraphs : IsFiniteSet(G)
  BY DEF BP!InputsOK, BP!IsFiniteSet, IsFiniteSet
<1>3. Cardinality(BPVerts) \in Nat
  BY <1>2, FS_CardinalityType
<1>4. \A x \in BPVerts \cup BPHyperedges : x[2] \in Nat
  BY <1>1
<1>5. \A h \in BPHyperedges : h = <<1, h[2]>>
  BY <1>1
<1>6. BPVerts \cap BPHyperedges = {}
  BY <1>1
<1>7. ASSUME NEW G \in BPGraphs, NEW e \in G
      PROVE  /\ e = <<e[1], e[2]>>
             /\ \/ e[1] \in BPVerts /\ e[2] \in BPHyperedges
                \/ e[1] \in BPHyperedges /\ e[2] \in BPVerts
  BY <1>1
<1> QED BY <1>1, <1>2, <1>3, <1>4, <1>5, <1>6, <1>7

\* The balls nest, and once two are equal so are all that follow.
LEMMA BPBallFacts ==
  ASSUME BP!InputsOK, NEW G \in BPGraphs, NEW N \in Nat, NEW C, BPBalls(G, N, C)
  PROVE  /\ \A j \in 0 .. N : C[j] \subseteq BPVerts /\ start \in C[j]
         /\ \A j \in 0 .. N : Earlier(C, j) \subseteq C[j] /\ LeadsOn(G, Earlier(C, j)) \subseteq C[j]
         /\ \A j \in 0 .. N - 1 : C[j + 1] = C[j] \cup LeadsOn(G, C[j])
         /\ \A j \in 0 .. N - 1 : LeadsOn(G, C[j]) \subseteq C[j] => C[N] = C[j]
<1>1. /\ start \in BPVerts /\ BPVerts \cap BPHyperedges = {}
      /\ \A e \in G : \/ e[1] \in BPVerts /\ e[2] \in BPHyperedges
                      \/ e[1] \in BPHyperedges /\ e[2] \in BPVerts
  BY BPInputs
<1>2. C[0] = {start} /\ \A j \in 0 .. N - 1 : C[j + 1] = C[j] \cup LeadsOn(G, C[j])
  BY DEF BPBalls
<1>3. \A S : LeadsOn(G, S) \subseteq BPVerts
  BY <1>1 DEF LeadsOn, FedBy
<1>4. \A j \in 0 .. N : C[j] \subseteq BPVerts /\ start \in C[j]
  <2> DEFINE In == {j \in Nat : j <= N => C[j] \subseteq BPVerts /\ start \in C[j]}
  <2>1. 0 \in In
    BY <1>1, <1>2
  <2>2. ASSUME NEW j \in Nat, j \in In PROVE j + 1 \in In
    <3> SUFFICES ASSUME j + 1 <= N PROVE C[j + 1] \subseteq BPVerts /\ start \in C[j + 1]
      OBVIOUS
    <3>1. j \in 0 .. N - 1 /\ C[j] \subseteq BPVerts /\ start \in C[j]
      BY <2>2
    <3> QED BY <1>2, <1>3, <3>1
  <2> HIDE DEF In
  <2>3. \A j \in Nat : j \in In
    BY <2>1, <2>2, SetInduction
  <2> QED BY <2>3 DEF In
<1>5. ASSUME NEW j \in 0 .. N
      PROVE  Earlier(C, j) \subseteq C[j] /\ LeadsOn(G, Earlier(C, j)) \subseteq C[j]
  <2>1. CASE j = 0
    BY <2>1 DEF Earlier, LeadsOn, FedBy
  <2>2. CASE j # 0
    <3>1. j - 1 \in 0 .. N - 1 /\ (j - 1) + 1 = j
      BY <2>2
    <3>2. C[j] = C[j - 1] \cup LeadsOn(G, C[j - 1])
      BY <1>2, <3>1
    <3> QED BY <2>2, <3>2 DEF Earlier
  <2> QED BY <2>1, <2>2
<1>6. ASSUME NEW j \in 0 .. N - 1, LeadsOn(G, C[j]) \subseteq C[j] PROVE C[N] = C[j]
  <2> DEFINE In == {z \in Nat : j + z <= N => C[j + z] = C[j]}
  <2>1. 0 \in In
    OBVIOUS
  <2>2. ASSUME NEW z \in Nat, z \in In PROVE z + 1 \in In
    <3> SUFFICES ASSUME j + (z + 1) <= N PROVE C[j + (z + 1)] = C[j]
      OBVIOUS
    <3>1. j + z \in 0 .. N - 1 /\ (j + z) + 1 = j + (z + 1) /\ C[j + z] = C[j]
      BY <2>2
    <3> QED BY <1>2, <1>6, <3>1
  <2> HIDE DEF In
  <2>3. \A z \in Nat : z \in In
    BY <2>1, <2>2, SetInduction
  <2>4. N - j \in Nat /\ j + (N - j) = N
    OBVIOUS
  <2> QED BY <2>3, <2>4 DEF In
<1> QED BY <1>2, <1>4, <1>5, <1>6

\* What a state of the search holds of its graph and its balls.
LEMMA BPFacts ==
  ASSUME BP!InputsOK, NEW C, NEW i, BPState(C, i)
  PROVE  /\ i \in 0 .. Cardinality(BPVerts) - 1 /\ i + 1 \in 0 .. Cardinality(BPVerts)
         /\ start \in C[i] /\ C[i] \subseteq BPVerts /\ Earlier(C, i) \subseteq C[i]
         /\ LeadsOn(GA, Earlier(C, i)) \subseteq C[i]
         /\ C[i + 1] = C[i] \cup LeadsOn(GA, C[i])
         /\ C[i + 1] \subseteq BPVerts /\ IsFiniteSet(C[i + 1])
         /\ LeadsOn(GA, C[i]) \subseteq C[i] => C[Cardinality(BPVerts)] = C[i]
         /\ GA \in BPGraphs /\ IsFiniteSet(GA)
         /\ \A e \in GA : /\ e = <<e[1], e[2]>>
                          /\ \/ e[1] \in BPVerts /\ e[2] \in BPHyperedges
                             \/ e[1] \in BPHyperedges /\ e[2] \in BPVerts
<1> DEFINE N == Cardinality(BPVerts)
<1>1. /\ IsFiniteSet(BPVerts) /\ N \in Nat
      /\ \A G \in BPGraphs : /\ IsFiniteSet(G)
                             /\ \A e \in G : /\ e = <<e[1], e[2]>>
                                             /\ \/ e[1] \in BPVerts /\ e[2] \in BPHyperedges
                                                \/ e[1] \in BPHyperedges /\ e[2] \in BPVerts
  BY BPInputs
<1>2. GA \in BPGraphs /\ BPBalls(GA, N, C) /\ i \in Nat /\ i + 1 <= Cardinality(C[i]) /\ i + 1 <= N
  BY DEF BPState, BPType
<1>3. i \in 0 .. N /\ i + 1 \in 0 .. N /\ i \in 0 .. N - 1
  BY <1>1, <1>2
<1>4. PICK G \in BPGraphs : G = GA
  BY <1>2
<1>5. BPBalls(G, N, C)
  BY <1>2, <1>4
<1>6. /\ \A j \in 0 .. N : C[j] \subseteq BPVerts /\ start \in C[j]
      /\ \A j \in 0 .. N : Earlier(C, j) \subseteq C[j] /\ LeadsOn(G, Earlier(C, j)) \subseteq C[j]
      /\ \A j \in 0 .. N - 1 : C[j + 1] = C[j] \cup LeadsOn(G, C[j])
      /\ \A j \in 0 .. N - 1 : LeadsOn(G, C[j]) \subseteq C[j] => C[N] = C[j]
  BY <1>1, <1>5, BPBallFacts
<1>7. C[i + 1] \subseteq BPVerts
  BY <1>3, <1>6
<1>8. IsFiniteSet(C[i + 1])
  BY <1>1, <1>7, FS_Subset
<1> QED BY <1>1, <1>2, <1>3, <1>4, <1>6, <1>7, <1>8

\* What is counted is a finite number of edges.
LEMMA UncountedFacts ==
  ASSUME NEW S, IsFiniteSet(S), NEW x
  PROVE  /\ Cardinality(S) \in Nat /\ (Cardinality(S) = 0 <=> S = {})
         /\ x \in S => /\ Cardinality(S \ {x}) = Cardinality(S) - 1
                       /\ S \ {x} = {} <=> Cardinality(S) = 1
<1>1. Cardinality(S) \in Nat /\ (Cardinality(S) = 0 <=> S = {})
  BY FS_CardinalityType, FS_EmptySet
<1>2. ASSUME x \in S
      PROVE Cardinality(S \ {x}) = Cardinality(S) - 1 /\ (S \ {x} = {} <=> Cardinality(S) = 1)
  <2>1. IsFiniteSet(S \ {x}) /\ Cardinality(S \ {x}) = Cardinality(S) - 1
    BY <1>2, FS_RemoveElement
  <2>2. Cardinality(S \ {x}) = 0 <=> S \ {x} = {}
    BY <2>1, FS_EmptySet
  <2> QED BY <1>1, <2>1, <2>2
<1> QED BY <1>1, <1>2

\* No round has begun: nothing is counted, and the start alone is visited.
LEMMA InitBPInv == BP!InputsOK /\ BP!Init => BPInv
<1> SUFFICES ASSUME BP!InputsOK, BP!Init PROVE BPInv
  OBVIOUS
<1> DEFINE N == Cardinality(BPVerts)
<1>1. /\ GA \in BPGraphs /\ stage = "loop" /\ Frontier = {start} /\ todo = {} /\ regs = <<>>
      /\ Parents = [x \in BPVerts \cup BPHyperedges |-> IF x \in BPHyperedges THEN -BP!InDegree(x)
                                                        ELSE IF x = start THEN x[2] ELSE UintMax]
  BY DEF BP!Init, BP!NoCall
<1>2. \A h : BP!InDegree(h) = Cardinality({e \in GA : e[2] = h})
  BY DEF BP!InDegree, BP!Cardinality, Cardinality
<1>3. /\ start \in BPVerts /\ UintMax \in Nat /\ start[2] # UintMax /\ BPVerts \cap BPHyperedges = {}
      /\ IsFiniteSet(BPVerts) /\ N \in Nat /\ IsFiniteSet(GA)
      /\ \A x \in BPVerts \cup BPHyperedges : x[2] \in Nat /\ x[2] # UintMax
  BY <1>1, BPInputs
<1>4. \A h : IsFiniteSet({e \in GA : e[2] = h})
  <2> SUFFICES ASSUME NEW h PROVE IsFiniteSet({e \in GA : e[2] = h})
    OBVIOUS
  <2>1. {e \in GA : e[2] = h} \subseteq GA
    OBVIOUS
  <2> QED BY <1>3, <2>1, FS_Subset
<1>5. InFlight = {}
  BY <1>1 DEF InFlight
<1> DEFINE C == BallIn(GA, N)
<1>6. BPBalls(GA, N, C)
  <2>1. PICK G : G = GA
    OBVIOUS
  <2>2. BPBalls(G, N, BallIn(G, N))
    BY <1>3, BPBallsGrow
  <2> QED BY <2>1, <2>2
<1> HIDE DEF C
<1>7. C[0] = {start} /\ Earlier(C, 0) = {}
  BY <1>6 DEF BPBalls, Earlier
<1>8. BP!Visited = {start}
  BY <1>1, <1>3 DEF BP!Visited
<1>9. \A h : Uncounted({}, h) = {e \in GA : e[2] = h}
  BY DEF Uncounted
<1>10. \A h : /\ Cardinality(Uncounted({}, h)) \in Nat
              /\ Cardinality(Uncounted({}, h)) = 0 <=> Uncounted({}, h) = {}
  <2> SUFFICES ASSUME NEW h
               PROVE  /\ Cardinality(Uncounted({}, h)) \in Nat
                      /\ Cardinality(Uncounted({}, h)) = 0 <=> Uncounted({}, h) = {}
    OBVIOUS
  <2>1. PICK S : S = Uncounted({}, h)
    OBVIOUS
  <2>2. IsFiniteSet(S)
    BY <1>4, <1>9, <2>1
  <2> QED BY <2>1, <2>2, UncountedFacts
<1>11. \A h \in BPHyperedges : Parents[h] = -Cardinality(Uncounted({}, h))
  BY <1>1, <1>2, <1>9
<1>12. Counts({})
  BY <1>10, <1>11 DEF Counts
<1>13. Parents \in [BPVerts \cup BPHyperedges -> Int]
  <2>1. \A x \in BPVerts \cup BPHyperedges : x \in BPHyperedges => -BP!InDegree(x) \in Int
    BY <1>2, <1>9, <1>10
  <2> QED BY <1>1, <1>3, <2>1
<1>14. BPType
  BY <1>1, <1>5, <1>13 DEF BPType
<1>15. Begotten
  BY <1>8 DEF Begotten
<1>16. Cardinality({start}) = 1
  BY FS_Singleton
<1>17. 0 + 1 <= N
  <2>1. N # 0
    BY <1>3, FS_EmptySet
  <2> QED BY <1>3, <2>1
<1>18. BPLoop(C, 0)
  BY <1>1, <1>7, <1>8, <1>12 DEF BPLoop
<1>19. BPState(C, 0)
  BY <1>1, <1>6, <1>7, <1>14, <1>15, <1>16, <1>17, <1>18 DEF BPState
<1> QED BY <1>19 DEF BPInv, C

\* A round begins: the edges counted from are those that are taken.
LEMMA VertexPropKeepsBPState ==
  ASSUME BP!InputsOK, NEW C, NEW i, BPState(C, i), BP!VertexProp
  PROVE  BPState(C, i)'
<1>1. /\ stage = "loop" /\ stage' = "toH" /\ GA' = GA /\ Frontier' = Frontier /\ Parents' = Parents
      /\ todo' = {e \in GA : e[1] \in Frontier} /\ regs' = <<>> /\ out' = {}
  BY DEF BP!VertexProp, BP!Begin, BP!OutOf
<1>2. BPLoop(C, i) /\ BPType /\ InFlight = {}
  BY <1>1 DEF BPState, BPType
<1>3. BP!Visited = C[i] /\ Frontier = C[i] \ Earlier(C, i) /\ BP!Visited' = BP!Visited
  BY <1>1, <1>2 DEF BPLoop, BP!Visited
<1>4. /\ Earlier(C, i) \subseteq C[i] /\ C[i] \subseteq BPVerts
      /\ \A e \in GA : \/ e[1] \in BPVerts /\ e[2] \in BPHyperedges
                       \/ e[1] \in BPHyperedges /\ e[2] \in BPVerts
  BY BPFacts
<1>5. InFlight' = {e \in GA : e[1] \in Frontier}
  BY <1>1 DEF InFlight
<1>6. \A h : Uncounted(C[i], h)' = Uncounted(Earlier(C, i), h)
  BY <1>1, <1>2, <1>3, <1>4, <1>5 DEF Uncounted
<1>7. Counts(C[i])'
  BY <1>1, <1>2, <1>6 DEF Counts, BPLoop
<1>8. \A e \in InFlight' : e[1] \in BPVerts /\ e[2] \in BPHyperedges
  <2>1. BPVerts \cap BPHyperedges = {}
    BY BPInputs
  <2> QED BY <1>3, <1>4, <1>5, <2>1
<1>9. ASSUME NEW h \in BPHyperedges, Uncounted(Earlier(C, i), h) = {}, IntoIn(GA, h) # {}
      PROVE  h \in FedBy(GA, Earlier(C, i))
  <2>1. \A e \in GA : e[2] = h => e[1] \in Earlier(C, i)
    BY <1>9 DEF Uncounted
  <2>2. IntoIn(GA, h) \subseteq Earlier(C, i)
    BY <2>1 DEF IntoIn
  <2> QED BY <1>9, <2>2 DEF FedBy
<1>10. out' = {h \in BPHyperedges : /\ Uncounted(C[i], h)' = {} /\ IntoIn(GA, h) # {}
                                    /\ h \notin FedBy(GA, Earlier(C, i))}
  BY <1>1, <1>6, <1>9
<1>11. BPToH(C, i)'
  BY <1>1, <1>3, <1>5, <1>7, <1>8, <1>10 DEF BPToH
<1>12. BPType' /\ Begotten'
  BY <1>1, <1>2, <1>3 DEF BPState, BPType, Begotten
<1> QED BY <1>1, <1>11, <1>12 DEF BPState

\* An edge is counted; the one that leaves none passes its hyperedge.
LEMMA CountKeepsBPState ==
  ASSUME BP!InputsOK, NEW C, NEW i, BPState(C, i), stage = "toH",
         NEW e \in InFlight, NEW x \in Int, Parents[e[2]] = -1 => x \in Nat,
         Parents[e[2]] # -1 => x = Parents[e[2]] + 1,
         GA' = GA, stage' = stage, Frontier' = Frontier,
         todo' \cap DOMAIN regs' = {}, InFlight' = InFlight \ {e},
         Parents' = [Parents EXCEPT ![e[2]] = x],
         out' = IF Parents[e[2]] = -1 THEN out \cup {e[2]} ELSE out
  PROVE  BPState(C, i)'
<1> DEFINE K == C[i]
           d == e[2]
<1>1. GA' = GA /\ stage' = stage /\ Frontier' = Frontier
  OBVIOUS
<1>2. BPToH(C, i) /\ BPType
  BY DEF BPState
<1>3. e \in GA /\ e[1] \in K /\ e[1] \notin Earlier(C, i) /\ d \in BPHyperedges /\ Frontier = K \ Earlier(C, i)
  BY <1>2 DEF BPToH
<1>4. BPVerts \cap BPHyperedges = {}
  BY BPInputs
<1>5. Parents \in [BPVerts \cup BPHyperedges -> Int]
  BY <1>2 DEF BPType
<1>6. Uncounted(K, d)' = Uncounted(K, d) \ {e} /\ e \in Uncounted(K, d)
  BY <1>1, <1>3 DEF Uncounted
<1>7. \A h : h # d => Uncounted(K, h)' = Uncounted(K, h)
  BY <1>1 DEF Uncounted
<1>8. /\ Cardinality(Uncounted(K, d)) \in Nat
      /\ Cardinality(Uncounted(K, d)') = Cardinality(Uncounted(K, d)) - 1
      /\ Uncounted(K, d)' = {} <=> Cardinality(Uncounted(K, d)) = 1
  <2>1. PICK S, y : S = Uncounted(K, d) /\ y = e
    OBVIOUS
  <2>2. IsFiniteSet(GA)
    BY BPFacts
  <2>3. S \subseteq GA
    BY <2>1 DEF Uncounted
  <2>4. IsFiniteSet(S)
    BY <2>2, <2>3, FS_Subset
  <2>5. y \in S
    BY <1>6, <2>1
  <2>6. /\ Cardinality(S) \in Nat
        /\ Cardinality(S \ {y}) = Cardinality(S) - 1 /\ (S \ {y} = {} <=> Cardinality(S) = 1)
    BY <2>4, <2>5, UncountedFacts
  <2>7. Uncounted(K, d)' = S \ {y} /\ Uncounted(K, d) = S
    BY <1>6, <2>1
  <2> QED BY <2>6, <2>7
<1>9. Parents[d] = -Cardinality(Uncounted(K, d))
  BY <1>2, <1>3, <1>6 DEF BPToH, Counts
<1>10. Parents[d] = -1 <=> Uncounted(K, d)' = {}
  BY <1>8, <1>9
<1>11. Parents'[d] = x /\ \A z \in BPVerts \cup BPHyperedges : z # d => Parents'[z] = Parents[z]
  BY <1>3, <1>5
<1>12. Counts(K)'
  <2> SUFFICES ASSUME NEW h \in BPHyperedges
               PROVE  IF Uncounted(K, h)' = {} THEN Parents'[h] \in Nat
                      ELSE Parents'[h] = -Cardinality(Uncounted(K, h)')
    BY DEF Counts
  <2>1. CASE h = d
    <3>1. CASE Parents[d] = -1
      BY <1>10, <1>11, <2>1, <3>1
    <3>2. CASE Parents[d] # -1
      <4>1. Parents'[d] = Parents[d] + 1 /\ Uncounted(K, d)' # {}
        BY <1>10, <1>11, <3>2
      <4>2. Parents'[d] = -Cardinality(Uncounted(K, d)')
        BY <1>8, <1>9, <4>1
      <4> QED BY <2>1, <4>1, <4>2
    <3> QED BY <3>1, <3>2
  <2>2. CASE h # d
    BY <1>2, <1>7, <1>11, <2>2 DEF BPToH, Counts
  <2> QED BY <2>1, <2>2
<1>13. \A v \in BPVerts : Parents'[v] = Parents[v]
  BY <1>3, <1>4, <1>11
<1>14. BP!Visited' = BP!Visited
  BY <1>13 DEF BP!Visited
<1>15. Begotten'
  <2>1. BP!Visited \subseteq BPVerts
    BY DEF BP!Visited
  <2> QED BY <1>1, <1>13, <1>14, <2>1 DEF BPState, Begotten
<1>16. BPType'
  BY <1>1, <1>2, <1>5 DEF BPType
<1>17. IntoIn(GA, d) # {} /\ d \notin FedBy(GA, Earlier(C, i))
  <2>1. e[1] \in IntoIn(GA, d)
    BY <1>3 DEF IntoIn
  <2> QED BY <1>3, <2>1 DEF FedBy
<1>18. out' = {h \in BPHyperedges : /\ Uncounted(K, h)' = {} /\ IntoIn(GA, h) # {}
                                    /\ h \notin FedBy(GA, Earlier(C, i))}
  <2>1. out = {h \in BPHyperedges : /\ Uncounted(K, h) = {} /\ IntoIn(GA, h) # {}
                                    /\ h \notin FedBy(GA, Earlier(C, i))}
    BY <1>2 DEF BPToH
  <2> HIDE DEF K, d
  <2>2. d \notin out
    BY <1>6, <2>1
  <2>3. \A h \in BPHyperedges : h # d => (h \in out' <=> h \in out)
    BY DEF d
  <2>4. d \in out' <=> Uncounted(K, d)' = {}
    BY <1>10, <2>2 DEF d
  <2>5. out' \subseteq BPHyperedges
    BY <1>3, <2>1 DEF d
  <2>6. \A h \in BPHyperedges : h \in out' <=> /\ Uncounted(K, h)' = {} /\ IntoIn(GA, h) # {}
                                               /\ h \notin FedBy(GA, Earlier(C, i))
    BY <1>7, <1>17, <2>1, <2>3, <2>4
  <2> QED BY <2>5, <2>6
<1>19. \A z \in InFlight' : z \in GA /\ z[1] \in Frontier /\ z[2] \in BPHyperedges
  BY <1>2 DEF BPToH
<1>20. BPToH(C, i)'
  BY <1>1, <1>2, <1>12, <1>14, <1>18, <1>19 DEF BPToH
<1> QED BY <1>1, <1>15, <1>16, <1>20 DEF BPState

\* The steps of the call to the hyperedges: none finds its target counted out,
LEMMA ToHKeepsBPState ==
  ASSUME BP!InputsOK, NEW C, NEW i, BPState(C, i),
         \/ \E e \in todo : BP!VisitH(e) \/ BP!TestH(e)
         \/ \E e \in DOMAIN regs : BP!CountH(e)
  PROVE  BPState(C, i)'
<1>1. stage = "toH" /\ stage' = stage /\ GA' = GA /\ Frontier' = Frontier
  BY DEF BP!VisitH, BP!TestH, BP!CountH, BP!mainVars
<1>2. BPToH(C, i) /\ BPType
  BY <1>1 DEF BPState
<1>3. ASSUME NEW e \in InFlight
      PROVE  /\ e \in GA /\ e[1] \in BPVerts /\ e[2] \in BPHyperedges
             /\ Parents[e[2]] \in Int /\ Parents[e[2]] < 0
  <2>1. e \in GA /\ e[1] \in C[i] /\ e[2] \in BPHyperedges
    BY <1>2 DEF BPToH
  <2>2. e[1] \in BPVerts
    BY <2>1, BPFacts
  <2>3. e \in Uncounted(C[i], e[2])
    BY <2>1 DEF Uncounted
  <2>4. Parents[e[2]] = -Cardinality(Uncounted(C[i], e[2]))
    BY <1>2, <2>1, <2>3 DEF BPToH, Counts
  <2>5. Cardinality(Uncounted(C[i], e[2])) \in Nat \ {0}
    <3>1. PICK S : S = Uncounted(C[i], e[2])
      OBVIOUS
    <3>2. IsFiniteSet(GA) /\ S \subseteq GA
      BY <3>1, BPFacts DEF Uncounted
    <3>3. IsFiniteSet(S) /\ S # {}
      BY <2>3, <3>1, <3>2, FS_Subset
    <3>4. Cardinality(S) \in Nat /\ (Cardinality(S) = 0 <=> S = {})
      BY <3>3, UncountedFacts
    <3> QED BY <3>1, <3>3, <3>4
  <2> QED BY <2>1, <2>2, <2>4, <2>5
<1>4. todo \cap DOMAIN regs = {}
  BY <1>2 DEF BPType
<1>5. ASSUME NEW e \in todo, BP!VisitH(e) PROVE BPState(C, i)'
  <2>1. e \in InFlight /\ Parents[e[2]] \in Int /\ Parents[e[2]] < 0 /\ e[1][2] \in Nat
    BY <1>3, BPInputs DEF InFlight
  <2>2. /\ todo' = todo \ {e} /\ regs' = regs
        /\ Parents' = [Parents EXCEPT ![e[2]] = IF @ + 1 = 0 THEN e[1][2] ELSE @ + 1]
        /\ out' = IF Parents[e[2]] + 1 = 0 THEN out \cup {e[2]} ELSE out
    BY <1>5, <2>1 DEF BP!VisitH
  <2>3. InFlight' = InFlight \ {e} /\ todo' \cap DOMAIN regs' = {}
    BY <1>4, <2>2 DEF InFlight
  <2>4. Parents[e[2]] + 1 = 0 <=> Parents[e[2]] = -1
    BY <2>1
  <2>5. PICK x : x = IF Parents[e[2]] = -1 THEN e[1][2] ELSE Parents[e[2]] + 1
    OBVIOUS
  <2>6. /\ x \in Int /\ (Parents[e[2]] = -1 => x \in Nat)
        /\ Parents[e[2]] # -1 => x = Parents[e[2]] + 1
    BY <2>1, <2>5
  <2>7. Parents' = [Parents EXCEPT ![e[2]] = x]
    BY <2>2, <2>4, <2>5
  <2>8. out' = IF Parents[e[2]] = -1 THEN out \cup {e[2]} ELSE out
    BY <2>2, <2>4
  <2>9. PICK y \in InFlight : y = e
    BY <2>1
  <2> QED BY <1>1, <2>3, <2>6, <2>7, <2>8, <2>9, CountKeepsBPState
<1>6. ASSUME NEW e \in DOMAIN regs, BP!CountH(e) PROVE BPState(C, i)'
  <2>1. e \in InFlight /\ Parents[e[2]] \in Int /\ Parents[e[2]] < 0
    BY <1>3 DEF InFlight
  <2>2. /\ todo' = todo /\ DOMAIN regs' = DOMAIN regs \ {e}
        /\ Parents' = [Parents EXCEPT ![e[2]] = @ + 1]
        /\ out' = IF Parents[e[2]] = -1 THEN out \cup {e[2]} ELSE out
    BY <1>6 DEF BP!CountH, BP!Answer
  <2>3. InFlight' = InFlight \ {e} /\ todo' \cap DOMAIN regs' = {}
    BY <1>4, <2>2 DEF InFlight
  <2>4. PICK x : x = Parents[e[2]] + 1
    OBVIOUS
  <2>5. x \in Int /\ (Parents[e[2]] = -1 => x \in Nat)
    BY <2>1, <2>4
  <2>6. Parents' = [Parents EXCEPT ![e[2]] = x]
    BY <2>2, <2>4
  <2>7. PICK y \in InFlight : y = e
    BY <2>1
  <2> QED BY <1>1, <2>2, <2>3, <2>4, <2>5, <2>6, <2>7, CountKeepsBPState
<1>7. ASSUME NEW e \in todo, BP!TestH(e) PROVE BPState(C, i)'
  <2>1. Parents[e[2]] < 0
    BY <1>3 DEF InFlight
  <2>2. /\ todo' = todo \ {e} /\ DOMAIN regs' = DOMAIN regs \cup {e} /\ out' = out
        /\ Parents' = Parents
    BY <1>7, <2>1 DEF BP!TestH, BP!Enter, BP!bpVars
  <2>3. InFlight' = InFlight /\ todo' \cap DOMAIN regs' = {}
    BY <1>4, <2>2 DEF InFlight
  <2>4. \A h : Uncounted(C[i], h)' = Uncounted(C[i], h)
    BY <1>1, <2>3 DEF Uncounted
  <2>5. BP!Visited' = BP!Visited
    BY <2>2 DEF BP!Visited
  <2>6. Counts(C[i])'
    BY <1>2, <2>2, <2>4 DEF BPToH, Counts
  <2>7. BPToH(C, i)'
    BY <1>1, <1>2, <2>2, <2>3, <2>4, <2>5, <2>6 DEF BPToH
  <2>8. BPType' /\ Begotten'
    BY <1>1, <1>2, <2>2, <2>3, <2>5 DEF BPState, BPType, Begotten
  <2> QED BY <1>1, <2>7, <2>8 DEF BPState
<1> QED BY <1>5, <1>6, <1>7

\* and once all have been answered those passed are those that the balls are fed by anew.
LEMMA HyperedgePropKeepsBPState ==
  ASSUME BP!InputsOK, NEW C, NEW i, BPState(C, i), BP!HyperedgeProp
  PROVE  BPState(C, i)'
<1>1. /\ stage = "toH" /\ todo = {} /\ regs = <<>> /\ GA' = GA /\ Frontier' = out /\ Parents' = Parents
      /\ out = {} => stage' = "done" /\ todo' = todo /\ regs' = regs
      /\ out # {} => /\ stage' = "toV" /\ todo' = {e \in GA : e[1] \in out}
                     /\ regs' = <<>> /\ out' = {}
  BY DEF BP!HyperedgeProp, BP!Returned, BP!Begin, BP!OutOf, BP!callVars, BP!bpVars
<1>2. BPToH(C, i) /\ BPType /\ InFlight = {}
  BY <1>1 DEF BPState, InFlight
<1>3. BP!Visited = C[i] /\ BP!Visited' = BP!Visited
  BY <1>1, <1>2 DEF BPToH, BP!Visited
<1>4. /\ BPVerts \cap BPHyperedges = {} /\ LeadsOn(GA, Earlier(C, i)) \subseteq C[i] /\ C[i] \subseteq BPVerts
      /\ LeadsOn(GA, C[i]) \subseteq C[i] => C[Cardinality(BPVerts)] = C[i]
      /\ \A e \in GA : \/ e[1] \in BPVerts /\ e[2] \in BPHyperedges
                       \/ e[1] \in BPHyperedges /\ e[2] \in BPVerts
  BY BPInputs, BPFacts
<1>5. \A h \in BPHyperedges : Uncounted(C[i], h) = {} <=> IntoIn(GA, h) \subseteq C[i]
  BY <1>2 DEF Uncounted, IntoIn
<1>6. out = FedBy(GA, C[i]) \ FedBy(GA, Earlier(C, i))
  BY <1>2, <1>5 DEF BPToH, FedBy
<1>7. out \subseteq BPHyperedges
  BY <1>6 DEF FedBy
<1>8. InFlight' = {e \in GA : e[1] \in out}
  BY <1>1 DEF InFlight
<1>9. \A h \in BPHyperedges : Uncounted(C[i], h)' = Uncounted(C[i], h)
  BY <1>1, <1>2, <1>4, <1>7, <1>8 DEF Uncounted
<1>10. Counts(C[i])'
  BY <1>1, <1>2, <1>9 DEF BPToH, Counts
<1>11. Begotten'
  BY <1>1, <1>3 DEF BPState, Begotten
<1>12. CASE out = {}
  <2>1. FedBy(GA, C[i]) \subseteq FedBy(GA, Earlier(C, i))
    BY <1>6, <1>12
  <2>2. LeadsOn(GA, C[i]) \subseteq C[i]
    BY <1>4, <2>1 DEF LeadsOn
  <2>3. BPDone(C, i)'
    BY <1>1, <1>3, <1>4, <1>10, <2>2 DEF BPDone
  <2>4. BPType'
    BY <1>1, <1>2, <1>8, <1>12 DEF BPType
  <2> QED BY <1>1, <1>11, <1>12, <2>3, <2>4 DEF BPState
<1>13. CASE out # {}
  <2>1. BPToV(C, i)'
    BY <1>1, <1>3, <1>6, <1>8, <1>10, <1>13 DEF BPToV
  <2>2. BPType'
    BY <1>1, <1>2, <1>13 DEF BPType
  <2> QED BY <1>1, <1>11, <1>13, <2>1, <2>2 DEF BPState
<1> QED BY <1>12, <1>13

\* The call to the vertices: who is not visited yet takes the hyperedge as its parent.
LEMMA ToVKeepsBPState ==
  ASSUME BP!InputsOK, NEW C, NEW i, BPState(C, i),
         (\E e \in todo : BP!TestV(e)) \/ (\E e \in DOMAIN regs : BP!ClaimV(e))
  PROVE  BPState(C, i)'
<1>1. stage = "toV" /\ stage' = stage /\ GA' = GA /\ Frontier' = Frontier
  BY DEF BP!TestV, BP!ClaimV, BP!mainVars
<1>2. BPToV(C, i) /\ BPType /\ todo \cap DOMAIN regs = {}
  BY <1>1 DEF BPState, BPType
<1>3. /\ BPVerts \cap BPHyperedges = {}
      /\ \A x \in BPVerts \cup BPHyperedges : x[2] \in Nat /\ x[2] # UintMax
      /\ \A h \in BPHyperedges : h = <<1, h[2]>>
      /\ \A e \in GA : /\ e = <<e[1], e[2]>>
                       /\ \/ e[1] \in BPVerts /\ e[2] \in BPHyperedges
                          \/ e[1] \in BPHyperedges /\ e[2] \in BPVerts
  BY BPInputs, BPFacts
<1>4. Frontier \subseteq FedBy(GA, C[i]) /\ FedBy(GA, C[i]) \subseteq BPHyperedges
  BY <1>2 DEF BPToV, FedBy
<1>5. \A e \in InFlight : e \in GA /\ e[1] \in Frontier /\ e[1] \in BPHyperedges /\ e[2] \in BPVerts
  BY <1>2, <1>3, <1>4 DEF BPToV
<1>6. ASSUME NEW e \in InFlight, Parents' = Parents, out' = out, todo' \cap DOMAIN regs' = {},
             InFlight' \subseteq InFlight,
             InFlight' = InFlight \/ (InFlight' = InFlight \ {e} /\ e[2] \in BP!Visited)
      PROVE  BPState(C, i)'
  <2>1. BP!Visited' = BP!Visited
    BY <1>6 DEF BP!Visited
  <2>2. \A h \in BPHyperedges : Uncounted(C[i], h)' = Uncounted(C[i], h)
    BY <1>1, <1>3, <1>5, <1>6 DEF Uncounted
  <2>3. Counts(C[i])'
    BY <1>2, <1>6, <2>2 DEF BPToV, Counts
  <2>4. \A z \in GA : z[1] \in Frontier => z \in InFlight' \/ z[2] \in BP!Visited
    BY <1>2, <1>6 DEF BPToV
  <2>5. BPToV(C, i)'
    BY <1>1, <1>2, <1>6, <2>1, <2>3, <2>4 DEF BPToV
  <2>6. BPType' /\ Begotten'
    BY <1>1, <1>2, <1>6, <2>1 DEF BPState, BPType, Begotten
  <2> QED BY <1>1, <2>5, <2>6 DEF BPState
<1>7. ASSUME NEW e \in todo, BP!TestV(e) PROVE BPState(C, i)'
  <2>1. e \in InFlight /\ e[2] \in BPVerts
    BY <1>5 DEF InFlight
  <2>2. todo' = todo \ {e} /\ out' = out /\ Parents' = Parents
    BY <1>7 DEF BP!TestV, BP!Enter, BP!Pass, BP!bpVars
  <2>3. CASE Parents[e[2]] = UintMax
    <3>1. DOMAIN regs' = DOMAIN regs \cup {e}
      BY <1>7, <2>3 DEF BP!TestV, BP!Enter
    <3>2. InFlight' = InFlight /\ todo' \cap DOMAIN regs' = {}
      BY <1>2, <2>2, <3>1 DEF InFlight
    <3> QED BY <1>6, <2>1, <2>2, <3>2
  <2>4. CASE Parents[e[2]] # UintMax
    <3>1. regs' = regs
      BY <1>7, <2>4 DEF BP!TestV, BP!Pass
    <3>2. InFlight' = InFlight \ {e} /\ todo' \cap DOMAIN regs' = {} /\ e[2] \in BP!Visited
      BY <1>2, <2>1, <2>2, <2>4, <3>1 DEF InFlight, BP!Visited
    <3> QED BY <1>6, <2>1, <2>2, <3>2
  <2> QED BY <2>3, <2>4
<1>8. ASSUME NEW e \in DOMAIN regs, BP!ClaimV(e) PROVE BPState(C, i)'
  <2>1. e \in InFlight /\ e \in GA /\ e[1] \in Frontier /\ e[1] \in BPHyperedges /\ e[2] \in BPVerts
    BY <1>5 DEF InFlight
  <2>2. /\ todo' = todo /\ DOMAIN regs' = DOMAIN regs \ {e}
        /\ out' = IF Parents[e[2]] = UintMax THEN out \cup {e[2]} ELSE out
        /\ Parents' = IF Parents[e[2]] = UintMax THEN [Parents EXCEPT ![e[2]] = e[1][2]] ELSE Parents
    BY <1>8 DEF BP!ClaimV, BP!Answer
  <2>3. InFlight' = InFlight \ {e} /\ todo' \cap DOMAIN regs' = {}
    BY <1>2, <2>2 DEF InFlight
  <2>4. CASE Parents[e[2]] # UintMax
    <3>1. e[2] \in BP!Visited /\ Parents' = Parents /\ out' = out
      BY <2>1, <2>2, <2>4 DEF BP!Visited
    <3> QED BY <1>6, <2>1, <2>3, <3>1
  <2>5. CASE Parents[e[2]] = UintMax
    <3> DEFINE v == e[2]
               p == e[1][2]
    <3>1. v \in BPVerts /\ v \notin BP!Visited /\ out' = out \cup {v}
      BY <2>1, <2>2, <2>5 DEF BP!Visited
    <3>2. p \in Nat /\ p # UintMax /\ <<<<1, p>>, v>> \in GA /\ <<1, p>> = e[1]
      BY <1>3, <2>1
    <3>3. Parents \in [BPVerts \cup BPHyperedges -> Int] /\ Parents' = [Parents EXCEPT ![v] = p]
      BY <1>2, <2>2, <2>5 DEF BPType
    <3> HIDE DEF v, p
    <3>4. Parents'[v] = p /\ \A z \in BPVerts \cup BPHyperedges : z # v => Parents'[z] = Parents[z]
      BY <3>1, <3>3
    <3>5. BP!Visited' = BP!Visited \cup {v}
      BY <3>1, <3>2, <3>4 DEF BP!Visited
    <3>6. BP!Visited = C[i] \cup out /\ out \cap C[i] = {} /\ BP!Visited \subseteq BPVerts
      BY <1>2 DEF BPToV, BP!Visited
    <3>7. BP!Visited' = C[i] \cup out' /\ out' \cap C[i] = {}
      BY <3>1, <3>5, <3>6
    <3>8. \A h \in BPHyperedges : Uncounted(C[i], h)' = Uncounted(C[i], h)
      BY <1>1, <1>3, <2>1, <2>3 DEF Uncounted
    <3>9. \A h \in BPHyperedges : Parents'[h] = Parents[h]
      BY <1>3, <3>1, <3>4
    <3>10. Counts(C[i])'
      BY <1>2, <3>8, <3>9 DEF BPToV, Counts
    <3>11. v \in LeadsOn(GA, C[i])
      BY <1>4, <2>1 DEF LeadsOn, v
    <3>12. \A z \in GA : z[1] \in Frontier => z \in InFlight' \/ z[2] \in BP!Visited'
      BY <1>2, <2>3, <3>5 DEF BPToV, v
    <3>13. \A z \in InFlight' : z \in GA /\ z[1] \in Frontier
      BY <1>5, <2>3
    <3>14. out' \subseteq LeadsOn(GA, C[i])
      BY <1>2, <3>1, <3>11 DEF BPToV
    <3>15. BPToV(C, i)'
      BY <1>1, <1>2, <3>7, <3>10, <3>12, <3>13, <3>14 DEF BPToV
    <3>16. IntoIn(GA, e[1]) \subseteq BP!Visited
      BY <1>4, <2>1, <3>6 DEF FedBy
    <3>17. Begotten'
      <4> SUFFICES ASSUME NEW w \in BP!Visited', w # start
                   PROVE  /\ <<<<1, Parents'[w]>>, w>> \in GA
                          /\ IntoIn(GA, <<1, Parents'[w]>>) \subseteq BP!Visited'
        BY <1>1 DEF Begotten
      <4>1. CASE w = v
        BY <3>2, <3>4, <3>5, <3>16, <4>1
      <4>2. CASE w # v
        <5>1. w \in BP!Visited /\ Parents'[w] = Parents[w]
          BY <3>4, <3>5, <3>6, <4>2
        <5> QED BY <3>5, <5>1 DEF BPState, Begotten
      <4> QED BY <4>1, <4>2
    <3>18. Parents' \in [BPVerts \cup BPHyperedges -> Int]
      BY <3>1, <3>2, <3>3
    <3>19. BPType'
      BY <1>1, <1>2, <2>3, <3>18 DEF BPType
    <3> QED BY <1>1, <3>15, <3>17, <3>19 DEF BPState
  <2> QED BY <2>4, <2>5
<1> QED BY <1>7, <1>8

\* A round that has found vertices has found all of the next ball, and one more at least.
LEMMA NextRoundKeepsBPInv ==
  ASSUME BP!InputsOK, NEW C, NEW i, BPState(C, i), BP!NextRound
  PROVE  IF out = {} THEN BPState(C, i)' ELSE BPState(C, i + 1)'
<1>1. /\ stage = "toV" /\ todo = {} /\ regs = <<>> /\ GA' = GA /\ Frontier' = out
      /\ stage' = (IF out = {} THEN "done" ELSE "loop")
      /\ todo' = todo /\ regs' = regs /\ Parents' = Parents
  BY DEF BP!NextRound, BP!Returned, BP!callVars, BP!bpVars
<1>2. BPToV(C, i) /\ BPType /\ InFlight = {} /\ InFlight' = {}
  BY <1>1 DEF BPState, InFlight
<1>3. /\ i \in Nat /\ i + 1 \in 0 .. Cardinality(BPVerts)
      /\ LeadsOn(GA, Earlier(C, i)) \subseteq C[i] /\ C[i + 1] = C[i] \cup LeadsOn(GA, C[i])
      /\ C[i + 1] \subseteq BPVerts /\ IsFiniteSet(C[i + 1])
      /\ LeadsOn(GA, C[i]) \subseteq C[i] => C[Cardinality(BPVerts)] = C[i]
      /\ i + 1 <= Cardinality(C[i]) /\ IsFiniteSet(BPVerts) /\ Cardinality(BPVerts) \in Nat
  BY BPInputs, BPFacts DEF BPState
<1>4. BP!Visited = C[i] \cup out /\ out \cap C[i] = {} /\ BP!Visited' = BP!Visited
  BY <1>1, <1>2 DEF BPToV, BP!Visited
<1>5. LeadsOn(GA, C[i]) \subseteq BP!Visited
  <2> SUFFICES ASSUME NEW e \in GA, e[1] \in FedBy(GA, C[i]) PROVE e[2] \in BP!Visited
    BY DEF LeadsOn
  <2>1. CASE e[1] \in FedBy(GA, Earlier(C, i))
    BY <1>3, <1>4, <2>1 DEF LeadsOn
  <2>2. CASE e[1] \notin FedBy(GA, Earlier(C, i))
    BY <1>2, <2>2 DEF BPToV
  <2> QED BY <2>1, <2>2
<1>6. BP!Visited = C[i + 1]
  BY <1>2, <1>3, <1>4, <1>5 DEF BPToV
<1>7. \A h : Uncounted(C[i], h)' = Uncounted(C[i], h)
  BY <1>1, <1>2 DEF Uncounted
<1>8. Counts(C[i])'
  BY <1>1, <1>2, <1>7 DEF BPToV, Counts
<1>9. BPType' /\ Begotten'
  BY <1>1, <1>2, <1>4 DEF BPState, BPType, Begotten
<1>10. CASE out = {}
  <2>1. LeadsOn(GA, C[i]) \subseteq C[i]
    BY <1>4, <1>5, <1>10
  <2>2. BPDone(C, i)'
    BY <1>1, <1>3, <1>4, <1>8, <1>10, <2>1 DEF BPDone
  <2> QED BY <1>1, <1>9, <1>10, <2>2 DEF BPState
<1>11. CASE out # {}
  <2>1. Earlier(C, i + 1) = C[i]
    BY <1>3 DEF Earlier
  <2>2. BPLoop(C, i + 1)'
    BY <1>1, <1>4, <1>6, <1>8, <2>1 DEF BPLoop
  <2>3. i + 2 <= Cardinality(C[i + 1])
    <3>1. PICK a, b : a = C[i] /\ b = C[i + 1]
      OBVIOUS
    <3>2. a \subseteq b /\ a # b /\ IsFiniteSet(b)
      BY <1>3, <1>4, <1>6, <1>11, <3>1
    <3>3. IsFiniteSet(a) /\ Cardinality(a) < Cardinality(b) /\ Cardinality(a) \in Nat /\ Cardinality(b) \in Nat
      BY <3>2, FS_Subset, FS_CardinalityType
    <3> QED BY <1>3, <3>1, <3>3
  <2>4. Cardinality(C[i + 1]) <= Cardinality(BPVerts) /\ Cardinality(C[i + 1]) \in Nat
    BY <1>3, FS_Subset, FS_CardinalityType
  <2>5. i + 1 \in Nat /\ (i + 1) + 1 <= Cardinality(C[i + 1]) /\ (i + 1) + 1 <= Cardinality(BPVerts)
    BY <1>3, <2>3, <2>4
  <2>6. (i + 1 \in Nat /\ (i + 1) + 1 <= Cardinality(C[i + 1]) /\ (i + 1) + 1 <= Cardinality(BPVerts))'
    BY <2>5
  <2> QED BY <1>1, <1>9, <1>11, <2>2, <2>6 DEF BPState
<1> QED BY <1>10, <1>11

\* The balls are of the graph, which no step changes.
LEMMA BPInvKept == BP!InputsOK /\ BPInv /\ [BP!Next]_(BP!vars) => BPInv'
<1> SUFFICES ASSUME BP!InputsOK, BPInv, [BP!Next]_(BP!vars) PROVE BPInv'
  OBVIOUS
<1>1. PICK C, i : C = BallIn(GA, Cardinality(BPVerts)) /\ BPState(C, i)
  BY DEF BPInv
<1>2. ASSUME GA' = GA, NEW j, BPState(C, j)' PROVE BPInv'
  <2>1. C = BallIn(GA', Cardinality(BPVerts))
    BY <1>1, <1>2
  <2> QED BY <1>2, <2>1 DEF BPInv
<1>3. CASE UNCHANGED BP!vars
  <2>1. /\ GA' = GA /\ stage' = stage /\ Frontier' = Frontier /\ todo' = todo /\ regs' = regs /\ out' = out
        /\ Parents' = Parents
    BY <1>3 DEF BP!vars, BP!mainVars, BP!callVars, BP!bpVars
  <2>2. /\ BP!Visited' = BP!Visited /\ InFlight' = InFlight
        /\ \A S, h : Uncounted(S, h)' = Uncounted(S, h)
        /\ Begotten' <=> Begotten
    BY <2>1 DEF BP!Visited, InFlight, Uncounted, Begotten
  <2>3. \A S : Counts(S)' <=> Counts(S)
    BY <2>1, <2>2 DEF Counts
  <2>4. BPType' <=> BPType
    BY <2>1, <2>2 DEF BPType
  <2>5. /\ BPLoop(C, i)' <=> BPLoop(C, i)
        /\ BPToH(C, i)' <=> BPToH(C, i)
        /\ BPToV(C, i)' <=> BPToV(C, i)
        /\ BPDone(C, i)' <=> BPDone(C, i)
    BY <2>1, <2>2, <2>3 DEF BPLoop, BPToH, BPToV, BPDone
  <2>6. BPState(C, i)'
    BY <1>1, <2>1, <2>2, <2>4, <2>5 DEF BPState
  <2> QED BY <1>2, <2>1, <2>6
<1>4. CASE BP!Next
  <2>1. GA' = GA
    BY <1>4 DEF BP!Next, BP!VertexProp, BP!HyperedgeProp, BP!NextRound, BP!VisitH, BP!TestH, BP!CountH,
                BP!TestV, BP!ClaimV, BP!mainVars
  <2>2. BPState(C, i)' \/ BPState(C, i + 1)'
    BY <1>1, <1>4, VertexPropKeepsBPState, ToHKeepsBPState, HyperedgePropKeepsBPState, ToVKeepsBPState,
       NextRoundKeepsBPInv DEF BP!Next
  <2> QED BY <1>2, <2>1, <2>2
<1> QED BY <1>3, <1>4

\* HyperpathsAreFound, for every hypergraph: a hyperedge is passed exactly when the last of
\* its in-vertices is visited, whichever of the two traversals each round runs.
THEOREM HyperpathsAreAlwaysFound == ASSUME BP!InputsOK PROVE BP!Spec => []BP!HyperpathsAreFound
<1>1. BPInv => BP!HyperpathsAreFound
  <2> SUFFICES ASSUME BPInv PROVE BP!HyperpathsAreFound
    OBVIOUS
  <2>1. PICK C, i : C = BallIn(GA, Cardinality(BPVerts)) /\ BPState(C, i)
    BY DEF BPInv
  <2>2. BP!Ball = C /\ BP!Cardinality(BPVerts) = Cardinality(BPVerts)
    <3>1. BP!Cardinality(BPVerts) = Cardinality(BPVerts)
      BY DEF BP!Cardinality, Cardinality
    <3>2. BP!Ball = BallIn(GA, Cardinality(BPVerts))
      BY <3>1 DEF BP!Ball, BallIn, LeadsOn, FedBy, IntoIn, BP!Into, BP!OutOf
    <3> QED BY <2>1, <3>1, <3>2
  <2>3. \A h : BP!Into(h) = IntoIn(GA, h)
    BY DEF BP!Into, IntoIn
  <2>4. i \in 0 .. Cardinality(BPVerts) /\ start \in C[i]
    <3>1. i \in 0 .. Cardinality(BPVerts) - 1 /\ start \in C[i] /\ Cardinality(BPVerts) \in Nat
      BY <2>1, BPFacts, BPInputs
    <3> QED BY <3>1
  <2>5. ASSUME stage = "loop"
        PROVE  \E j \in 0 .. Cardinality(BPVerts) :
                 BP!Visited = C[j] /\ Frontier = (IF j = 0 THEN {start} ELSE C[j] \ C[j - 1])
    <3>1. BPLoop(C, i) /\ C[0] = {start}
      BY <2>1, <2>5 DEF BPState, BPBalls
    <3>2. BP!Visited = C[i] /\ Frontier = (IF i = 0 THEN {start} ELSE C[i] \ C[i - 1])
      BY <3>1 DEF BPLoop, Earlier
    <3> QED BY <2>4, <3>2
  <2>6. ASSUME stage = "done"
        PROVE  /\ BP!Visited = C[Cardinality(BPVerts)]
               /\ \A v \in BP!Visited \ {start} :
                    <<<<1, Parents[v]>>, v>> \in GA /\ IntoIn(GA, <<1, Parents[v]>>) \subseteq BP!Visited
               /\ \A h \in BPHyperedges : Parents[h] >= 0 <=> IntoIn(GA, h) \subseteq BP!Visited
    <3>1. BPDone(C, i) /\ Begotten /\ InFlight = {}
      BY <2>1, <2>6 DEF BPState, BPType
    <3>2. ASSUME NEW h \in BPHyperedges
          PROVE  Parents[h] >= 0 <=> IntoIn(GA, h) \subseteq BP!Visited
      <4>1. Uncounted(C[i], h) = {} <=> IntoIn(GA, h) \subseteq C[i]
        BY <3>1 DEF Uncounted, IntoIn
      <4>2. /\ Cardinality(Uncounted(C[i], h)) \in Nat
            /\ Cardinality(Uncounted(C[i], h)) = 0 <=> Uncounted(C[i], h) = {}
        <5>1. PICK S : S = Uncounted(C[i], h)
          OBVIOUS
        <5>2. IsFiniteSet(GA) /\ S \subseteq GA
          BY <2>1, <5>1, BPFacts DEF Uncounted
        <5>3. IsFiniteSet(S)
          BY <5>2, FS_Subset
        <5> QED BY <5>1, <5>3, UncountedFacts
      <4>3. Parents[h] >= 0 <=> Uncounted(C[i], h) = {}
        BY <3>1, <4>2 DEF BPDone, Counts
      <4> QED BY <3>1, <4>1, <4>3 DEF BPDone
    <3> QED BY <3>1, <3>2 DEF BPDone, Begotten
  <2> QED BY <2>2, <2>3, <2>5, <2>6 DEF BP!HyperpathsAreFound, BP!Done
<1> QED BY <1>1, InitBPInv, BPInvKept, PTL DEF BP!Spec
=============================================================================
