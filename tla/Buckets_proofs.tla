--------------------------- MODULE Buckets_proofs ---------------------------
(***************************************************************************)
(* Proofs about the bucket structure, which keeps its priority queue and   *)
(* counts its copies, the table of sparseSet.h, whose sums are those of    *)
(* the inserts, the flags of remDuplicates, which leave one entry of each  *)
(* key, SetCover over the buckets as BucketSpec promises them,             *)
(* betweenness, BC and HyperBC, whose sums are those of the shortest       *)
(* paths, and HyperMIS.  What they share are the sums over finite sets;    *)
(* otherwise each is an instance of its own, in a behaviour of its own of  *)
(* ProgramsSpec.                                                           *)
(***************************************************************************)
EXTENDS Buckets, Programs, Sequences, FiniteSetTheorems, FunctionTheorems, WellFoundedInduction, TLAPS

-----------------------------------------------------------------------------
(* Sums over finite sets *)

\* Every set of naturals that is not empty has a least member.
LEMMA LeastMember ==
  ASSUME NEW S \in SUBSET Nat, S # {}
  PROVE  \E x \in S : \A y \in S : x <= y
<1> DEFINE R == {ss \in Nat \X Nat : ss[1] < ss[2]}
<1>1. IsWellFoundedOn(R, Nat)
  BY NatLessThanWellFounded DEF OpToRel
<1>2. \A x, y \in Nat : y < x => <<y, x>> \in R
  OBVIOUS
<1> HIDE DEF R
<1>3. PICK x \in S : \A y \in S : <<y, x>> \notin R
  BY <1>1, WFMin
<1>4. \A y \in S : ~(y < x) /\ y \in Nat /\ x \in Nat
  BY <1>2, <1>3
<1> QED BY <1>3, <1>4

\* Induction over the naturals, for a set.
LEMMA SetInduction ==
  ASSUME NEW S, 0 \in S, \A k \in Nat : k \in S => k + 1 \in S
  PROVE  Nat \subseteq S
<1> SUFFICES ASSUME NEW z \in Nat, z \notin S PROVE FALSE
  OBVIOUS
<1>1. PICK x \in Nat \ S : \A y \in Nat \ S : x <= y
  <2>1. Nat \ S \in SUBSET Nat /\ Nat \ S # {}
    OBVIOUS
  <2> QED BY <2>1, LeastMember
<1>2. x # 0 /\ x - 1 \in Nat
  OBVIOUS
<1>3. x - 1 \in S
  BY <1>1, <1>2
<1> QED BY <1>2, <1>3

\* What a fold over the subsets of S computes, up to size k.
SumsTo(g, f, S, k) ==
  g = [s \in {s \in SUBSET S : Cardinality(s) <= k} |->
         IF s = {} THEN 0
         ELSE LET x == CHOOSE x \in s : TRUE IN f[x] + g[s \ {x}]]

LEMMA SumsExist ==
  ASSUME NEW S, IsFiniteSet(S), NEW f
  PROVE  \A k \in Nat : \E g : SumsTo(g, f, S, k)
<1> DEFINE Done == {k \in Nat : \E g : SumsTo(g, f, S, k)}
           Upto(k) == {s \in SUBSET S : Cardinality(s) <= k}
           Pick(s) == CHOOSE x \in s : TRUE
<1>1. \A s \in SUBSET S : /\ IsFiniteSet(s) /\ Cardinality(s) \in Nat
                          /\ Cardinality(s) = 0 <=> s = {}
  BY FS_Subset, FS_CardinalityType, FS_EmptySet
<1>2. \A s \in SUBSET S : s # {} =>
        Pick(s) \in s /\ s \ {Pick(s)} \in SUBSET S /\ Cardinality(s \ {Pick(s)}) = Cardinality(s) - 1
  BY <1>1, FS_RemoveElement
<1>3. 0 \in Done
  <2> DEFINE g == [s \in Upto(0) |-> 0]
  <2>1. \A s \in Upto(0) : s = {}
    BY <1>1
  <2>2. SumsTo(g, f, S, 0)
    BY <2>1 DEF SumsTo
  <2> QED BY <2>2
<1>4. ASSUME NEW k \in Nat, k \in Done PROVE k + 1 \in Done
  <2>1. PICK g : SumsTo(g, f, S, k)
    BY <1>4
  <2>2. \A s \in Upto(k) : g[s] = IF s = {} THEN 0 ELSE f[Pick(s)] + g[s \ {Pick(s)}]
    BY <2>1 DEF SumsTo
  <2> DEFINE h == [s \in Upto(k + 1) |-> IF s = {} THEN 0 ELSE f[Pick(s)] + g[s \ {Pick(s)}]]
  <2>3. \A s \in Upto(k) : s \in Upto(k + 1) /\ h[s] = g[s]
    <3> TAKE s \in Upto(k)
    <3>1. s \in Upto(k + 1)
      BY <1>1
    <3> QED BY <2>2, <3>1
  <2>4. \A s \in Upto(k + 1) : s # {} => s \ {Pick(s)} \in Upto(k)
    <3> TAKE s \in Upto(k + 1)
    <3> HAVE s # {}
    <3>1. Cardinality(s) \in Nat /\ Cardinality(s) <= k + 1
      BY <1>1
    <3>2. s \ {Pick(s)} \in SUBSET S /\ Cardinality(s \ {Pick(s)}) = Cardinality(s) - 1
      BY <1>2
    <3> HIDE DEF Pick
    <3> QED BY <3>1, <3>2
  <2>5. \A s \in Upto(k + 1) : h[s] = IF s = {} THEN 0 ELSE f[Pick(s)] + h[s \ {Pick(s)}]
    <3> TAKE s \in Upto(k + 1)
    <3>1. h[s] = IF s = {} THEN 0 ELSE f[Pick(s)] + g[s \ {Pick(s)}]
      OBVIOUS
    <3>2. s # {} => h[s \ {Pick(s)}] = g[s \ {Pick(s)}]
      BY <2>3, <2>4
    <3> HIDE DEF h, Pick, Upto
    <3> QED BY <3>1, <3>2
  <2>6. h = [s \in Upto(k + 1) |-> IF s = {} THEN 0 ELSE f[Pick(s)] + h[s \ {Pick(s)}]]
    <3>1. h = [s \in Upto(k + 1) |-> h[s]]
      OBVIOUS
    <3> HIDE DEF h
    <3> QED BY <2>5, <3>1
  <2>7. SumsTo(h, f, S, k + 1)
    <3> HIDE DEF h
    <3> QED BY <2>6 DEF SumsTo
  <2> QED BY <2>7
<1> HIDE DEF Done
<1>5. Nat \subseteq Done
  BY <1>3, <1>4, SetInduction
<1> QED BY <1>5 DEF Done

AnElement(s) == CHOOSE x \in s : TRUE

\* The sums of f over the subsets of S, as the fold builds them.
Sums(f, S) == CHOOSE g : g = [s \in SUBSET S |->
                IF s = {} THEN 0 ELSE LET x == CHOOSE x \in s : TRUE IN f[x] + g[s \ {x}]]

LEMMA SumOverIs ==
  ASSUME NEW S, IsFiniteSet(S), NEW f
  PROVE  /\ SumOver(f, S) = Sums(f, S)[S]
         /\ \A s \in SUBSET S : Sums(f, S)[s] =
              IF s = {} THEN 0 ELSE f[AnElement(s)] + Sums(f, S)[s \ {AnElement(s)}]
<1>1. Cardinality(S) \in Nat /\ \A s \in SUBSET S : Cardinality(s) <= Cardinality(S)
  BY FS_CardinalityType, FS_Subset
<1>2. PICK g : SumsTo(g, f, S, Cardinality(S))
  BY <1>1, SumsExist
<1>3. {s \in SUBSET S : Cardinality(s) <= Cardinality(S)} = SUBSET S
  BY <1>1
<1>4. g = [s \in SUBSET S |-> IF s = {} THEN 0 ELSE LET x == CHOOSE x \in s : TRUE IN f[x] + g[s \ {x}]]
  BY <1>2, <1>3 DEF SumsTo
<1> DEFINE G == Sums(f, S)
<1>5. G = [s \in SUBSET S |-> IF s = {} THEN 0 ELSE LET x == CHOOSE x \in s : TRUE IN f[x] + G[s \ {x}]]
  BY <1>4 DEF Sums
<1>6. SumOver(f, S) = G[S]
  BY DEF SumOver, MapThenSumSet, MapThenFoldSet, Sums
<1> HIDE DEF G
<1>7. \A s \in SUBSET S : G[s] = IF s = {} THEN 0 ELSE f[AnElement(s)] + G[s \ {AnElement(s)}]
  BY <1>5 DEF AnElement
<1> QED BY <1>6, <1>7 DEF G

\* What holds of the empty set and of a set with one more element holds of all.
LEMMA SubsetInduction ==
  ASSUME NEW S, IsFiniteSet(S), NEW P,
         {} \in P, \A s \in SUBSET S, x \in S : s \in P /\ x \notin s => s \cup {x} \in P
  PROVE  SUBSET S \subseteq P
<1> DEFINE Upto == {k \in Nat : \A s \in SUBSET S : Cardinality(s) <= k => s \in P}
<1>1. \A s \in SUBSET S : /\ IsFiniteSet(s) /\ Cardinality(s) \in Nat
                          /\ Cardinality(s) = 0 <=> s = {}
  BY FS_Subset, FS_CardinalityType, FS_EmptySet
<1>2. 0 \in Upto
  <2> SUFFICES ASSUME NEW s \in SUBSET S, Cardinality(s) <= 0 PROVE s \in P
    OBVIOUS
  <2>1. Cardinality(s) = 0
    BY <1>1
  <2> QED BY <1>1, <2>1
<1>3. ASSUME NEW k \in Nat, k \in Upto PROVE k + 1 \in Upto
  <2> SUFFICES ASSUME NEW s \in SUBSET S, Cardinality(s) <= k + 1, s # {} PROVE s \in P
    <3> SUFFICES ASSUME NEW s \in SUBSET S, Cardinality(s) <= k + 1 PROVE s \in P
      OBVIOUS
    <3> QED OBVIOUS
  <2>1. PICK x \in s : TRUE
    OBVIOUS
  <2>2. s \ {x} \in SUBSET S /\ Cardinality(s \ {x}) = Cardinality(s) - 1
    BY <1>1, FS_RemoveElement
  <2>3. s \ {x} \in P
    BY <1>1, <1>3, <2>2
  <2>4. s = (s \ {x}) \cup {x} /\ x \in S /\ x \notin s \ {x}
    BY <2>1
  <2> HIDE DEF Upto
  <2> QED BY <2>2, <2>3, <2>4
<1> HIDE DEF Upto
<1>4. Nat \subseteq Upto
  BY <1>2, <1>3, SetInduction
<1>5. \A s \in SUBSET S : Cardinality(s) \in Nat /\ Cardinality(s) <= Cardinality(s)
  BY <1>1
<1> QED BY <1>4, <1>5 DEF Upto

\* The sum does not depend on the order in which the fold takes the elements.
LEMMA SumsSplit ==
  ASSUME NEW S, IsFiniteSet(S), NEW f, \A x \in S : f[x] \in Nat
  PROVE  \A s \in SUBSET S : /\ Sums(f, S)[s] \in Nat
                             /\ \A x \in s : Sums(f, S)[s] = f[x] + Sums(f, S)[s \ {x}]
<1> DEFINE G == Sums(f, S)
           Split(s) == G[s] \in Nat /\ \A x \in s : G[s] = f[x] + G[s \ {x}]
           Upto == {k \in Nat : \A s \in SUBSET S : Cardinality(s) <= k => Split(s)}
<1>1. \A s \in SUBSET S : /\ IsFiniteSet(s) /\ Cardinality(s) \in Nat
                          /\ Cardinality(s) = 0 <=> s = {}
                          /\ \A x \in s : Cardinality(s \ {x}) = Cardinality(s) - 1
  BY FS_Subset, FS_CardinalityType, FS_EmptySet, FS_RemoveElement
<1>2. \A s \in SUBSET S : G[s] = IF s = {} THEN 0 ELSE f[AnElement(s)] + G[s \ {AnElement(s)}]
  BY SumOverIs
<1> HIDE DEF G
<1>3. 0 \in Upto
  <2>1. Split({})
    BY <1>2
  <2> SUFFICES ASSUME NEW s \in SUBSET S, Cardinality(s) <= 0 PROVE Split(s)
    OBVIOUS
  <2>2. Cardinality(s) = 0
    BY <1>1
  <2>3. s = {}
    BY <1>1, <2>2
  <2> HIDE DEF Split
  <2> QED BY <2>1, <2>3
<1>4. ASSUME NEW k \in Nat, k \in Upto PROVE k + 1 \in Upto
  <2> SUFFICES ASSUME NEW s \in SUBSET S, Cardinality(s) <= k + 1, s # {} PROVE Split(s)
    <3>1. Split({})
      BY <1>2
    <3> SUFFICES ASSUME NEW s \in SUBSET S, Cardinality(s) <= k + 1 PROVE Split(s)
      OBVIOUS
    <3> HIDE DEF Split
    <3> QED BY <3>1
  <2>1. \A x \in s : Split(s \ {x})
    <3> TAKE x \in s
    <3>1. s \ {x} \in SUBSET S /\ Cardinality(s \ {x}) = Cardinality(s) - 1 /\ Cardinality(s) \in Nat
      BY <1>1
    <3>2. Cardinality(s \ {x}) <= k
      BY <3>1
    <3> HIDE DEF Split
    <3> QED BY <1>4, <3>1, <3>2
  <2> DEFINE y == AnElement(s)
  <2>2. y \in s /\ f[y] \in Nat /\ G[s] = f[y] + G[s \ {y}]
    <3>1. AnElement(s) \in s
      BY DEF AnElement
    <3> QED BY <1>2, <3>1
  <2> HIDE DEF y
  <2>3. G[s] \in Nat
    BY <2>1, <2>2
  <2>4. ASSUME NEW x \in s, x # y PROVE G[s] = f[x] + G[s \ {x}]
    <3>1. x \in s \ {y} /\ y \in s \ {x} /\ (s \ {y}) \ {x} = (s \ {x}) \ {y}
      BY <2>2, <2>4
    <3>2. G[s \ {y}] = f[x] + G[(s \ {y}) \ {x}]
      BY <2>1, <2>2, <3>1
    <3>3. G[s \ {x}] = f[y] + G[(s \ {y}) \ {x}]
      BY <2>1, <3>1
    <3>4. f[x] \in Nat /\ G[s \ {x}] \in Nat /\ G[s \ {y}] \in Nat
      BY <2>1, <2>2
    <3>5. G[(s \ {y}) \ {x}] \in Nat
      <4>1. Cardinality((s \ {y}) \ {x}) <= k /\ (s \ {y}) \ {x} \in SUBSET S
        BY <1>1, <2>2, <3>1
      <4>2. Split((s \ {y}) \ {x})
        BY <1>4, <4>1
      <4> QED BY <4>2
    <3> QED BY <2>2, <3>2, <3>3, <3>4, <3>5
  <2> QED BY <2>2, <2>3, <2>4
<1> HIDE DEF Upto
<1>5. Nat \subseteq Upto
  BY <1>3, <1>4, SetInduction
<1>6. \A s \in SUBSET S : Cardinality(s) \in Nat /\ Cardinality(s) <= Cardinality(s)
  BY <1>1
<1>7. \A s \in SUBSET S : Split(s)
  BY <1>5, <1>6 DEF Upto
<1> QED BY <1>7 DEF G

LEMMA SumIsNat ==
  ASSUME NEW S, IsFiniteSet(S), NEW f, \A x \in S : f[x] \in Nat
  PROVE  /\ SumOver(f, S) \in Nat
         /\ SumOver(f, S) = 0 => \A x \in S : f[x] = 0
<1>1. /\ SumOver(f, S) = Sums(f, S)[S]
      /\ \A s \in SUBSET S : /\ Sums(f, S)[s] \in Nat
                             /\ \A x \in s : Sums(f, S)[s] = f[x] + Sums(f, S)[s \ {x}]
  BY SumOverIs, SumsSplit
<1>2. SumOver(f, S) \in Nat
  BY <1>1
<1>3. ASSUME NEW x \in S, SumOver(f, S) = 0 PROVE f[x] = 0
  <2>1. Sums(f, S)[S] = f[x] + Sums(f, S)[S \ {x}] /\ Sums(f, S)[S \ {x}] \in Nat /\ f[x] \in Nat
    BY <1>1
  <2>2. Sums(f, S)[S] = 0
    BY <1>1, <1>3
  <2> QED BY <2>1, <2>2
<1> QED BY <1>2, <1>3

NatOn(f, S) == \A x \in S : f[x] \in Nat

\* Each entry of a table is that of a set with an element less, and its summand.
Splits(F, f, S) == \A s \in SUBSET S : F[s] \in Nat /\ \A x \in s : F[s] = f[x] + F[s \ {x}]

LEMMA SumsSplits ==
  ASSUME NEW S, IsFiniteSet(S), NEW f, NatOn(f, S)
  PROVE  Splits(Sums(f, S), f, S)
<1>1. \A x \in S : f[x] \in Nat
  BY DEF NatOn
<1>2. \A s \in SUBSET S : /\ Sums(f, S)[s] \in Nat
                          /\ \A x \in s : Sums(f, S)[s] = f[x] + Sums(f, S)[s \ {x}]
  BY <1>1, SumsSplit
<1> QED BY <1>2 DEF Splits

\* The sum over all but one element is an entry of the table of the whole set.
LEMMA SumWithout ==
  ASSUME NEW T, IsFiniteSet(T), NEW f, NatOn(f, T), NEW y \in T
  PROVE  /\ SumOver(f, T) = f[y] + SumOver(f, T \ {y})
         /\ SumOver(f, T \ {y}) \in Nat
<1> DEFINE S == T \ {y}
           F == Sums(f, S)
           G == Sums(f, T)
           Same == {s \in SUBSET S : G[s] = F[s]}
<1>1. IsFiniteSet(S) /\ NatOn(f, S) /\ S \subseteq T
  BY FS_Subset DEF NatOn
<1>2. Splits(G, f, T)
  BY SumsSplits
<1>3. SumOver(f, T) = G[T] /\ G[{}] = 0
  BY SumOverIs
<1> HIDE DEF G, S
<1>4. Splits(F, f, S)
  BY <1>1, SumsSplits
<1>5. SumOver(f, S) = F[S] /\ F[{}] = 0
  BY <1>1, SumOverIs
<1> HIDE DEF F
<1>6. {} \in Same
  BY <1>3, <1>5
<1>7. ASSUME NEW s \in SUBSET S, NEW x \in S, s \in Same, x \notin s PROVE s \cup {x} \in Same
  <2>1. (s \cup {x}) \ {x} = s /\ s \cup {x} \in SUBSET S /\ s \cup {x} \in SUBSET T /\ x \in s \cup {x}
    BY <1>1, <1>7
  <2>2. F[s \cup {x}] = f[x] + F[(s \cup {x}) \ {x}] /\ G[s \cup {x}] = f[x] + G[(s \cup {x}) \ {x}]
    BY <1>2, <1>4, <2>1 DEF Splits
  <2>3. F[s \cup {x}] = f[x] + F[s] /\ G[s \cup {x}] = f[x] + G[s]
    BY <2>1, <2>2
  <2> QED BY <1>7, <2>1, <2>3
<1> HIDE DEF Same
<1>8. SUBSET S \subseteq Same
  BY <1>1, <1>6, <1>7, SubsetInduction
<1>9. G[S] = F[S] /\ F[S] \in Nat
  BY <1>4, <1>8 DEF Same, Splits
<1>10. G[T] = f[y] + G[S]
  BY <1>2 DEF S, Splits
<1> QED BY <1>3, <1>5, <1>9, <1>10 DEF S

\* An element more adds its summand.
LEMMA SumAdds ==
  ASSUME NEW S, IsFiniteSet(S), NEW y, y \notin S, NEW f, NatOn(f, S \cup {y})
  PROVE  /\ SumOver(f, {}) = 0 /\ SumOver(f, S) \in Nat
         /\ SumOver(f, S \cup {y}) = SumOver(f, S) + f[y]
<1>1. SumOver(f, {}) = 0
  BY FS_EmptySet, SumOverIs
<1>2. IsFiniteSet(S \cup {y}) /\ y \in S \cup {y} /\ (S \cup {y}) \ {y} = S
  BY FS_AddElement
<1>3. /\ SumOver(f, S \cup {y}) = f[y] + SumOver(f, (S \cup {y}) \ {y})
      /\ SumOver(f, (S \cup {y}) \ {y}) \in Nat
  BY <1>2, SumWithout
<1>4. f[y] \in Nat
  BY <1>2 DEF NatOn
<1>5. SumOver(f, S \cup {y}) = f[y] + SumOver(f, S) /\ SumOver(f, S) \in Nat
  BY <1>2, <1>3
<1> QED BY <1>1, <1>4, <1>5

\* Changing one summand changes the sum by the difference.
LEMMA SumChanges ==
  ASSUME NEW S, IsFiniteSet(S), NEW f, \A x \in S : f[x] \in Nat,
         NEW g, \A x \in S : g[x] \in Nat, NEW y \in S, \A x \in S : x # y => g[x] = f[x]
  PROVE  SumOver(g, S) = SumOver(f, S) - f[y] + g[y]
<1> DEFINE F == Sums(f, S)
           G == Sums(g, S)
           Same == {s \in SUBSET S : y \notin s => G[s] = F[s]}
<1>1. /\ SumOver(f, S) = F[S] /\ SumOver(g, S) = G[S]
      /\ F[{}] = 0 /\ G[{}] = 0
  BY SumOverIs
<1>2. \A s \in SUBSET S : /\ F[s] \in Nat /\ G[s] \in Nat
                          /\ \A x \in s : F[s] = f[x] + F[s \ {x}] /\ G[s] = g[x] + G[s \ {x}]
  BY SumsSplit
<1> HIDE DEF F, G
<1>3. {} \in Same
  BY <1>1
<1>4. ASSUME NEW s \in SUBSET S, NEW x \in S, s \in Same, x \notin s PROVE s \cup {x} \in Same
  <2> SUFFICES ASSUME y \notin s \cup {x} PROVE G[s \cup {x}] = F[s \cup {x}]
    OBVIOUS
  <2>1. (s \cup {x}) \ {x} = s /\ s \cup {x} \in SUBSET S /\ g[x] = f[x] /\ G[s] = F[s]
    BY <1>4
  <2>2. F[s \cup {x}] = f[x] + F[s] /\ G[s \cup {x}] = g[x] + G[s]
    <3>1. x \in s \cup {x}
      OBVIOUS
    <3>2. /\ F[s \cup {x}] = f[x] + F[(s \cup {x}) \ {x}]
          /\ G[s \cup {x}] = g[x] + G[(s \cup {x}) \ {x}]
      BY <1>2, <2>1, <3>1
    <3> QED BY <2>1, <3>2
  <2> QED BY <2>1, <2>2
<1> HIDE DEF Same
<1>5. SUBSET S \subseteq Same
  BY <1>3, <1>4, SubsetInduction
<1>6. G[S \ {y}] = F[S \ {y}]
  BY <1>5 DEF Same
<1>7. F[S] = f[y] + F[S \ {y}] /\ G[S] = g[y] + G[S \ {y}]
  BY <1>2
<1>8. F[S \ {y}] \in Nat /\ f[y] \in Nat /\ g[y] \in Nat
  BY <1>2
<1> QED BY <1>1, <1>6, <1>7, <1>8

ChangesAt(S, f, g, y) ==
  /\ IsFiniteSet(S) /\ y \in S /\ (\A x \in S : f[x] \in Nat) /\ (\A x \in S : g[x] \in Nat)
  /\ \A x \in S : x # y => g[x] = f[x]

LEMMA SumChangesAt ==
  ASSUME NEW S, NEW f, NEW g, NEW y, ChangesAt(S, f, g, y)
  PROVE  SumOver(g, S) = SumOver(f, S) - f[y] + g[y]
<1>1. /\ IsFiniteSet(S) /\ y \in S /\ (\A x \in S : f[x] \in Nat) /\ (\A x \in S : g[x] \in Nat)
      /\ \A x \in S : x # y => g[x] = f[x]
  BY DEF ChangesAt
<1> QED BY <1>1, SumChanges

LEMMA SumOfZeros ==
  ASSUME NEW S, IsFiniteSet(S), NEW f,
         \A x \in S : f[x] \in Nat
  PROVE  (\A x \in S : f[x] = 0) => SumOver(f, S) = 0
<1> DEFINE F == Sums(f, S)
           Zero == {s \in SUBSET S : F[s] = 0}
<1>1. SumOver(f, S) = F[S] /\ F[{}] = 0
  BY SumOverIs
<1>2. \A s \in SUBSET S : /\ F[s] \in Nat
                          /\ \A x \in s : F[s] = f[x] + F[s \ {x}]
  BY SumsSplit
<1> HIDE DEF F
<1> SUFFICES ASSUME \A x \in S : f[x] = 0 PROVE SumOver(f, S) = 0
  OBVIOUS
<1>3. ASSUME NEW s \in SUBSET S, NEW x \in S, s \in Zero, x \notin s PROVE s \cup {x} \in Zero
  <2>1. (s \cup {x}) \ {x} = s /\ s \cup {x} \in SUBSET S /\ x \in s \cup {x}
    BY <1>3
  <2>2. F[s \cup {x}] = f[x] + F[(s \cup {x}) \ {x}]
    BY <1>2, <2>1
  <2>3. F[s] = 0 /\ f[x] = 0
    BY <1>3
  <2>4. F[s \cup {x}] = 0
    <3> HIDE DEF Zero
    <3> QED BY <2>1, <2>2, <2>3
  <2> QED BY <2>1, <2>4
<1>4. {} \in Zero
  BY <1>1
<1> HIDE DEF Zero
<1>5. SUBSET S \subseteq Zero
  BY <1>3, <1>4, SubsetInduction
<1> QED BY <1>1, <1>5 DEF Zero
-----------------------------------------------------------------------------
(* One good copy, for any number of identifiers and buckets.  Both orders  *)
(* are one when a key stands for its place Ord in the order of the search: *)
(* the open range begins at Base, the search has come to Here, and bucket  *)
(* i holds the place Base + i.  A copy in an open bucket lies at or behind *)
(* its identifier's place, because places only move forward to where the   *)
(* copy is made, so a move never meets an old copy at its destination.     *)
Ord(k) == IF order = "increasing" THEN k ELSE -k - 1
Base(r) == IF order = "increasing" THEN r * open_buckets ELSE -(r * open_buckets)
Here == Base(cur_range) + cur_bkt
Place(v) == Ord(D[v])
SpotAt(k, r) == IF Ord(k) < Base(r) + open_buckets THEN Ord(k) - Base(r) ELSE open_buckets
Spot(v) == SpotAt(D[v], cur_range)

BType ==
  /\ order \in {"increasing", "decreasing"} /\ D \in [Ids -> Keys \cup {null_bkt}]
  /\ live \subseteq Ids /\ movable \subseteq Ids
  /\ bkts \in [0 .. open_buckets -> [Ids -> Nat]]
  /\ cur_bkt \in 0 .. open_buckets - 1 /\ cur_range \in Int
  /\ phase \in {"user", "next", "exit"}

LiveCopies == \A v \in live :
  D[v] # null_bkt /\ Here <= Place(v) /\ bkts[Spot(v)][v] = 1
TakenGone == phase # "exit" =>
  /\ \A v \in Ids \ live : order = "increasing" /\ D[v] # null_bkt =>
       Place(v) <= Here /\ (Base(cur_range) <= Place(v) => bkts[Spot(v)][v] = 0)
  /\ \A v \in Ids, i \in 0 .. open_buckets :
       order = "decreasing" /\ bkts[i][v] > 0 => v \in live /\ i = Spot(v)
CopiesBehind == order = "increasing" =>
  \A v \in Ids, i \in 0 .. open_buckets : bkts[i][v] > 0 =>
    D[v] # null_bkt /\ (i < open_buckets => Place(v) <= Base(cur_range) + i)
UserKnows == phase = "user" /\ bkt.id # null_bkt =>
  /\ bkt.id \in Keys /\ bkt.id = CurBucketNum
  /\ \A v \in movable : /\ v \in live => Place(v) # Here
                        /\ bkt.identifiers[v] > 0 => v \notin live /\ D[v] = bkt.id

BInv == BType /\ LiveCopies /\ TakenGone /\ CopiesBehind /\ UserKnows /\ NoCopyBehind

LEMMA DivRange ==
  ASSUME NEW B \in Int, B > 0, NEW k \in Int, NEW r \in Int
  PROVE  /\ r * B <= k /\ k < (r + 1) * B => k \div B = r /\ k % B = k - r * B
         /\ k \div B \in Int /\ (k \div B) * B <= k /\ k < (k \div B + 1) * B
<1>1. k \div B \in Int /\ (k \div B) * B <= k /\ k < (k \div B + 1) * B /\ k % B = k - (k \div B) * B
  BY Z3
<1>2. r * B <= k /\ k < (r + 1) * B => k \div B = r
  BY Z3
<1> QED BY <1>1, <1>2

LEMMA RangeBounds ==
  ASSUME NEW B \in Int, NEW r \in Int
  PROVE  r * B \in Int /\ (r + 1) * B = r * B + B /\ (r - 1) * B = r * B - B
  BY Z3

LEMMA RangesInOrder ==
  ASSUME NEW B \in Int, B > 0, NEW r \in Int, NEW q \in Int, r <= q
  PROVE  r * B <= q * B
  BY Z3

\* to_range and get_cur_bucket_num by places.
LEMMA ToRangeIs ==
  ASSUME order \in {"increasing", "decreasing"}, NEW k \in Int, NEW r \in Int
  PROVE  /\ Ord(k) \in Int /\ Base(r) \in Int
         /\ Ord(k) < Base(r) => ToRange(k, r) = null_bkt
         /\ Base(r) <= Ord(k) => ToRange(k, r) = SpotAt(k, r) /\ SpotAt(k, r) \in 0 .. open_buckets
<1>1. open_buckets \in Int /\ open_buckets > 0
  BY BucketsAssumption
<1>2. /\ r * open_buckets \in Int /\ (r + 1) * open_buckets = r * open_buckets + open_buckets
      /\ (r - 1) * open_buckets = r * open_buckets - open_buckets
  BY <1>1, RangeBounds
<1>3. CASE order = "increasing"
  <2>1. r * open_buckets <= k /\ k < (r + 1) * open_buckets => k % open_buckets = k - r * open_buckets
    BY <1>1, DivRange
  <2> QED BY <1>1, <1>2, <1>3, <2>1 DEF Ord, Base, ToRange, SpotAt
<1>4. CASE order = "decreasing"
  <2>1. PICK s \in Int : s = r - 1 /\ s + 1 = r
    OBVIOUS
  <2>2. s * open_buckets <= k /\ k < (s + 1) * open_buckets => k % open_buckets = k - s * open_buckets
    BY <1>1, DivRange
  <2>3. s * open_buckets = r * open_buckets - open_buckets /\ (s + 1) * open_buckets = r * open_buckets
    BY <1>2, <2>1
  <2> QED BY <1>1, <1>2, <1>4, <2>1, <2>2, <2>3 DEF Ord, Base, ToRange, SpotAt
<1> QED BY <1>3, <1>4

LEMMA MinKeyIs ==
  ASSUME NEW S \in SUBSET Nat, S # {}
  PROVE  MinKeyOf(S) \in S /\ \A k \in S : MinKeyOf(S) <= k
<1> DEFINE R == OpToRel(<, Nat)
<1>1. \A x, y \in Nat : x < y => <<x, y>> \in R
  BY Zenon DEF OpToRel
<1>2. IsWellFoundedOn(R, Nat)
  BY NatLessThanWellFounded
<1> HIDE DEF R
<1>3. PICK k \in S : \A j \in S : ~(<<j, k>> \in R)
  BY <1>2, WFMin
<1>4. \A j \in S : ~(j < k)
  BY <1>1, <1>3
<1>5. \A j \in S : k <= j
  BY <1>4
<1> QED BY <1>3, <1>5 DEF MinKeyOf

LEMMA MaxKeyIs ==
  ASSUME NEW S \in SUBSET Keys, S # {}
  PROVE  MaxKeyOf(S) \in S /\ \A k \in S : k <= MaxKeyOf(S)
<1> DEFINE Gaps == {MaxKey - k : k \in S}
<1>1. MaxKey \in Nat /\ S \subseteq 0 .. MaxKey
  BY BucketsAssumption DEF Keys
<1>2. Gaps \in SUBSET Nat /\ Gaps # {}
  <2>1. \A k \in S : MaxKey - k \in Nat
    BY <1>1
  <2> QED BY <2>1
<1>3. PICK g \in Gaps : \A h \in Gaps : g <= h
  BY <1>2, MinKeyIs
<1>4. PICK k \in S : g = MaxKey - k
  BY <1>3
<1>5. \A j \in S : MaxKey - k <= MaxKey - j
  BY <1>3, <1>4
<1>6. \A j \in S : j <= k
  BY <1>1, <1>5
<1> QED BY <1>6 DEF MaxKeyOf

\* What the rest of the proof uses of the types.
LEMMA BTypeGives ==
  ASSUME BType
  PROVE  /\ open_buckets \in Int /\ open_buckets > 0 /\ null_bkt \notin 0 .. open_buckets
         /\ Base(cur_range) \in Int /\ Here \in Int /\ Here = Base(cur_range) + cur_bkt
         /\ cur_bkt \in Int /\ 0 <= cur_bkt /\ cur_bkt < open_buckets
         /\ \A v \in Ids : D[v] \in Int /\ Place(v) \in Int /\ Place(v) = Ord(D[v])
         /\ CurBucketNum \in Int /\ Ord(CurBucketNum) = Here
<1>1. open_buckets \in Int /\ open_buckets > 0 /\ null_bkt \notin 0 .. open_buckets
  BY BucketsAssumption
<1>2. cur_bkt \in Int /\ 0 <= cur_bkt /\ cur_bkt < open_buckets /\ cur_range \in Int
  BY <1>1 DEF BType
<1>3. cur_range * open_buckets \in Int
  BY <1>1, <1>2, RangeBounds
<1>4. \A v \in Ids : D[v] \in Int
  BY BucketsAssumption DEF BType, Keys
<1>5. Base(cur_range) \in Int /\ \A v \in Ids : Ord(D[v]) \in Int
  BY <1>3, <1>4 DEF Base, Ord
<1>6. order \in {"increasing", "decreasing"}
  BY DEF BType
<1>7. CurBucketNum \in Int /\ Ord(CurBucketNum) = Base(cur_range) + cur_bkt
  BY <1>2, <1>3, <1>6 DEF CurBucketNum, Ord, Base
<1> QED BY <1>1, <1>2, <1>4, <1>5, <1>7 DEF Here, Place

LEMMA InsertIs ==
  ASSUME NEW bs \in [0 .. open_buckets -> [Ids -> Nat]], NEW count \in [Ids -> Nat], NEW dest
  PROVE  /\ Insert(bs, count, dest) \in [0 .. open_buckets -> [Ids -> Nat]]
         /\ \A i \in 0 .. open_buckets, v \in Ids :
              Insert(bs, count, dest)[i][v] = bs[i][v] + (IF dest[v] = i THEN count[v] ELSE 0)
  BY DEF Insert

\* The first range begins at or before every key.
LEMMA FirstRangeIs ==
  ASSUME order \in {"increasing", "decreasing"}, NEW d \in [Ids -> Keys \cup {null_bkt}]
  PROVE  /\ FirstRange(d) \in Int
         /\ \A v \in Ids : d[v] # null_bkt => Base(FirstRange(d)) <= Ord(d[v])
<1>0. \A v \in Ids : d[v] \in Int
  BY BucketsAssumption DEF Keys
<1>1. open_buckets \in Int /\ open_buckets > 0 /\ Ids # {} /\ null_bkt \in Nat /\ Keys \subseteq Nat /\ 0 \in Keys
  BY BucketsAssumption DEF Keys
<1>2. CASE order = "increasing"
  <2> DEFINE S == {d[v] : v \in Ids}
  <2>1. S \in SUBSET Nat /\ S # {}
    BY <1>1
  <2>2. MinKeyOf(S) \in Nat /\ \A k \in S : MinKeyOf(S) <= k
    BY <2>1, MinKeyIs
  <2> DEFINE m == MinKeyOf(S)
  <2>3. m \in Int /\ \A v \in Ids : d[v] \in Int /\ m <= d[v]
    BY <2>1, <2>2
  <2>4. FirstRange(d) = m \div open_buckets
    BY <1>2 DEF FirstRange
  <2> HIDE DEF m
  <2>5. m \div open_buckets \in Int /\ (m \div open_buckets) * open_buckets <= m
    BY <1>1, <2>3, DivRange
  <2>6. (m \div open_buckets) * open_buckets \in Int
    BY <1>1, <2>5, RangeBounds
  <2> QED BY <1>2, <2>3, <2>4, <2>5, <2>6 DEF Base, Ord
<1>3. CASE order = "decreasing"
  <2> DEFINE S == {IF d[v] = null_bkt THEN 0 ELSE d[v] : v \in Ids}
  <2>1. S \in SUBSET Keys /\ S # {}
    BY <1>1
  <2>2. MaxKeyOf(S) \in Nat /\ \A k \in S : k <= MaxKeyOf(S)
    BY <1>1, <2>1, MaxKeyIs
  <2> DEFINE m == MaxKeyOf(S)
  <2>3. m \in Int /\ \A v \in Ids : d[v] \in Int /\ (d[v] # null_bkt => d[v] <= m)
    <3>1. m \in Int /\ \A k \in S : k <= m
      BY <2>2
    <3> HIDE DEF m
    <3>2. \A v \in Ids : d[v] # null_bkt => d[v] \in S
      BY Zenon
    <3> QED BY <1>0, <3>1, <3>2
  <2>4. FirstRange(d) = (m + open_buckets) \div open_buckets
    BY <1>3 DEF FirstRange
  <2> HIDE DEF m
  <2>5. PICK q \in Int : q = (m + open_buckets) \div open_buckets /\ m + open_buckets < (q + 1) * open_buckets
    <3>1. m + open_buckets \in Int
      BY <1>1, <2>3
    <3> QED BY <1>1, <3>1, DivRange
  <2>6. q * open_buckets \in Int /\ (q + 1) * open_buckets = q * open_buckets + open_buckets
    BY <1>1, RangeBounds
  <2>7. FirstRange(d) = q
    BY <2>4, <2>5
  <2>8. m < q * open_buckets
    BY <1>1, <2>3, <2>5, <2>6
  <2> QED BY <1>3, <2>3, <2>6, <2>7, <2>8 DEF Base, Ord
<1> QED BY <1>2, <1>3

LEMMA InitBInv == Init => BInv
<1> SUFFICES ASSUME Init PROVE BInv
  OBVIOUS
<1> DEFINE none == [i \in 0 .. open_buckets |-> Empty]
           one == [v \in Ids |-> 1]
           dest == [v \in Ids |-> IF D[v] = null_bkt THEN null_bkt ELSE ToRange(D[v], cur_range)]
<1>1. /\ order \in {"increasing", "decreasing"} /\ D \in [Ids -> Keys \cup {null_bkt}]
      /\ live = {v \in Ids : D[v] # null_bkt} /\ cur_range = FirstRange(D) /\ cur_bkt = 0
      /\ bkts = Insert(none, one, dest) /\ phase = "next" /\ movable = {}
  BY Zenon DEF Init
<1>2. open_buckets \in Nat /\ open_buckets > 0
  BY BucketsAssumption
<1>3. none \in [0 .. open_buckets -> [Ids -> Nat]] /\ one \in [Ids -> Nat]
  BY DEF Empty
<1>4. bkts \in [0 .. open_buckets -> [Ids -> Nat]]
  <2> HIDE DEF none, one, dest
  <2> QED BY <1>1, <1>3, InsertIs
<1>5. \A i \in 0 .. open_buckets, v \in Ids : bkts[i][v] = IF dest[v] = i THEN 1 ELSE 0
  <2> SUFFICES ASSUME NEW i \in 0 .. open_buckets, NEW v \in Ids PROVE bkts[i][v] = IF dest[v] = i THEN 1 ELSE 0
    OBVIOUS
  <2>1. none[i][v] = 0 /\ one[v] = 1
    BY DEF Empty
  <2> HIDE DEF none, one, dest
  <2>2. Insert(none, one, dest)[i][v] = none[i][v] + (IF dest[v] = i THEN one[v] ELSE 0)
    BY DEF Insert
  <2> QED BY <1>1, <2>1, <2>2
<1> HIDE DEF none, one
<1>6. cur_range \in Int /\ \A v \in Ids : D[v] # null_bkt => Base(cur_range) <= Place(v)
  BY <1>1, FirstRangeIs DEF Place
<1>7. BType
  BY <1>1, <1>2, <1>4, <1>6 DEF BType
<1>8. \A v \in Ids : D[v] # null_bkt => dest[v] = Spot(v) /\ Spot(v) \in 0 .. open_buckets
  BY <1>1, <1>6, <1>7, BTypeGives, ToRangeIs DEF Spot
<1>9. \A v \in Ids : D[v] = null_bkt => dest[v] = null_bkt
  OBVIOUS
<1> HIDE DEF dest
<1>10. LiveCopies
  BY <1>1, <1>5, <1>6, <1>7, <1>8, BTypeGives DEF LiveCopies
<1>11. \A v \in Ids, i \in 0 .. open_buckets : bkts[i][v] > 0 => v \in live /\ i = Spot(v)
  <2> SUFFICES ASSUME NEW v \in Ids, NEW i \in 0 .. open_buckets, bkts[i][v] > 0 PROVE v \in live /\ i = Spot(v)
    OBVIOUS
  <2>1. dest[v] = i
    BY <1>5
  <2>2. D[v] # null_bkt
    BY <1>7, <1>9, <2>1, BTypeGives
  <2> QED BY <1>1, <1>8, <2>1, <2>2
<1>12. TakenGone
  BY <1>1, <1>11 DEF TakenGone
<1>13. CopiesBehind
  <2> SUFFICES ASSUME NEW v \in Ids, NEW i \in 0 .. open_buckets, bkts[i][v] > 0
               PROVE D[v] # null_bkt /\ (i < open_buckets => Place(v) <= Base(cur_range) + i)
    BY DEF CopiesBehind
  <2>1. D[v] # null_bkt /\ i = SpotAt(D[v], cur_range)
    BY <1>1, <1>11 DEF Spot
  <2> QED BY <1>2, <1>7, <2>1, BTypeGives DEF SpotAt
<1> QED BY <1>1, <1>7, <1>10, <1>12, <1>13 DEF BInv, UserKnows, NoCopyBehind

LEMMA AdvanceBInv == BInv /\ Advance => BInv'
<1> SUFFICES ASSUME BInv, Advance PROVE BInv'
  OBVIOUS
<1>1. /\ phase = "next" /\ bkts[cur_bkt] = Empty /\ cur_bkt + 1 # open_buckets /\ cur_bkt' = cur_bkt + 1
      /\ UNCHANGED <<D, order, live, bkts, cur_range, phase, bkt, movable>>
  BY DEF Advance, Searching
<1>2. BType /\ BType'
  BY <1>1, BucketsAssumption DEF BInv, BType
<1>3. Base(cur_range)' = Base(cur_range) /\ \A v \in Ids : Place(v)' = Place(v) /\ Spot(v)' = Spot(v)
  BY <1>1 DEF Place, Spot, SpotAt, Base, Ord
<1>4. Here' = Here + 1
  BY <1>1, <1>2, <1>3, BTypeGives DEF Here
<1>5. LiveCopies'
  <2> SUFFICES ASSUME NEW v \in live PROVE D[v] # null_bkt /\ Here + 1 <= Place(v) /\ bkts[Spot(v)][v] = 1
    BY <1>1, <1>2, <1>3, <1>4 DEF LiveCopies, BType
  <2>1. v \in Ids /\ D[v] # null_bkt /\ Here <= Place(v) /\ bkts[Spot(v)][v] = 1
    BY <1>2 DEF BInv, LiveCopies, BType
  <2>2. Spot(v) # cur_bkt
    BY <1>1, <2>1 DEF Empty
  <2>3. Place(v) # Here
    BY <1>2, <2>1, <2>2, BTypeGives DEF Spot, SpotAt
  <2> QED BY <1>2, <2>1, <2>3, BTypeGives
<1>6. TakenGone'
  <2>1. TakenGone
    BY DEF BInv
  <2> QED BY <1>1, <1>2, <1>3, <1>4, <2>1, BTypeGives DEF TakenGone
<1>7. CopiesBehind'
  BY <1>1, <1>3 DEF BInv, CopiesBehind
<1>8. NoCopyBehind'
  <2> SUFFICES ASSUME NEW i \in 0 .. cur_bkt' - 1 PROVE bkts[i] = Empty
    BY <1>1 DEF NoCopyBehind, Empty
  <2>1. i \in 0 .. cur_bkt - 1 \/ i = cur_bkt
    BY <1>1, <1>2, BTypeGives
  <2> QED BY <1>1, <2>1 DEF BInv, NoCopyBehind
<1> QED BY <1>1, <1>2, <1>5, <1>6, <1>7, <1>8 DEF BInv, UserKnows

LEMMA GetCurBucketBInv == BInv /\ GetCurBucket => BInv'
<1> SUFFICES ASSUME BInv, GetCurBucket PROVE BInv'
  OBVIOUS
<1> DEFINE b == bkts[cur_bkt]
           got == [v \in Ids |-> IF D[v] = CurBucketNum THEN b[v] ELSE 0]
<1>1. /\ phase = "next" /\ bkts' = [bkts EXCEPT ![cur_bkt] = Empty]
      /\ UNCHANGED <<D, order, cur_bkt, cur_range>>
      /\ \/ got = Empty /\ UNCHANGED <<phase, bkt, live, movable>>
         \/ /\ phase' = "user" /\ bkt' = [id |-> CurBucketNum, identifiers |-> got]
            /\ live' = live \ {v \in Ids : got[v] > 0} /\ movable' = Ids /\ got # Empty
  BY Zenon DEF GetCurBucket
<1>2. BType /\ LiveCopies /\ TakenGone /\ CopiesBehind /\ NoCopyBehind
  BY DEF BInv
<1>3. cur_bkt \in 0 .. open_buckets - 1 /\ bkts \in [0 .. open_buckets -> [Ids -> Nat]] /\ live \subseteq Ids
      /\ open_buckets \in Nat /\ cur_bkt \in 0 .. open_buckets
  BY <1>2, BucketsAssumption DEF BType
<1>4. b \in [Ids -> Nat] /\ got \in [Ids -> Nat] /\ \A v \in Ids : got[v] = IF D[v] = CurBucketNum THEN b[v] ELSE 0
  BY <1>3
<1>5. \A i \in 0 .. open_buckets, v \in Ids : bkts'[i][v] = IF i = cur_bkt THEN 0 ELSE bkts[i][v]
  BY <1>1, <1>3 DEF Empty
<1>6. BType'
  <2>1. Empty \in [Ids -> Nat]
    BY DEF Empty
  <2>2. bkts' \in [0 .. open_buckets -> [Ids -> Nat]]
    BY <1>1, <1>3, <2>1
  <2> QED BY <1>1, <1>2, <2>2 DEF BType
<1>7. /\ Base(cur_range)' = Base(cur_range) /\ Here' = Here
      /\ \A v \in Ids : Place(v)' = Place(v) /\ Spot(v)' = Spot(v)
  BY <1>1 DEF Place, Spot, SpotAt, Base, Ord, Here
<1>8. \A v \in Ids : Place(v) = Here => D[v] = CurBucketNum /\ Spot(v) = cur_bkt
  <2> SUFFICES ASSUME NEW v \in Ids, Place(v) = Here PROVE D[v] = CurBucketNum /\ Spot(v) = cur_bkt
    OBVIOUS
  <2>1. D[v] \in Int /\ CurBucketNum \in Int /\ Ord(D[v]) = Ord(CurBucketNum)
    BY <1>2, BTypeGives
  <2>2. D[v] = CurBucketNum
    BY <2>1 DEF Ord
  <2> QED BY <1>2, <2>2, BTypeGives DEF Spot, SpotAt
<1>9. \A v \in Ids : got[v] > 0 => b[v] > 0 /\ D[v] = CurBucketNum /\ Place(v) = Here
  BY <1>2, <1>4, BTypeGives
<1>10. \A v \in live : Place(v) = Here => got[v] > 0
  <2> SUFFICES ASSUME NEW v \in live, Place(v) = Here PROVE got[v] > 0
    OBVIOUS
  <2>1. v \in Ids /\ bkts[Spot(v)][v] = 1
    BY <1>2, <1>3 DEF LiveCopies
  <2>2. b[v] = 1 /\ D[v] = CurBucketNum
    BY <1>8, <2>1
  <2> HIDE DEF b, got
  <2> QED BY <1>4, <2>1, <2>2
<1>11. got = Empty => \A v \in Ids : got[v] = 0
  BY DEF Empty
<1>12. live' \subseteq live /\ \A v \in live' : Place(v) # Here
  <2> HIDE DEF b, got
  <2> QED BY <1>1, <1>3, <1>4, <1>10, <1>11
<1>13. \A v \in live : v \notin live' => Place(v) = Here
  BY <1>1, <1>3, <1>9
<1> HIDE DEF got, b
<1>14. LiveCopies'
  <2> SUFFICES ASSUME NEW v \in live' PROVE D[v] # null_bkt /\ Here <= Place(v) /\ bkts'[Spot(v)][v] = 1
    BY <1>1, <1>3, <1>7, <1>12 DEF LiveCopies
  <2>1. v \in Ids /\ D[v] # null_bkt /\ Here <= Place(v) /\ bkts[Spot(v)][v] = 1
    BY <1>2, <1>3, <1>12 DEF LiveCopies
  <2>2. Spot(v) \in 0 .. open_buckets /\ Spot(v) # cur_bkt
    BY <1>2, <1>12, <2>1, BTypeGives DEF Spot, SpotAt
  <2> QED BY <1>5, <2>1, <2>2
<1>15. TakenGone'
  <2>1. \A v \in Ids \ live : order = "increasing" /\ D[v] # null_bkt =>
          Place(v) <= Here /\ (Base(cur_range) <= Place(v) => bkts[Spot(v)][v] = 0)
    BY <1>1, <1>2 DEF TakenGone
  <2>2. \A v \in Ids, i \in 0 .. open_buckets :
          order = "decreasing" /\ bkts[i][v] > 0 => v \in live /\ i = Spot(v)
    BY <1>1, <1>2 DEF TakenGone
  <2>3. ASSUME NEW v \in Ids \ live', order = "increasing", D[v] # null_bkt
        PROVE  Place(v) <= Here /\ (Base(cur_range) <= Place(v) => bkts'[Spot(v)][v] = 0)
    <3>1. CASE v \in live
      BY <1>2, <1>3, <1>5, <1>8, <1>13, <2>3, <3>1, BTypeGives
    <3>2. CASE v \notin live
      <4>1. Place(v) <= Here
        BY <2>1, <2>3, <3>2
      <4>2. Base(cur_range) <= Place(v) => Spot(v) \in 0 .. open_buckets
        BY <1>2, <4>1, BTypeGives DEF Spot, SpotAt
      <4> QED BY <1>5, <2>1, <2>3, <3>2, <4>1, <4>2
    <3> QED BY <3>1, <3>2
  <2>4. ASSUME NEW v \in Ids, NEW i \in 0 .. open_buckets, order = "decreasing", bkts'[i][v] > 0
        PROVE  v \in live' /\ i = Spot(v)
    <3>1. i # cur_bkt /\ bkts[i][v] > 0
      BY <1>5, <2>4
    <3>2. v \in live /\ i = Spot(v)
      BY <2>2, <2>4, <3>1
    <3> QED BY <1>8, <1>13, <3>1, <3>2
  <2> QED BY <1>1, <1>7, <2>3, <2>4 DEF TakenGone
<1>16. CopiesBehind'
  BY <1>1, <1>2, <1>5, <1>7 DEF CopiesBehind
<1>17. NoCopyBehind'
  <2> SUFFICES ASSUME NEW i \in 0 .. cur_bkt - 1 PROVE bkts'[i] = Empty
    BY <1>1 DEF NoCopyBehind, Empty
  <2>1. bkts'[i] = bkts[i]
    BY <1>1, <1>3
  <2> QED BY <1>2, <2>1 DEF NoCopyBehind
<1>18. UserKnows'
  <2>1. CASE phase' = phase
    BY <1>1, <2>1 DEF UserKnows
  <2>2. CASE phase' # phase
    <3>1. bkt' = [id |-> CurBucketNum, identifiers |-> got] /\ live' = live \ {v \in Ids : got[v] > 0} /\ got # Empty
      BY <1>1, <2>2
    <3>2. bkt'.id = CurBucketNum /\ bkt'.identifiers = got /\ CurBucketNum' = CurBucketNum
      BY <1>1, <3>1 DEF CurBucketNum
    <3>3. PICK v \in Ids : got[v] > 0
      BY <1>4, <3>1 DEF Empty
    <3>4. D[v] # null_bkt
      <4>1. bkts[cur_bkt][v] > 0
        BY <1>9, <3>3 DEF b
      <4>2. CASE order = "increasing"
        BY <1>2, <1>3, <4>1, <4>2 DEF CopiesBehind
      <4>3. CASE order = "decreasing"
        <5>1. v \in live
          BY <1>1, <1>2, <1>3, <4>1, <4>3 DEF TakenGone
        <5> QED BY <1>2, <5>1 DEF LiveCopies
      <4> QED BY <1>2, <4>2, <4>3 DEF BType
    <3>5. CurBucketNum \in Keys
      BY <1>2, <1>9, <3>3, <3>4 DEF BType
    <3>6. movable' \subseteq Ids
      BY <1>6 DEF BType
    <3> QED BY <1>1, <1>7, <1>9, <1>12, <3>1, <3>2, <3>5, <3>6 DEF UserKnows
  <2> QED BY <2>1, <2>2
<1> QED BY <1>6, <1>14, <1>15, <1>16, <1>17, <1>18 DEF BInv

\* The range skipped to ends before the first key of the overflow bucket and begins no
\* earlier than the range that follows, if no key is in that one.
LEMMA SkipRangeIs ==
  ASSUME order \in {"increasing", "decreasing"}, cur_range \in Int, D \in [Ids -> Keys \cup {null_bkt}],
         NEW over \in [Ids -> Nat], over # Empty,
         \A v \in Ids : over[v] > 0 =>
           D[v] # null_bkt /\ Base(NextRange) + open_buckets <= Ord(D[v])
  PROVE  /\ SkipRange(over) \in Int /\ Base(NextRange) <= Base(SkipRange(over))
         /\ \A v \in Ids : over[v] > 0 => Base(SkipRange(over)) + open_buckets <= Ord(D[v])
<1> DEFINE ks == {D[v] : v \in {v \in Ids : over[v] > 0}}
<1>1. open_buckets \in Int /\ open_buckets > 0 /\ Keys \subseteq Nat /\ NextRange \in Int
  BY BucketsAssumption DEF Keys, NextRange
<1>2. ks \in SUBSET Keys /\ \A v \in Ids : over[v] > 0 => D[v] \in ks
  <2>1. \A v \in Ids : over[v] > 0 => D[v] \in Keys
    OBVIOUS
  <2> QED BY <2>1
<1>3. \A k \in ks : k \in Int /\ Base(NextRange) + open_buckets <= Ord(k)
  <2> SUFFICES ASSUME NEW v \in Ids, over[v] > 0 PROVE D[v] \in Int /\ Base(NextRange) + open_buckets <= Ord(D[v])
    OBVIOUS
  <2> HIDE DEF ks
  <2>1. D[v] \in Keys
    BY <1>2
  <2>2. Base(NextRange) + open_buckets <= Ord(D[v])
    OBVIOUS
  <2>3. D[v] \in Int
    BY BucketsAssumption, <2>1 DEF Keys
  <2> QED BY <2>2, <2>3
<1>4. ks # {}
  <2>1. PICK v \in Ids : over[v] > 0
    BY DEF Empty
  <2> QED BY <1>2, <2>1
<1>5. CASE order = "increasing"
  <2> DEFINE m == MinKeyOf(ks)
  <2>1. SkipRange(over) = m \div open_buckets - 1
    BY <1>5 DEF SkipRange
  <2>2. ks \in SUBSET Nat
    BY <1>1, <1>2
  <2> HIDE DEF ks
  <2>3. m \in ks /\ \A k \in ks : m <= k
    BY <1>4, <2>2, MinKeyIs
  <2> HIDE DEF m
  <2>4. m \in Int /\ Base(NextRange) + open_buckets <= m
    BY <1>3, <1>5, <2>3 DEF Ord
  <2>5. PICK q \in Int : q = m \div open_buckets /\ q * open_buckets <= m /\ m < (q + 1) * open_buckets
    BY <1>1, <2>4, DivRange
  <2>6. /\ q * open_buckets \in Int /\ (q + 1) * open_buckets = q * open_buckets + open_buckets
        /\ (q - 1) * open_buckets = q * open_buckets - open_buckets
        /\ NextRange * open_buckets \in Int
    BY <1>1, RangeBounds
  <2>7. NextRange * open_buckets <= (q - 1) * open_buckets
    <3>1. NextRange * open_buckets < q * open_buckets
      BY <1>1, <1>5, <2>4, <2>5, <2>6 DEF Base
    <3>2. ~(q <= NextRange)
      BY <1>1, <2>6, <3>1, RangesInOrder
    <3>3. q - 1 \in Int /\ NextRange <= q - 1
      BY <1>1, <3>2
    <3> QED BY <1>1, <3>3, RangesInOrder
  <2>8. SkipRange(over) = q - 1 /\ q - 1 \in Int
    BY <2>1, <2>5
  <2>9. Base(NextRange) = NextRange * open_buckets /\ Base(SkipRange(over)) = (q - 1) * open_buckets
    BY <1>5, <2>8 DEF Base
  <2>10. \A k \in ks : Base(SkipRange(over)) + open_buckets <= Ord(k)
    <3> SUFFICES ASSUME NEW k \in ks PROVE Base(SkipRange(over)) + open_buckets <= k
      BY <1>5 DEF Ord
    <3> QED BY <1>1, <1>3, <2>3, <2>4, <2>5, <2>6, <2>9
  <2> QED BY <1>2, <2>7, <2>8, <2>9, <2>10
<1>6. CASE order = "decreasing"
  <2> DEFINE m == MaxKeyOf(ks)
  <2>1. SkipRange(over) = (open_buckets + m) \div open_buckets + 1
    BY <1>6 DEF SkipRange
  <2> HIDE DEF ks
  <2>2. m \in ks /\ \A k \in ks : k <= m
    BY <1>2, <1>4, MaxKeyIs
  <2> HIDE DEF m
  <2>3. m \in Int /\ Base(NextRange) + open_buckets <= -m - 1
    BY <1>3, <1>6, <2>2 DEF Ord
  <2>4. open_buckets + m \in Int
    BY <1>1, <2>3
  <2>5. PICK q \in Int : /\ q = (open_buckets + m) \div open_buckets
                         /\ q * open_buckets <= open_buckets + m /\ open_buckets + m < (q + 1) * open_buckets
    BY <1>1, <2>4, DivRange
  <2>6. /\ q * open_buckets \in Int /\ (q + 1) * open_buckets = q * open_buckets + open_buckets
        /\ NextRange * open_buckets \in Int
    BY <1>1, RangeBounds
  <2>7. (q + 1) * open_buckets <= NextRange * open_buckets
    <3>1. q * open_buckets < NextRange * open_buckets
      BY <1>1, <1>6, <2>3, <2>5, <2>6 DEF Base
    <3>2. ~(NextRange <= q)
      BY <1>1, <2>6, <3>1, RangesInOrder
    <3>3. q + 1 \in Int /\ q + 1 <= NextRange
      BY <1>1, <3>2
    <3> QED BY <1>1, <3>3, RangesInOrder
  <2>8. SkipRange(over) = q + 1 /\ q + 1 \in Int
    BY <2>1, <2>5
  <2>9. Base(NextRange) = -(NextRange * open_buckets) /\ Base(SkipRange(over)) = -((q + 1) * open_buckets)
    BY <1>6, <2>8 DEF Base
  <2>10. \A k \in ks : Base(SkipRange(over)) + open_buckets <= Ord(k)
    <3> SUFFICES ASSUME NEW k \in ks PROVE Base(SkipRange(over)) + open_buckets <= -k - 1
      BY <1>6 DEF Ord
    <3> QED BY <1>1, <1>3, <2>2, <2>3, <2>5, <2>6, <2>9
  <2>11. Base(NextRange) <= Base(SkipRange(over))
    BY <1>1, <2>6, <2>7, <2>9
  <2> QED BY <1>2, <2>8, <2>10, <2>11
<1> QED BY <1>5, <1>6

\* Opening any range r no later than the places of the overflow bucket, which holds all
\* the copies, keeps the invariant when each copy goes where r puts it.
LEMMA DistributedBInv ==
  ASSUME BInv, phase = "next", UNCHANGED <<D, order, live, phase, bkt, movable>>,
         cur_bkt' = 0, cur_range' \in Int, Here <= Base(cur_range'),
         bkts' \in [0 .. open_buckets -> [Ids -> Nat]],
         \A v \in live : Base(cur_range') <= Ord(D[v]) /\ bkts'[SpotAt(D[v], cur_range')][v] = 1,
         \A v \in Ids, i \in 0 .. open_buckets : bkts'[i][v] > 0 =>
           bkts[open_buckets][v] > 0 /\ i = SpotAt(D[v], cur_range'),
         \A v \in Ids \ live : order = "increasing" /\ D[v] # null_bkt => Ord(D[v]) < Base(cur_range')
  PROVE  BInv'
<1>1. BType /\ LiveCopies /\ TakenGone /\ CopiesBehind
  BY DEF BInv
<1>2. BType'
  BY <1>1, BucketsAssumption DEF BType
<1>3. /\ order' = order /\ Base(cur_range)' = Base(cur_range') /\ Here' = Base(cur_range') /\ Base(cur_range') \in Int
      /\ \A v \in Ids : Place(v)' = Ord(D[v]) /\ Spot(v)' = SpotAt(D[v], cur_range')
      /\ \A v \in Ids : Ord(D[v]) \in Int /\ Place(v) = Ord(D[v])
  <2>1. Base(cur_range)' = Base(cur_range') /\ \A v \in Ids : Place(v)' = Ord(D[v]) /\ Spot(v)' = SpotAt(D[v], cur_range')
    BY DEF Base, Place, Spot, SpotAt, Ord
  <2>2. Base(cur_range') \in Int
    BY <1>1, ToRangeIs DEF BType
  <2>3. Here' = Base(cur_range')
    BY <2>1, <2>2 DEF Here
  <2> QED BY <1>1, <2>1, <2>2, <2>3, BTypeGives
<1>4. LiveCopies'
  <2> SUFFICES ASSUME NEW v \in live
               PROVE  /\ D[v] # null_bkt /\ Base(cur_range') <= Ord(D[v])
                      /\ bkts'[SpotAt(D[v], cur_range')][v] = 1
    BY <1>1, <1>3 DEF LiveCopies, BType
  <2>1. v \in Ids /\ D[v] # null_bkt
    BY <1>1 DEF LiveCopies, BType
  <2> QED BY <2>1
<1>5. TakenGone'
  <2>1. \A v \in Ids, i \in 0 .. open_buckets : order = "decreasing" /\ bkts'[i][v] > 0 =>
          v \in live /\ i = SpotAt(D[v], cur_range')
    BY <1>1, BTypeGives DEF TakenGone
  <2>2. \A v \in Ids \ live : order = "increasing" /\ D[v] # null_bkt =>
          Ord(D[v]) <= Base(cur_range') /\ ~(Base(cur_range') <= Ord(D[v]))
    BY <1>3
  <2> QED BY <1>3, <2>1, <2>2 DEF TakenGone
<1>6. CopiesBehind'
  <2> SUFFICES ASSUME order = "increasing", NEW v \in Ids, NEW i \in 0 .. open_buckets, bkts'[i][v] > 0
               PROVE  D[v] # null_bkt /\ (i < open_buckets => Ord(D[v]) <= Base(cur_range') + i)
    BY <1>3 DEF CopiesBehind
  <2>1. D[v] # null_bkt
    BY <1>1, BTypeGives DEF CopiesBehind
  <2>2. i = SpotAt(D[v], cur_range')
    OBVIOUS
  <2> QED BY <1>1, <1>3, <2>1, <2>2, BTypeGives DEF SpotAt
<1> QED BY <1>2, <1>4, <1>5, <1>6 DEF BInv, UserKnows, NoCopyBehind

LEMMA UnpackBInv == BInv /\ Unpack => BInv'
<1> SUFFICES ASSUME BInv, Unpack PROVE BInv'
  OBVIOUS
<1> DEFINE over == bkts[open_buckets]
           rest == bkts'[open_buckets]
<1>1. /\ phase = "next" /\ bkts[cur_bkt] = Empty /\ cur_bkt + 1 = open_buckets /\ cur_bkt' = 0
      /\ UNCHANGED <<D, order, live, bkt, movable>>
      /\ \/ phase' = "exit" /\ UNCHANGED <<bkts, cur_range>>
         \/ /\ phase' = phase /\ bkts' = Distribute(over)
            /\ cur_range' = IF NoneInRange(bkts') /\ rest # Empty THEN SkipRange(rest) ELSE NextRange
  BY Zenon DEF Unpack, Searching
<1>2. BType /\ LiveCopies /\ TakenGone /\ CopiesBehind /\ NoCopyBehind
  BY DEF BInv
<1>3. /\ open_buckets \in Int /\ open_buckets > 0 /\ cur_range \in Int /\ order \in {"increasing", "decreasing"}
      /\ D \in [Ids -> Keys \cup {null_bkt}] /\ bkts \in [0 .. open_buckets -> [Ids -> Nat]] /\ live \subseteq Ids
  BY <1>2, BucketsAssumption DEF BType
<1>4. CASE phase' = "exit" /\ UNCHANGED <<bkts, cur_range>>
  <2>1. BType'
    BY <1>1, <1>2, <1>3, <1>4 DEF BType
  <2>2. /\ Base(cur_range)' = Base(cur_range) /\ \A v \in Ids : Place(v)' = Place(v) /\ Spot(v)' = Spot(v)
    BY <1>1, <1>4 DEF Place, Spot, SpotAt, Base, Ord
  <2>3. Here' <= Here
    BY <1>1, <1>2, <2>2, BTypeGives DEF Here
  <2>4. Here' \in Int
    BY <1>1, <1>2, <2>2, BTypeGives DEF Here
  <2>5. LiveCopies'
    BY <1>1, <1>2, <1>3, <1>4, <2>2, <2>3, <2>4, BTypeGives DEF LiveCopies
  <2>6. CopiesBehind'
    BY <1>1, <1>2, <1>4, <2>2 DEF CopiesBehind
  <2> QED BY <1>1, <1>4, <2>1, <2>5, <2>6 DEF BInv, TakenGone, UserKnows, NoCopyBehind
<1>5. CASE phase' = phase /\ bkts' = Distribute(over)
           /\ cur_range' = IF NoneInRange(bkts') /\ rest # Empty THEN SkipRange(rest) ELSE NextRange
  <2>1. NextRange \in Int /\ Base(NextRange) = Base(cur_range) + open_buckets
    BY <1>3, RangeBounds DEF NextRange, Base
  <2>2. Base(cur_range) \in Int /\ Here \in Int /\ Here + 1 = Base(NextRange)
    BY <1>1, <1>2, <2>1, BTypeGives
  <2>3. \A i \in 0 .. open_buckets - 1 : bkts[i] = Empty
    BY <1>1, <1>2, <1>3, BTypeGives DEF NoCopyBehind
  <2>4. \A v \in live : /\ D[v] # null_bkt /\ Ord(D[v]) \in Int /\ Base(NextRange) <= Ord(D[v]) /\ over[v] = 1
    <3> SUFFICES ASSUME NEW v \in live
                 PROVE D[v] # null_bkt /\ Ord(D[v]) \in Int /\ Base(NextRange) <= Ord(D[v]) /\ over[v] = 1
      OBVIOUS
    <3>1. v \in Ids /\ D[v] # null_bkt /\ Here <= Place(v) /\ bkts[Spot(v)][v] = 1
      BY <1>2, <1>3 DEF LiveCopies
    <3>2. ~(Spot(v) \in 0 .. open_buckets - 1)
      BY <2>3, <3>1 DEF Empty
    <3>3. Place(v) \in Int /\ Place(v) = Ord(D[v])
      BY <1>2, <3>1, BTypeGives
    <3>4. Base(NextRange) <= Ord(D[v]) /\ Spot(v) = open_buckets
      <4>1. Spot(v) = IF Ord(D[v]) < Base(cur_range) + open_buckets THEN Ord(D[v]) - Base(cur_range)
                      ELSE open_buckets
        BY DEF Spot, SpotAt
      <4>2. Ord(D[v]) \in Int /\ Here <= Ord(D[v])
        BY <3>1, <3>3
      <4>3. Base(cur_range) <= Ord(D[v])
        BY <1>2, <4>2, BTypeGives
      <4>4. ~(Ord(D[v]) < Base(cur_range) + open_buckets)
        BY <1>3, <2>2, <3>2, <4>1, <4>2, <4>3
      <4> QED BY <1>3, <2>1, <2>2, <4>1, <4>2, <4>4
    <3> QED BY <3>1, <3>3, <3>4
  <2>5. over \in [Ids -> Nat]
    BY <1>3
  <2>6. bkts' \in [0 .. open_buckets -> [Ids -> Nat]]
    <3>1. [bkts EXCEPT ![open_buckets] = Empty] \in [0 .. open_buckets -> [Ids -> Nat]]
      BY <1>3 DEF Empty
    <3> HIDE DEF over
    <3> QED BY <1>5, <2>5, <3>1 DEF Distribute, Insert
  <2>7. \A v \in Ids, i \in 0 .. open_buckets :
          bkts'[i][v] = IF ToRange(D[v], NextRange) = i THEN over[v] ELSE 0
    <3> SUFFICES ASSUME NEW v \in Ids, NEW i \in 0 .. open_buckets
                 PROVE  bkts'[i][v] = IF ToRange(D[v], NextRange) = i THEN over[v] ELSE 0
      OBVIOUS
    <3>1. [bkts EXCEPT ![open_buckets] = Empty][i] = Empty
      BY <1>3, <2>3
    <3>2. Empty[v] = 0 /\ over[v] \in Nat
      BY <2>5 DEF Empty
    <3> HIDE DEF over
    <3>3. bkts'[i][v] = [bkts EXCEPT ![open_buckets] = Empty][i][v]
                          + (IF ToRange(D[v], NextRange) = i THEN over[v] ELSE 0)
      BY <1>5 DEF Distribute, Insert
    <3> QED BY <3>1, <3>2, <3>3
  <2>8. \A v \in Ids : over[v] > 0 => D[v] # null_bkt /\ (order = "decreasing" => v \in live)
    <3> SUFFICES ASSUME NEW v \in Ids, over[v] > 0 PROVE D[v] # null_bkt /\ (order = "decreasing" => v \in live)
      OBVIOUS
    <3>1. CASE order = "increasing"
      BY <1>2, <1>3, <3>1 DEF CopiesBehind
    <3>2. CASE order = "decreasing"
      BY <1>1, <1>2, <1>3, <2>4, <3>2 DEF TakenGone
    <3> QED BY <1>3, <3>1, <3>2
  <2>9. \A v \in Ids : /\ Ord(D[v]) \in Int /\ D[v] \in Int
                       /\ Ord(D[v]) < Base(NextRange) => ToRange(D[v], NextRange) = null_bkt
                       /\ Base(NextRange) <= Ord(D[v]) =>
                            /\ ToRange(D[v], NextRange) = SpotAt(D[v], NextRange)
                            /\ SpotAt(D[v], NextRange) \in 0 .. open_buckets
    BY <1>2, <1>3, <2>1, BTypeGives, ToRangeIs
  <2>10. \A v \in Ids, i \in 0 .. open_buckets : bkts'[i][v] > 0 =>
           over[v] > 0 /\ i = SpotAt(D[v], NextRange) /\ Base(NextRange) <= Ord(D[v])
    <3> SUFFICES ASSUME NEW v \in Ids, NEW i \in 0 .. open_buckets, bkts'[i][v] > 0
                 PROVE  over[v] > 0 /\ i = SpotAt(D[v], NextRange) /\ Base(NextRange) <= Ord(D[v])
      OBVIOUS
    <3>1. ToRange(D[v], NextRange) = i /\ over[v] > 0
      BY <2>7
    <3> HIDE DEF over
    <3>2. i # null_bkt
      BY BucketsAssumption
    <3>3. Base(NextRange) <= Ord(D[v])
      BY <2>1, <2>2, <2>9, <3>1, <3>2
    <3> QED BY <2>9, <3>1, <3>3
  <2>11. \A v \in Ids \ live : order = "increasing" /\ D[v] # null_bkt => Ord(D[v]) < Base(NextRange)
    BY <1>1, <1>2, <2>2, BTypeGives DEF TakenGone
  <2> HIDE DEF over
  <2>12. CASE cur_range' = NextRange
    <3>1. \A v \in live : bkts'[SpotAt(D[v], NextRange)][v] = 1
      BY <1>3, <2>4, <2>7, <2>9
    <3> QED BY <1>1, <1>5, <2>1, <2>2, <2>4, <2>6, <2>10, <2>11, <2>12, <3>1, DistributedBInv DEF over
  <2>13. CASE NoneInRange(bkts') /\ rest # Empty /\ cur_range' = SkipRange(rest)
    <3>1. rest \in [Ids -> Nat] /\ \A v \in Ids : rest[v] > 0 =>
            D[v] # null_bkt /\ Base(NextRange) + open_buckets <= Ord(D[v])
      <4>1. rest \in [Ids -> Nat]
        BY <1>3, <2>6
      <4>2. \A v \in Ids : rest[v] > 0 =>
              over[v] > 0 /\ open_buckets = SpotAt(D[v], NextRange) /\ Base(NextRange) <= Ord(D[v])
        BY <1>3, <2>10
      <4> QED BY <1>3, <2>1, <2>2, <2>8, <2>9, <4>1, <4>2 DEF SpotAt
    <3>2. \A i \in 0 .. open_buckets, v \in Ids : bkts'[i][v] > 0 => i = open_buckets
      <4>1. \A i \in 0 .. open_buckets - 1 : bkts'[i] = Empty
        BY <2>13 DEF NoneInRange
      <4> HIDE DEF rest
      <4>2. \A v \in Ids : Empty[v] = 0
        BY DEF Empty
      <4>3. \A i \in 0 .. open_buckets : i # open_buckets => i \in 0 .. open_buckets - 1
        BY <1>3
      <4>4. \A i \in 0 .. open_buckets - 1, v \in Ids : bkts'[i][v] = 0
        BY <4>1, <4>2
      <4> QED BY <4>3, <4>4
    <3> HIDE DEF rest
    <3>3. /\ cur_range' \in Int /\ Base(NextRange) <= Base(cur_range')
          /\ \A v \in Ids : rest[v] > 0 => Base(cur_range') + open_buckets <= Ord(D[v])
      BY <1>3, <2>13, <3>1, SkipRangeIs
    <3>4. Base(cur_range') \in Int /\ Base(NextRange) \in Int /\ Here <= Base(cur_range')
      BY <1>3, <2>1, <2>2, <3>3, ToRangeIs
    <3>5. \A v \in Ids : rest[v] > 0 => SpotAt(D[v], cur_range') = open_buckets /\ Base(cur_range') <= Ord(D[v])
      BY <1>3, <2>9, <3>3, <3>4 DEF SpotAt
    <3>6. \A v \in Ids, i \in 0 .. open_buckets : bkts'[i][v] > 0 => over[v] > 0 /\ i = SpotAt(D[v], cur_range')
      BY <2>10, <3>2, <3>5 DEF rest
    <3>7. \A v \in live : rest[v] = 1 /\ v \in Ids
      <4> SUFFICES ASSUME NEW v \in live PROVE rest[v] = 1 /\ v \in Ids
        OBVIOUS
      <4>1. v \in Ids /\ over[v] = 1 /\ bkts'[SpotAt(D[v], NextRange)][v] = over[v]
            /\ SpotAt(D[v], NextRange) \in 0 .. open_buckets
        BY <1>3, <2>4, <2>7, <2>9
      <4>2. SpotAt(D[v], NextRange) = open_buckets
        BY <3>2, <4>1
      <4> QED BY <4>1, <4>2 DEF rest
    <3>8. \A v \in live : Base(cur_range') <= Ord(D[v]) /\ bkts'[SpotAt(D[v], cur_range')][v] = 1
      BY <3>5, <3>7 DEF rest
    <3>9. \A v \in Ids \ live : order = "increasing" /\ D[v] # null_bkt => Ord(D[v]) < Base(cur_range')
      BY <2>9, <2>11, <3>3, <3>4
    <3> QED BY <1>1, <1>5, <2>6, <3>3, <3>4, <3>6, <3>8, <3>9, DistributedBInv DEF over
  <2> QED BY <1>5, <2>12, <2>13
<1> QED BY <1>1, <1>4, <1>5

\* What a move does to the copies of the identifier that moves, and what it was allowed.
LEMMA MoveGives ==
  ASSUME BInv, NEW v \in Ids, NEW k \in Keys \cup {null_bkt}, Move(v, k)
  PROVE  /\ D' = [D EXCEPT ![v] = k] /\ live' = IF k = null_bkt THEN live \ {v} ELSE live \cup {v}
         /\ bkts' \in [0 .. open_buckets -> [Ids -> Nat]] /\ movable' = movable \ {v}
         /\ phase = "user" /\ UNCHANGED <<order, cur_bkt, cur_range, phase, bkt>>
         /\ \A u \in Ids, i \in 0 .. open_buckets : u # v => bkts'[i][u] = bkts[i][u]
         /\ k = null_bkt => /\ order = "decreasing" /\ v \notin live
                            /\ \A i \in 0 .. open_buckets : bkts'[i][v] = 0
         /\ k # null_bkt =>
              /\ k \in Int /\ Ord(k) \in Int /\ Here <= Ord(k) /\ SpotAt(k, cur_range) \in 0 .. open_buckets
              /\ bkts'[SpotAt(k, cur_range)][v] = 1
              /\ \A i \in 0 .. open_buckets : bkts'[i][v] > 0 =>
                   \/ i = SpotAt(k, cur_range)
                   \/ order = "increasing" /\ (i < open_buckets => Ord(k) <= Base(cur_range) + i)
              /\ \A i \in 0 .. cur_bkt - 1 : bkts'[i] = bkts[i]
<1> DEFINE pb == ToRange(D[v], cur_range)
           nb == SpotAt(k, cur_range)
           dest == IF k = null_bkt THEN null_bkt ELSE GetBucket(D[v], k)
           one == [u \in Ids |-> 1]
           dests == [u \in Ids |-> IF u = v THEN dest ELSE null_bkt]
<1>1. /\ phase = "user" /\ v \in movable /\ bkt.id # null_bkt /\ MayMove(v, k)
      /\ D' = [D EXCEPT ![v] = k] /\ live' = IF k = null_bkt THEN live \ {v} ELSE live \cup {v}
      /\ bkts' = Insert(bkts, one, dests) /\ movable' = movable \ {v}
      /\ UNCHANGED <<order, cur_bkt, cur_range, phase, bkt>>
  BY Zenon DEF Move
<1>2. BType /\ LiveCopies /\ TakenGone /\ CopiesBehind /\ NoCopyBehind /\ UserKnows
  BY DEF BInv
<1>3. /\ open_buckets \in Int /\ open_buckets > 0 /\ cur_range \in Int /\ order \in {"increasing", "decreasing"}
      /\ D \in [Ids -> Keys \cup {null_bkt}] /\ bkts \in [0 .. open_buckets -> [Ids -> Nat]] /\ live \subseteq Ids
      /\ null_bkt \notin 0 .. open_buckets /\ Keys \subseteq Nat /\ null_bkt \in Nat
      /\ \A j \in Keys : j < null_bkt
  BY <1>2, BucketsAssumption DEF BType, Keys
<1>4. /\ bkt.id \in Keys /\ bkt.id = CurBucketNum /\ Ord(bkt.id) = Here
      /\ v \in live => Place(v) # Here
      /\ bkt.identifiers[v] > 0 => v \notin live /\ D[v] = bkt.id
  BY <1>1, <1>2, BTypeGives DEF UserKnows
<1>41. /\ order = "increasing" => bkt.id <= k /\ k <= D[v] /\ (v \in live \/ D[v] \in {bkt.id, null_bkt}) /\ k # null_bkt
       /\ order = "decreasing" => v \notin live /\ D[v] = bkt.id /\ (k <= bkt.id \/ k = null_bkt)
  BY <1>1, <1>3, <1>4 DEF MayMove
<1>42. order = "decreasing" => \A i \in 0 .. open_buckets : bkts[i][v] = 0
  BY <1>1, <1>2, <1>3, <1>41 DEF TakenGone
<1>43. /\ bkt.id \in Int /\ Here \in Int /\ Base(cur_range) \in Int /\ Here = Base(cur_range) + cur_bkt
       /\ cur_bkt \in 0 .. open_buckets - 1 /\ cur_bkt \in Int
       /\ D[v] \in Int /\ Ord(D[v]) \in Int /\ Place(v) = Ord(D[v])
  BY <1>2, <1>3, <1>4, BTypeGives
<1>5. \A i \in 0 .. open_buckets : bkts'[i][v] = bkts[i][v] + (IF dest = i THEN 1 ELSE 0)
  <2> SUFFICES ASSUME NEW i \in 0 .. open_buckets PROVE bkts'[i][v] = bkts[i][v] + (IF dest = i THEN 1 ELSE 0)
    OBVIOUS
  <2> HIDE DEF dest
  <2> QED BY <1>1 DEF Insert
<1>6. \A u \in Ids, i \in 0 .. open_buckets : u # v => bkts'[i][u] = bkts[i][u]
  <2> SUFFICES ASSUME NEW i \in 0 .. open_buckets, NEW u \in Ids, u # v PROVE bkts'[i][u] = bkts[i][u]
    OBVIOUS
  <2> HIDE DEF dest
  <2>1. bkts'[i][u] = bkts[i][u] + (IF null_bkt = i THEN 1 ELSE 0)
    BY <1>1 DEF Insert
  <2> QED BY <1>3, <2>1
<1>7. bkts' \in [0 .. open_buckets -> [Ids -> Nat]]
  <2> HIDE DEF dests
  <2> QED BY <1>1, <1>3 DEF Insert
<1>8. CASE k = null_bkt
  <2>1. order = "decreasing" /\ v \notin live /\ dest = null_bkt
    BY <1>3, <1>8, <1>41
  <2> HIDE DEF dest
  <2>2. \A i \in 0 .. open_buckets : bkts'[i][v] = 0
    <3> SUFFICES ASSUME NEW i \in 0 .. open_buckets PROVE bkts'[i][v] = 0
      OBVIOUS
    <3>1. bkts[i][v] = 0 /\ dest # i
      BY <1>3, <1>42, <2>1
    <3> QED BY <1>5, <3>1
  <2> QED BY <1>1, <1>6, <1>7, <1>8, <2>1, <2>2
<1>9. CASE k # null_bkt
  <2>1. k \in Int /\ k \in Keys /\ Ord(k) \in Int
    BY <1>3, <1>9, ToRangeIs
  <2>2. Here <= Ord(k)
    <3>1. CASE order = "increasing"
      BY <1>4, <1>41, <1>43, <2>1, <3>1 DEF Ord
    <3>2. CASE order = "decreasing"
      BY <1>4, <1>9, <1>41, <1>43, <2>1, <3>2 DEF Ord
    <3> QED BY <1>3, <3>1, <3>2
  <2>3. ToRange(k, cur_range) = nb /\ nb \in 0 .. open_buckets /\ cur_bkt <= nb /\ nb # null_bkt
        /\ (nb < open_buckets => Ord(k) = Base(cur_range) + nb)
        /\ (nb = open_buckets => Base(cur_range) + open_buckets <= Ord(k))
    <3>1. Base(cur_range) <= Ord(k)
      BY <1>2, <2>1, <2>2, BTypeGives
    <3>2. ToRange(k, cur_range) = nb /\ nb \in 0 .. open_buckets
      BY <1>3, <2>1, <3>1, ToRangeIs
    <3>3. cur_bkt <= nb /\ nb # null_bkt
      BY <1>3, <1>43, <2>1, <2>2, <3>1, <3>2 DEF SpotAt
    <3>4. /\ nb < open_buckets => Ord(k) = Base(cur_range) + nb
          /\ nb = open_buckets => Base(cur_range) + open_buckets <= Ord(k)
      BY <1>3, <1>43, <2>1, <2>2, <3>1, <3>2 DEF SpotAt
    <3> HIDE DEF nb
    <3> QED BY <3>2, <3>3, <3>4
  <2>4. dest = IF D[v] = null_bkt \/ pb # nb \/ nb = cur_bkt THEN nb ELSE null_bkt
    BY <1>9, <2>3 DEF GetBucket
  <2>5. D[v] \in Int /\ Ord(D[v]) \in Int /\ Place(v) = Ord(D[v])
    BY <1>2, BTypeGives
  <2> HIDE DEF dest, nb, pb
  <2>51. \/ D[v] = null_bkt
         \/ Ord(D[v]) < Base(cur_range) /\ pb = null_bkt
         \/ Base(cur_range) <= Ord(D[v]) /\ pb = Spot(v) /\ pb \in 0 .. open_buckets
              /\ (pb < open_buckets => Ord(D[v]) = Base(cur_range) + pb)
              /\ (pb = open_buckets => Base(cur_range) + open_buckets <= Ord(D[v]))
    <3>1. Ord(D[v]) < Base(cur_range) => pb = null_bkt
      BY <1>3, <1>43, ToRangeIs DEF pb
    <3>2. Base(cur_range) <= Ord(D[v]) => pb = Spot(v) /\ pb \in 0 .. open_buckets
      BY <1>3, <1>43, ToRangeIs DEF pb, Spot
    <3> QED BY <1>3, <1>43, <3>1, <3>2 DEF Spot, SpotAt
  <2>52. order = "increasing" => Ord(k) <= Ord(D[v])
    BY <1>41, <1>43, <2>1 DEF Ord
  <2>6. dest = nb => bkts[nb][v] = 0
    <3> SUFFICES ASSUME dest = nb PROVE bkts[nb][v] = 0
      OBVIOUS
    <3>1. CASE order = "decreasing"
      BY <1>42, <2>3, <3>1
    <3>2. CASE order = "increasing" /\ D[v] = null_bkt
      BY <1>2, <1>3, <2>3, <3>2 DEF CopiesBehind
    <3>3. CASE order = "increasing" /\ D[v] # null_bkt /\ v \in live
      <4>1. Here <= Ord(D[v]) /\ Ord(D[v]) # Here
        BY <1>2, <1>4, <1>43, <3>3 DEF LiveCopies
      <4>2. pb # nb
        BY <1>3, <1>43, <2>3, <2>4, <2>51, <3>3, <4>1
      <4>3. nb < open_buckets /\ Base(cur_range) + nb < Ord(D[v])
        <5>1. Base(cur_range) <= Ord(D[v]) /\ nb \in Int
          BY <1>3, <1>43, <2>3, <4>1
        <5>2. Base(cur_range) + nb <= Ord(D[v]) /\ nb <= open_buckets
          BY <1>3, <1>43, <2>1, <2>3, <2>52, <3>3, <5>1
        <5>3. /\ pb \in 0 .. open_buckets
              /\ pb < open_buckets => Ord(D[v]) = Base(cur_range) + pb
              /\ pb = open_buckets => Base(cur_range) + open_buckets <= Ord(D[v])
          BY <1>43, <2>51, <3>3, <5>1
        <5> QED BY <1>3, <1>43, <4>2, <5>1, <5>2, <5>3
      <4>4. ~(bkts[nb][v] > 0)
        BY <1>2, <1>3, <1>43, <2>3, <3>3, <4>3 DEF CopiesBehind
      <4>5. bkts[nb][v] \in Nat
        BY <1>3, <2>3
      <4> QED BY <4>4, <4>5
    <3>4. CASE order = "increasing" /\ D[v] # null_bkt /\ v \notin live
      <4>1. k = bkt.id /\ D[v] = bkt.id
        BY <1>41, <1>43, <2>1, <3>4
      <4>2. Ord(D[v]) = Here /\ Base(cur_range) <= Ord(D[v]) /\ pb = Spot(v)
        BY <1>3, <1>4, <1>43, <2>51, <3>4, <4>1
      <4>3. pb = nb
        BY <4>1, <2>3 DEF pb
      <4>4. bkts[Spot(v)][v] = 0
        BY <1>1, <1>2, <1>43, <3>4, <4>2 DEF TakenGone
      <4> QED BY <4>2, <4>3, <4>4
    <3> QED BY <1>3, <3>1, <3>2, <3>3, <3>4
  <2>7. dest # nb => bkts[nb][v] = 1 /\ dest = null_bkt
    <3> SUFFICES ASSUME dest # nb PROVE bkts[nb][v] = 1 /\ dest = null_bkt
      OBVIOUS
    <3>1. D[v] # null_bkt /\ pb = nb /\ nb # cur_bkt /\ dest = null_bkt
      BY <2>4
    <3>2. pb = Spot(v) /\ Base(cur_range) <= Ord(D[v]) /\ Ord(D[v]) # Here
      BY <1>3, <1>43, <2>3, <2>51, <3>1
    <3>3. D[v] # bkt.id
      BY <1>4, <3>2
    <3>4. order = "increasing" /\ v \in live
      BY <1>3, <1>41, <3>1, <3>3
    <3> QED BY <1>2, <3>1, <3>2, <3>4 DEF LiveCopies
  <2>8. bkts'[nb][v] = 1
    BY <1>3, <1>5, <2>3, <2>6, <2>7
  <2>9. \A i \in 0 .. open_buckets : bkts'[i][v] > 0 =>
          i = nb \/ (order = "increasing" /\ (i < open_buckets => Ord(k) <= Base(cur_range) + i))
    <3> SUFFICES ASSUME NEW i \in 0 .. open_buckets, bkts'[i][v] > 0, i # nb
                 PROVE  order = "increasing" /\ (i < open_buckets => Ord(k) <= Base(cur_range) + i)
      OBVIOUS
    <3>1. bkts[i][v] > 0
      <4>1. dest # i
        BY <1>3, <2>7
      <4>2. bkts'[i][v] = bkts[i][v] + 0 /\ bkts[i][v] \in Nat
        BY <1>3, <1>5, <4>1
      <4> QED BY <4>2
    <3>2. order = "increasing"
      BY <1>3, <1>42, <3>1
    <3>3. i < open_buckets => Ord(D[v]) <= Base(cur_range) + i
      BY <1>2, <2>5, <3>1, <3>2 DEF CopiesBehind
    <3> QED BY <1>3, <1>43, <2>1, <2>52, <3>2, <3>3
  <2>10. \A i \in 0 .. cur_bkt - 1 : bkts'[i] = bkts[i]
    <3> SUFFICES ASSUME NEW i \in 0 .. cur_bkt - 1 PROVE bkts'[i] = bkts[i]
      OBVIOUS
    <3>1. i \in 0 .. open_buckets /\ i < cur_bkt
      BY <1>3, <1>43
    <3>2. dest # i
      BY <1>3, <1>43, <2>3, <2>7, <3>1
    <3>3. \A u \in Ids : bkts'[i][u] = bkts[i][u]
      BY <1>3, <1>5, <1>6, <3>1, <3>2
    <3> QED BY <1>3, <1>7, <3>1, <3>3
  <2> QED BY <1>1, <1>6, <1>7, <1>9, <2>1, <2>2, <2>3, <2>8, <2>9, <2>10 DEF nb
<1> QED BY <1>8, <1>9

LEMMA MoveBInv ==
  ASSUME BInv, NEW v \in Ids, NEW k \in Keys \cup {null_bkt}, Move(v, k)
  PROVE  BInv'
<1>1. /\ D' = [D EXCEPT ![v] = k] /\ live' = IF k = null_bkt THEN live \ {v} ELSE live \cup {v}
      /\ bkts' \in [0 .. open_buckets -> [Ids -> Nat]] /\ movable' = movable \ {v}
      /\ phase = "user" /\ UNCHANGED <<order, cur_bkt, cur_range, phase, bkt>>
      /\ \A u \in Ids, i \in 0 .. open_buckets : u # v => bkts'[i][u] = bkts[i][u]
  BY MoveGives
<1>2. k = null_bkt => order = "decreasing" /\ v \notin live /\ \A i \in 0 .. open_buckets : bkts'[i][v] = 0
  BY MoveGives
<1>3. k # null_bkt =>
         /\ k \in Int /\ Ord(k) \in Int /\ Here <= Ord(k) /\ SpotAt(k, cur_range) \in 0 .. open_buckets
         /\ bkts'[SpotAt(k, cur_range)][v] = 1
         /\ \A i \in 0 .. open_buckets : bkts'[i][v] > 0 =>
              \/ i = SpotAt(k, cur_range)
              \/ order = "increasing" /\ (i < open_buckets => Ord(k) <= Base(cur_range) + i)
         /\ \A i \in 0 .. cur_bkt - 1 : bkts'[i] = bkts[i]
  BY MoveGives
<1>4. BType /\ LiveCopies /\ TakenGone /\ CopiesBehind /\ NoCopyBehind /\ UserKnows
  BY DEF BInv
<1>5. BType'
  BY <1>1, <1>4 DEF BType
<1>6. D \in [Ids -> Keys \cup {null_bkt}] /\ live \subseteq Ids /\ movable \subseteq Ids
      /\ order \in {"increasing", "decreasing"} /\ bkts \in [0 .. open_buckets -> [Ids -> Nat]]
  BY <1>4 DEF BType
<1>7. /\ Base(cur_range)' = Base(cur_range) /\ Here' = Here
      /\ \A u \in Ids : D'[u] = IF u = v THEN k ELSE D[u]
      /\ \A u \in Ids : u # v => Place(u)' = Place(u) /\ Spot(u)' = Spot(u)
      /\ Place(v)' = Ord(k) /\ Spot(v)' = SpotAt(k, cur_range)
  <2>1. \A u \in Ids : D'[u] = IF u = v THEN k ELSE D[u]
    BY <1>1, <1>6
  <2> QED BY <1>1, <2>1 DEF Place, Spot, SpotAt, Base, Ord, Here
<1>8. \A u \in Ids : u # v => (u \in live' <=> u \in live)
  BY <1>1
<1>9. v \in live' <=> k # null_bkt
  BY <1>1
<1>10. LiveCopies'
  <2> SUFFICES ASSUME NEW u \in live'
               PROVE  D'[u] # null_bkt /\ Here <= Place(u)' /\ bkts'[Spot(u)'][u] = 1
    BY <1>7 DEF LiveCopies
  <2>1. u \in Ids
    BY <1>5 DEF BType
  <2>2. CASE u = v
    BY <1>3, <1>7, <1>9, <2>2
  <2>3. CASE u # v
    <3>1. u \in live /\ D[u] # null_bkt /\ Here <= Place(u) /\ bkts[Spot(u)][u] = 1
      BY <1>4, <1>8, <2>1, <2>3 DEF LiveCopies
    <3>2. Spot(u) \in 0 .. open_buckets
      BY <1>4, <2>1, <3>1, BTypeGives DEF Spot, SpotAt
    <3> QED BY <1>1, <1>7, <2>1, <2>3, <3>1, <3>2
  <2> QED BY <2>2, <2>3
<1>11. TakenGone'
  <2>1. ASSUME NEW u \in Ids \ live', order = "increasing", D'[u] # null_bkt
        PROVE  Place(u)' <= Here /\ (Base(cur_range) <= Place(u)' => bkts'[Spot(u)'][u] = 0)
    <3>1. u # v /\ u \notin live
      BY <1>2, <1>8, <1>9, <2>1
    <3>2. Place(u) <= Here /\ (Base(cur_range) <= Place(u) => bkts[Spot(u)][u] = 0)
      BY <1>1, <1>4, <1>7, <2>1, <3>1 DEF TakenGone
    <3>3. Base(cur_range) <= Place(u) => Spot(u) \in 0 .. open_buckets
      BY <1>4, <3>2, BTypeGives DEF Spot, SpotAt
    <3> QED BY <1>1, <1>7, <3>1, <3>2, <3>3
  <2>2. ASSUME NEW u \in Ids, NEW i \in 0 .. open_buckets, order = "decreasing", bkts'[i][u] > 0
        PROVE  u \in live' /\ i = Spot(u)'
    <3>1. CASE u = v
      BY <1>2, <1>3, <1>7, <1>9, <2>2, <3>1
    <3>2. CASE u # v
      BY <1>1, <1>4, <1>7, <1>8, <2>2, <3>2 DEF TakenGone
    <3> QED BY <3>1, <3>2
  <2> QED BY <1>1, <1>7, <2>1, <2>2 DEF TakenGone
<1>12. CopiesBehind'
  <2> SUFFICES ASSUME order = "increasing", NEW u \in Ids, NEW i \in 0 .. open_buckets, bkts'[i][u] > 0
               PROVE  D'[u] # null_bkt /\ (i < open_buckets => Place(u)' <= Base(cur_range) + i)
    BY <1>1, <1>7 DEF CopiesBehind
  <2>1. CASE u = v
    <3>1. k # null_bkt
      BY <1>2
    <3>2. i = SpotAt(k, cur_range) /\ i < open_buckets => Ord(k) = Base(cur_range) + i
      BY <1>3, <1>4, <3>1, BTypeGives DEF SpotAt
    <3>3. Ord(k) \in Int /\ Base(cur_range) \in Int
      BY <1>3, <1>4, <3>1, BTypeGives
    <3>4. i = SpotAt(k, cur_range) \/ (i < open_buckets => Ord(k) <= Base(cur_range) + i)
      BY <1>3, <2>1, <3>1
    <3> QED BY <1>7, <2>1, <3>1, <3>2, <3>3, <3>4
  <2>2. CASE u # v
    BY <1>1, <1>4, <1>7, <2>2 DEF CopiesBehind
  <2> QED BY <2>1, <2>2
<1>13. NoCopyBehind'
  <2> SUFFICES ASSUME NEW i \in 0 .. cur_bkt - 1 PROVE bkts'[i] = Empty
    BY <1>1 DEF NoCopyBehind, Empty
  <2>1. i \in 0 .. open_buckets /\ bkts[i] = Empty
    BY <1>4, BTypeGives DEF NoCopyBehind
  <2>2. CASE k # null_bkt
    BY <1>3, <2>1, <2>2
  <2>3. CASE k = null_bkt
    <3>1. \A u \in Ids : bkts'[i][u] = 0
      BY <1>1, <1>2, <2>1, <2>3 DEF Empty
    <3>2. bkts'[i] \in [Ids -> Nat]
      BY <1>1, <2>1
    <3> QED BY <3>1, <3>2 DEF Empty
  <2> QED BY <2>2, <2>3
<1>14. UserKnows'
  <2>1. CurBucketNum' = CurBucketNum
    BY <1>1 DEF CurBucketNum
  <2>2. ASSUME bkt.id # null_bkt, NEW u \in movable'
        PROVE  /\ u \in live' => Place(u)' # Here
               /\ bkt.identifiers[u] > 0 => u \notin live' /\ D'[u] = bkt.id
    <3>1. u \in movable /\ u # v /\ u \in Ids
      BY <1>1, <1>6
    <3> QED BY <1>1, <1>4, <1>7, <1>8, <2>2, <3>1 DEF UserKnows
  <2> QED BY <1>1, <1>4, <1>7, <2>1, <2>2 DEF UserKnows
<1> QED BY <1>5, <1>10, <1>11, <1>12, <1>13, <1>14 DEF BInv

\* The invariant: one step per action of the structure and of its caller.
LEMMA BInvAlways == Spec => []BInv
<1>1. Init => BInv
  BY InitBInv
<1>2. ASSUME BInv, [Next]_vars PROVE BInv'
  <2>1. CASE Advance
    BY <1>2, <2>1, AdvanceBInv
  <2>2. CASE Unpack
    BY <1>2, <2>2, UnpackBInv
  <2>3. CASE GetCurBucket
    BY <1>2, <2>3, GetCurBucketBInv
  <2>4. CASE NoMoreBuckets
    BY <1>2, <2>4 DEF NoMoreBuckets, structVars, BInv, BType, LiveCopies, TakenGone, CopiesBehind,
      UserKnows, NoCopyBehind, Empty, Place, Spot, SpotAt, Base, Ord, Here
  <2>5. CASE CallNext
    BY <1>2, <2>5 DEF CallNext, structVars, BInv, BType, LiveCopies, TakenGone, CopiesBehind,
      UserKnows, NoCopyBehind, Empty, Place, Spot, SpotAt, Base, Ord, Here
  <2>6. ASSUME NEW v \in Ids, NEW k \in Keys \cup {null_bkt}, Move(v, k) PROVE BInv'
    BY <1>2, <2>6, MoveBInv
  <2>7. CASE UNCHANGED vars
    BY <1>2, <2>7 DEF vars, BInv, BType, LiveCopies, TakenGone, CopiesBehind,
      UserKnows, NoCopyBehind, Empty, Place, Spot, SpotAt, Base, Ord, Here, CurBucketNum
  <2> QED BY <1>2, <2>1, <2>2, <2>3, <2>4, <2>5, <2>6, <2>7 DEF Next, NextBucketStep
<1> QED BY <1>1, <1>2, PTL DEF Spec

\* An identifier in the structure has exactly one copy where its key puts it, whatever
\* update_buckets left elsewhere.
THEOREM OneGoodCopyAlways == Spec => []OneGoodCopy
<1>1. BInv => OneGoodCopy
  <2> SUFFICES ASSUME BInv, NEW v \in live
               PROVE  /\ ToRange(D[v], cur_range) # null_bkt
                      /\ bkts[ToRange(D[v], cur_range)][v] = 1
    BY DEF OneGoodCopy
  <2>1. BType /\ v \in Ids /\ Here <= Place(v) /\ bkts[Spot(v)][v] = 1
    BY DEF BInv, BType, LiveCopies
  <2>2. Base(cur_range) <= Ord(D[v]) /\ D[v] \in Int
    BY <2>1, BTypeGives
  <2>3. ToRange(D[v], cur_range) = Spot(v) /\ Spot(v) \in 0 .. open_buckets
    BY <2>1, <2>2, ToRangeIs DEF BType, Spot
  <2> QED BY <2>1, <2>3, BTypeGives
<1> QED BY <1>1, BInvAlways, PTL

\* The open buckets next_bucket has gone past stay empty.
THEOREM NoCopyBehindAlways == Spec => []NoCopyBehind
<1>1. BInv => NoCopyBehind
  BY DEF BInv
<1> QED BY <1>1, BInvAlways, PTL

\* get_cur_bucket takes out the whole first key of the order, each identifier once.
LEMMA GetCurBucketTakesFirst ==
  ASSUME BInv, GetCurBucket, phase' = "user"
  PROVE  \E v \in live : Promise!Take(D[v])
<1> DEFINE b == bkts[cur_bkt]
           got == [v \in Ids |-> IF D[v] = CurBucketNum THEN b[v] ELSE 0]
           ids == {v \in live : D[v] = CurBucketNum}
<1>1. /\ phase = "next" /\ UNCHANGED <<D, order>> /\ got # Empty
      /\ bkt' = [id |-> CurBucketNum, identifiers |-> got]
      /\ live' = live \ {v \in Ids : got[v] > 0}
  <2>1. phase = "next" /\ phase' # phase
    BY DEF GetCurBucket
  <2> QED BY Zenon, <2>1 DEF GetCurBucket
<1>2. BType /\ LiveCopies /\ TakenGone
  BY DEF BInv
<1>3. /\ live \subseteq Ids /\ bkts \in [0 .. open_buckets -> [Ids -> Nat]] /\ cur_bkt \in 0 .. open_buckets
      /\ order \in {"increasing", "decreasing"}
  BY <1>2, BTypeGives DEF BType
<1>4. \A v \in Ids : D[v] = CurBucketNum => Place(v) = Here /\ Spot(v) = cur_bkt /\ Base(cur_range) <= Place(v)
  BY <1>2, BTypeGives DEF Spot, SpotAt
<1>5. \A v \in ids : got[v] = 1
  BY <1>2, <1>3, <1>4 DEF LiveCopies
<1>6. \A v \in Ids \ ids : got[v] = 0
  <2> SUFFICES ASSUME NEW v \in Ids, v \notin live, D[v] = CurBucketNum PROVE b[v] = 0
    OBVIOUS
  <2>1. b[v] \in Nat
    BY <1>3
  <2>2. CASE order = "decreasing"
    BY <1>1, <1>2, <1>3, <2>1, <2>2 DEF TakenGone
  <2>3. CASE order = "increasing" /\ D[v] = null_bkt
    BY <1>3, <2>1, <2>3 DEF BInv, CopiesBehind
  <2>4. CASE order = "increasing" /\ D[v] # null_bkt
    BY <1>1, <1>2, <1>4, <2>4 DEF TakenGone
  <2> QED BY <1>3, <2>2, <2>3, <2>4
<1> HIDE DEF b
<1>7. got = [v \in Ids |-> IF v \in ids THEN 1 ELSE 0]
  BY <1>5, <1>6
<1>8. live' = live \ ids
  <2>1. \A v \in live : got[v] > 0 <=> v \in ids
    <3> SUFFICES ASSUME NEW v \in live PROVE got[v] > 0 <=> v \in ids
      OBVIOUS
    <3> HIDE DEF got, ids
    <3> QED BY <1>3, <1>5, <1>6
  <2>2. ids \subseteq live
    OBVIOUS
  <2> HIDE DEF got, ids
  <2> QED BY <1>1, <1>3, <2>1, <2>2
<1>9. PICK v \in ids : TRUE
  BY <1>1, <1>6 DEF Empty
<1>10. Promise!IsFirst(CurBucketNum)
  <2> SUFFICES ASSUME NEW u \in live
               PROVE  IF order = "increasing" THEN CurBucketNum <= D[u] ELSE D[u] <= CurBucketNum
    BY DEF Promise!IsFirst
  <2>1. Here <= Ord(D[u]) /\ D[u] \in Int /\ CurBucketNum \in Int /\ Ord(CurBucketNum) = Here
    BY <1>2, <1>3, BTypeGives DEF LiveCopies
  <2> QED BY <1>3, <2>1 DEF Ord
<1> HIDE DEF got
<1>11. Promise!Take(CurBucketNum)
  BY <1>1, <1>7, <1>8, <1>9, <1>10 DEF Promise!Take
<1> QED BY <1>9, <1>11

-----------------------------------------------------------------------------
(* num_elms counts the copies *)

Buckets == [0 .. open_buckets -> [Ids -> Nat]]

LEMMA SizeIs ==
  ASSUME NEW b \in [Ids -> Nat]
  PROVE  Size(b) \in Nat /\ (Size(b) = 0 => b = Empty)
<1>1. IsFiniteSet(Ids) /\ \A v \in Ids : b[v] \in Nat
  BY BucketsAssumption
<1>2. SumOver(b, Ids) \in Nat /\ (SumOver(b, Ids) = 0 => \A v \in Ids : b[v] = 0)
  BY <1>1, SumIsNat
<1> QED BY <1>2 DEF Size, Empty

LEMMA SizeOfEmpty == Size(Empty) = 0 /\ Empty \in [Ids -> Nat]
<1> DEFINE b == Empty
<1>1. IsFiniteSet(Ids) /\ (\A v \in Ids : b[v] \in Nat) /\ \A v \in Ids : b[v] = 0
  BY BucketsAssumption DEF Empty
<1> HIDE DEF b
<1>2. SumOver(b, Ids) = 0
  BY <1>1, SumOfZeros
<1> QED BY <1>2 DEF Size, Empty, b

LEMMA SizeWithCopies ==
  ASSUME NEW b \in [Ids -> Nat], NEW c \in [Ids -> Nat], NEW v \in Ids,
         \A u \in Ids : u # v => c[u] = b[u]
  PROVE  Size(c) = Size(b) - b[v] + c[v]
<1>1. IsFiniteSet(Ids) /\ (\A u \in Ids : b[u] \in Nat) /\ \A u \in Ids : c[u] \in Nat
  BY BucketsAssumption
<1>2. SumOver(c, Ids) = SumOver(b, Ids) - b[v] + c[v]
  BY <1>1, SumChanges
<1> QED BY <1>2 DEF Size

\* The sizes that Total adds up.
Sizes(bs) == [i \in 0 .. open_buckets |-> Size(bs[i])]

LEMMA SizesAre ==
  ASSUME NEW bs \in Buckets
  PROVE  /\ IsFiniteSet(0 .. open_buckets) /\ open_buckets \in 0 .. open_buckets
         /\ Total(bs) = SumOver(Sizes(bs), 0 .. open_buckets)
         /\ \A i \in 0 .. open_buckets : Sizes(bs)[i] = Size(bs[i]) /\ Sizes(bs)[i] \in Nat
<1>1. open_buckets \in Nat /\ 0 \in Int /\ open_buckets \in Int
  BY BucketsAssumption
<1>2. IsFiniteSet(0 .. open_buckets)
  BY <1>1, FS_Interval
<1>3. \A i \in 0 .. open_buckets : bs[i] \in [Ids -> Nat]
  BY DEF Buckets
<1>4. \A i \in 0 .. open_buckets : Size(bs[i]) \in Nat
  BY <1>3, SizeIs
<1> QED BY <1>1, <1>2, <1>4 DEF Sizes, Total

LEMMA TotalIs ==
  ASSUME NEW bs \in Buckets
  PROVE  Total(bs) \in Nat /\ (Total(bs) = 0 => \A i \in 0 .. open_buckets : bs[i] = Empty)
<1> DEFINE f == Sizes(bs)
<1>1. IsFiniteSet(0 .. open_buckets) /\ \A i \in 0 .. open_buckets : f[i] \in Nat
  BY SizesAre
<1>2. Total(bs) = SumOver(f, 0 .. open_buckets) /\ \A i \in 0 .. open_buckets : f[i] = Size(bs[i])
  BY SizesAre
<1> HIDE DEF f
<1>3. SumOver(f, 0 .. open_buckets) \in Nat
      /\ (SumOver(f, 0 .. open_buckets) = 0 => \A i \in 0 .. open_buckets : f[i] = 0)
  BY <1>1, SumIsNat
<1>4. ASSUME Total(bs) = 0, NEW i \in 0 .. open_buckets PROVE bs[i] = Empty
  <2>1. Size(bs[i]) = 0 /\ bs[i] \in [Ids -> Nat]
    BY <1>2, <1>3, <1>4 DEF Buckets
  <2> QED BY <2>1, SizeIs
<1> QED BY <1>2, <1>3, <1>4

\* A change of one bucket.
LEMMA TotalWithBucket ==
  ASSUME NEW bs \in Buckets, NEW cs \in Buckets, NEW j \in 0 .. open_buckets,
         \A i \in 0 .. open_buckets : i # j => cs[i] = bs[i]
  PROVE  Total(cs) = Total(bs) - Size(bs[j]) + Size(cs[j])
<1> DEFINE f == Sizes(bs)
           g == Sizes(cs)
<1>1. /\ IsFiniteSet(0 .. open_buckets)
      /\ (\A i \in 0 .. open_buckets : f[i] \in Nat) /\ \A i \in 0 .. open_buckets : g[i] \in Nat
  BY SizesAre
<1>2. /\ Total(bs) = SumOver(f, 0 .. open_buckets) /\ Total(cs) = SumOver(g, 0 .. open_buckets)
      /\ \A i \in 0 .. open_buckets : f[i] = Size(bs[i]) /\ g[i] = Size(cs[i])
  BY SizesAre
<1> HIDE DEF f, g
<1>3. \A i \in 0 .. open_buckets : i # j => g[i] = f[i]
  BY <1>2
<1>4. SumOver(g, 0 .. open_buckets) = SumOver(f, 0 .. open_buckets) - f[j] + g[j]
  <2> DEFINE I == 0 .. open_buckets
  <2>1. /\ IsFiniteSet(I) /\ j \in I
        /\ (\A i \in I : f[i] \in Nat) /\ (\A i \in I : g[i] \in Nat) /\ \A i \in I : i # j => g[i] = f[i]
    BY <1>1, <1>3
  <2> HIDE DEF I
  <2>2. ChangesAt(I, f, g, j)
    BY ONLY <2>1 DEF ChangesAt
  <2>3. SumOver(g, I) = SumOver(f, I) - f[j] + g[j]
    BY ONLY <2>2, SumChangesAt
  <2> QED BY <2>3 DEF I
<1> QED BY <1>2, <1>4

\* Copies in one bucket only.
LEMMA TotalOfOne ==
  ASSUME NEW bs \in Buckets, NEW j \in 0 .. open_buckets,
         \A i \in 0 .. open_buckets : i # j => bs[i] = Empty
  PROVE  Total(bs) = Size(bs[j])
<1> DEFINE none == [i \in 0 .. open_buckets |-> Empty]
           f == Sizes(none)
<1>1. none \in Buckets /\ none[j] = Empty /\ \A i \in 0 .. open_buckets : i # j => bs[i] = none[i]
  BY SizeOfEmpty DEF Buckets
<1>2. \A i \in 0 .. open_buckets : none[i] = Empty
  OBVIOUS
<1> HIDE DEF none
<1>3. IsFiniteSet(0 .. open_buckets) /\ \A i \in 0 .. open_buckets : f[i] \in Nat
  BY <1>1, SizesAre
<1>4. Total(none) = SumOver(f, 0 .. open_buckets) /\ \A i \in 0 .. open_buckets : f[i] = 0
  BY <1>1, <1>2, SizesAre, SizeOfEmpty
<1> HIDE DEF f
<1>5. SumOver(f, 0 .. open_buckets) = 0
  BY <1>3, <1>4, SumOfZeros
<1>6. Total(bs) = Total(none) - Size(none[j]) + Size(bs[j])
  BY <1>1, TotalWithBucket
<1>7. Size(bs[j]) \in Nat
  BY SizeIs DEF Buckets
<1> QED BY <1>1, <1>4, <1>5, <1>6, <1>7, SizeOfEmpty

LEMMA UnpackCounts ==
  ASSUME BInv, NumElmsCountsCopies, Unpack, BType'
  PROVE  NumElmsCountsCopies'
<1> DEFINE over == bkts[open_buckets]
<1>1. /\ phase = "next" /\ bkts[cur_bkt] = Empty /\ cur_bkt + 1 = open_buckets
      /\ \/ Size(over) # num_elms
         \/ num_elms' = num_elms + Total(bkts') - Size(over) /\ phase' = phase
  BY Zenon DEF Unpack, Searching
<1>2. bkts \in Buckets /\ bkts' \in Buckets /\ open_buckets \in Int /\ open_buckets > 0 /\ cur_bkt \in Int
  BY BTypeGives DEF BInv, BType, Buckets
<1>3. \A i \in 0 .. open_buckets : i # open_buckets => bkts[i] = Empty
  BY <1>1, <1>2 DEF BInv, NoCopyBehind
<1>4. Total(bkts) = Size(over) /\ Total(bkts) \in Nat /\ Total(bkts') \in Nat
  BY <1>2, <1>3, TotalOfOne, TotalIs
<1> HIDE DEF over
<1> QED BY <1>1, <1>4 DEF NumElmsCountsCopies

LEMMA GetCurBucketCounts ==
  ASSUME BInv, NumElmsCountsCopies, GetCurBucket, BType'
  PROVE  NumElmsCountsCopies'
<1>1. /\ phase = "next" /\ num_elms' = num_elms - Size(bkts[cur_bkt])
      /\ bkts' = [bkts EXCEPT ![cur_bkt] = Empty] /\ phase' \in {"next", "user"}
  BY DEF GetCurBucket
<1>2. bkts \in Buckets /\ bkts' \in Buckets /\ cur_bkt \in 0 .. open_buckets
  BY BTypeGives DEF BInv, BType, Buckets
<1>3. bkts'[cur_bkt] = Empty /\ \A i \in 0 .. open_buckets : i # cur_bkt => bkts'[i] = bkts[i]
  BY <1>1, <1>2 DEF Buckets
<1>4. Total(bkts') = Total(bkts) - Size(bkts[cur_bkt]) + 0
  BY <1>2, <1>3, TotalWithBucket, SizeOfEmpty
<1>5. Total(bkts) \in Nat /\ Size(bkts[cur_bkt]) \in Nat
  <2>1. bkts[cur_bkt] \in [Ids -> Nat]
    BY <1>2 DEF Buckets
  <2> QED BY <1>2, <2>1, TotalIs, SizeIs
<1> QED BY <1>1, <1>4, <1>5 DEF NumElmsCountsCopies

LEMMA MoveCounts ==
  ASSUME BInv, NumElmsCountsCopies, NEW v \in Ids, NEW k \in Keys \cup {null_bkt}, Move(v, k), BType'
  PROVE  NumElmsCountsCopies'
<1> DEFINE dest == IF k = null_bkt THEN null_bkt ELSE GetBucket(D[v], k)
           dests == [u \in Ids |-> IF u = v THEN dest ELSE null_bkt]
           one == [u \in Ids |-> 1]
<1>1. bkts' = Insert(bkts, one, dests) /\ num_elms' = num_elms + Added(dest) /\ phase' = phase
  BY Zenon DEF Move
<1>2. /\ bkts \in Buckets /\ bkts' \in Buckets /\ null_bkt \notin 0 .. open_buckets
      /\ D[v] \in Int /\ k \in Int /\ cur_range \in Int /\ order \in {"increasing", "decreasing"}
  <2>1. BType /\ k \in Int
    BY BucketsAssumption DEF BInv, Keys
  <2>2. null_bkt \notin 0 .. open_buckets /\ D[v] \in Int
    BY <2>1, BTypeGives
  <2>3. bkts \in Buckets /\ bkts' \in Buckets /\ cur_range \in Int /\ order \in {"increasing", "decreasing"}
    BY <2>1 DEF BType, Buckets
  <2> QED BY <2>1, <2>2, <2>3
<1>3. dest = null_bkt \/ dest \in 0 .. open_buckets
  <2>1. \A r \in Int : ToRange(r, cur_range) = null_bkt \/ ToRange(r, cur_range) \in 0 .. open_buckets
    <3> TAKE r \in Int
    <3>1. Ord(r) \in Int /\ Base(cur_range) \in Int
      BY <1>2, ToRangeIs
    <3>2. Ord(r) < Base(cur_range) \/ Base(cur_range) <= Ord(r)
      BY <3>1
    <3> QED BY <1>2, <3>2, ToRangeIs
  <2> QED BY <1>2, <2>1 DEF GetBucket
<1> HIDE DEF dest
<1>4. \A i \in 0 .. open_buckets, u \in Ids :
        bkts'[i][u] = bkts[i][u] + (IF u = v /\ dest = i THEN 1 ELSE 0)
  <2> SUFFICES ASSUME NEW i \in 0 .. open_buckets, NEW u \in Ids
               PROVE bkts'[i][u] = bkts[i][u] + (IF u = v /\ dest = i THEN 1 ELSE 0)
    OBVIOUS
  <2>1. bkts'[i][u] = bkts[i][u] + (IF dests[u] = i THEN one[u] ELSE 0)
    <3> HIDE DEF dests, one
    <3> QED BY <1>1 DEF Insert
  <2>2. dests[u] = i <=> u = v /\ dest = i
    BY <1>2
  <2> QED BY <2>1, <2>2
<1>5. \A i \in 0 .. open_buckets, u \in Ids : bkts[i][u] \in Nat
  BY <1>2 DEF Buckets
<1>6. \A i \in 0 .. open_buckets : dest # i => bkts'[i] = bkts[i]
  <2> SUFFICES ASSUME NEW i \in 0 .. open_buckets, dest # i PROVE bkts'[i] = bkts[i]
    OBVIOUS
  <2>1. \A u \in Ids : bkts'[i][u] = bkts[i][u]
    BY <1>4, <1>5
  <2>2. bkts[i] \in [Ids -> Nat] /\ bkts'[i] \in [Ids -> Nat]
    BY <1>2 DEF Buckets
  <2> QED BY <2>1, <2>2
<1>7. Total(bkts) \in Nat
  BY <1>2, TotalIs
<1>8. CASE dest = null_bkt
  <2>1. \A i \in 0 .. open_buckets : bkts'[i] = bkts[i]
    BY <1>2, <1>6, <1>8
  <2>2. bkts' = bkts
    <3>1. bkts = [i \in 0 .. open_buckets |-> bkts[i]] /\ bkts' = [i \in 0 .. open_buckets |-> bkts'[i]]
      BY <1>2 DEF Buckets
    <3> QED BY <2>1, <3>1
  <2> QED BY <1>1, <1>7, <1>8, <2>2 DEF NumElmsCountsCopies, Added
<1>9. CASE dest \in 0 .. open_buckets
  <2> DEFINE b == bkts[dest]
             c == bkts'[dest]
  <2>1. Total(bkts') = Total(bkts) - Size(b) + Size(c)
    BY <1>2, <1>6, <1>9, TotalWithBucket
  <2>2. b \in [Ids -> Nat] /\ c \in [Ids -> Nat] /\ c[v] = b[v] + 1 /\ \A u \in Ids : u # v => c[u] = b[u]
    BY <1>2, <1>4, <1>5, <1>9 DEF Buckets
  <2> HIDE DEF b, c
  <2>3. Size(c) = Size(b) - b[v] + c[v] /\ Size(b) \in Nat /\ b[v] \in Nat
    BY <2>2, SizeWithCopies, SizeIs
  <2>4. Total(bkts') = Total(bkts) + 1
    BY <1>7, <2>1, <2>2, <2>3
  <2>5. Added(dest) = 1
    BY <1>2, <1>9 DEF Added
  <2> QED BY <1>1, <2>4, <2>5 DEF NumElmsCountsCopies
<1> QED BY <1>3, <1>8, <1>9

\* num_elms is the number of the copies in the buckets, stale ones included, however
\* update_buckets, unpack and get_cur_bucket followed each other: the exit of unpack
\* (bucket.h:287) is dead code.
THEOREM NumElmsAlwaysCountsCopies == Spec => []NumElmsCountsCopies
<1>1. Init => NumElmsCountsCopies
  BY DEF Init, NumElmsCountsCopies
<1>2. ASSUME BInv, BInv', NumElmsCountsCopies, [Next]_vars PROVE NumElmsCountsCopies'
  <2>0. BType'
    BY <1>2 DEF BInv
  <2>1. CASE Advance
    BY <1>2, <2>1 DEF Advance, NumElmsCountsCopies, Total
  <2>2. CASE Unpack
    BY <1>2, <2>0, <2>2, UnpackCounts
  <2>3. CASE GetCurBucket
    BY <1>2, <2>0, <2>3, GetCurBucketCounts
  <2>4. CASE NoMoreBuckets
    BY <1>2, <2>4 DEF NoMoreBuckets, structVars, NumElmsCountsCopies, Total
  <2>5. CASE CallNext
    BY <1>2, <2>5 DEF CallNext, structVars, NumElmsCountsCopies, Total
  <2>6. ASSUME NEW v \in Ids, NEW k \in Keys \cup {null_bkt}, Move(v, k) PROVE NumElmsCountsCopies'
    BY <1>2, <2>0, <2>6, MoveCounts
  <2>7. CASE UNCHANGED vars
    BY <1>2, <2>7 DEF vars, NumElmsCountsCopies, Total
  <2> QED BY <1>2, <2>1, <2>2, <2>3, <2>4, <2>5, <2>6, <2>7 DEF Next, NextBucketStep
<1> QED BY <1>1, <1>2, BInvAlways, PTL DEF Spec

\* next_bucket says null_bkt only when no identifier is left.
LEMMA NoMoreBucketsIsTrue ==
  ASSUME BInv, NumElmsCountsCopies, NoMoreBuckets
  PROVE  Promise!TakeNothing
<1>1. num_elms = 0 /\ bkt' = [id |-> null_bkt, identifiers |-> Empty] /\ UNCHANGED <<D, order, live>>
  BY DEF NoMoreBuckets
<1>2. bkts \in Buckets /\ BType /\ LiveCopies
  BY DEF BInv, BType, Buckets
<1>3. \A i \in 0 .. open_buckets : bkts[i] = Empty
  BY <1>1, <1>2, TotalIs DEF NumElmsCountsCopies
<1>4. ASSUME NEW v \in live PROVE FALSE
  <2>1. v \in Ids /\ Here <= Place(v) /\ bkts[Spot(v)][v] = 1
    BY <1>2 DEF LiveCopies, BType
  <2>2. Base(cur_range) <= Ord(D[v]) /\ D[v] \in Int
    BY <1>2, <2>1, BTypeGives
  <2>3. Spot(v) \in 0 .. open_buckets
    BY <1>2, <2>2, ToRangeIs DEF BType, Spot
  <2> QED BY <1>3, <2>1, <2>3 DEF Empty
<1> QED BY <1>1, <1>4 DEF Promise!TakeNothing, Empty

\* Every step of the structure and of its caller is one BucketSpec allows, or changes
\* nothing of it: next_bucket takes out the whole first key of the order, each identifier
\* once, and says that nothing is left only when that is so.
THEOREM ImplementsBucketSpecAlways == Spec => ImplementsBucketSpec
<1>1. Init => Promise!Init
  BY Zenon DEF Init, Promise!Init, Empty
<1>2. ASSUME BInv, NumElmsCountsCopies, [Next]_vars PROVE [Promise!Next]_(Promise!vars)
  <2>1. CASE Advance
    BY <2>1 DEF Advance, Promise!vars
  <2>2. CASE Unpack
    BY <2>2 DEF Unpack, Promise!vars
  <2>3. CASE GetCurBucket
    <3>1. phase' = "user" \/ UNCHANGED <<bkt, live>>
      BY <2>3 DEF GetCurBucket
    <3>2. UNCHANGED <<D, order>>
      BY <2>3 DEF GetCurBucket
    <3> QED BY <1>2, <2>3, <3>1, <3>2, GetCurBucketTakesFirst DEF Promise!Next, Promise!vars
  <2>4. CASE NoMoreBuckets
    BY <1>2, <2>4, NoMoreBucketsIsTrue DEF Promise!Next
  <2>5. CASE CallNext
    BY <2>5 DEF CallNext, Promise!vars
  <2>6. ASSUME NEW v \in Ids, NEW k \in Keys \cup {null_bkt}, Move(v, k) PROVE Promise!Next
    <3>1. D' = [D EXCEPT ![v] = k] /\ D \in [Ids -> Keys \cup {null_bkt}]
          /\ live' = (IF k = null_bkt THEN live \ {v} ELSE live \cup {v}) /\ UNCHANGED <<order, bkt>>
      BY <1>2, <2>6 DEF Move, BInv, BType
    <3>2. Promise!Rekey(v)
      BY <3>1 DEF Promise!Rekey
    <3> QED BY <3>2 DEF Promise!Next
  <2>7. CASE UNCHANGED vars
    BY <2>7 DEF vars, Promise!vars
  <2> QED BY <1>2, <2>1, <2>2, <2>3, <2>4, <2>5, <2>6, <2>7 DEF Next, NextBucketStep
<1>3. Spec => [][Promise!Next]_(Promise!vars)
  BY <1>2, BInvAlways, NumElmsAlwaysCountsCopies, PTL DEF Spec
<1> QED BY <1>1, <1>3, PTL DEF Spec, ImplementsBucketSpec, Promise!Spec

-----------------------------------------------------------------------------
(* The table of sparseSet.h, for any hash, any inserts and any order of    *)
(* their accesses.  A slot never loses its key, so what a worker has       *)
(* passed stays taken by other keys (Path), and a key lies where a search  *)
(* for it arrives before an empty slot.  Two slots of one key would be two *)
(* ends of the same path, and a worker that finds a slot empty is at the   *)
(* end of the path of its key, which then has no slot.                     *)

Slots == 0 .. TableSize - 1
Key(i) == Inserts[i][1]

\* From the first slot of v on, those before j are taken by other keys.
Path(v, j) == \E k \in Slots : /\ j = SS!Slot(v, k)
                               /\ \A l \in 0 .. k - 1 : TA[SS!Slot(v, l)][1] \notin {UintMax, v}

SSType == /\ TA \in [Slots -> (SS!Keys \cup {UintMax}) \X Nat]
          /\ at \in [SS!Workers -> {"empty?", "cas", "same?", "add", "inserted", "added"}]
          /\ slot \in [SS!Workers -> Slots]

Placed == /\ \A j \in Slots : IF TA[j][1] = UintMax THEN TA[j] = SS!empty ELSE Path(TA[j][1], j)
          /\ \A i \in SS!Workers : /\ Path(Key(i), slot[i])
                                   /\ at[i] = "same?" => TA[slot[i]][1] # UintMax
                                   /\ at[i] \in {"add", "inserted", "added"} => TA[slot[i]][1] = Key(i)

OneInserted(v) == \E i \in SS!Workers : {x \in SS!Finished(v) : at[x] = "inserted"} = {i}
Summed == \A j \in Slots : TA[j][1] # UintMax =>
  OneInserted(TA[j][1]) /\ TA[j][2] = SS!Sums(SS!Finished(TA[j][1]))

SSInv == SSType /\ Placed /\ Summed

LEMMA KeysFit ==
  ASSUME SS!InputsOK
  PROVE  /\ IsFiniteSet(SS!Workers) /\ IsFiniteSet(SS!Keys)
         /\ Cardinality(SS!Keys) \in Nat /\ Cardinality(SS!Keys) < TableSize
<1>1. IsFiniteSet(SS!Workers)
  BY DEF SS!InputsOK, SS!IsFiniteSet, IsFiniteSet
<1>2. IsFiniteSet(SS!Keys)
  <2> DEFINE f == [i \in SS!Workers |-> Inserts[i][1]]
  <2>1. f \in Surjection(SS!Workers, SS!Keys)
    BY DEF Surjection, SS!Keys
  <2> HIDE DEF f
  <2> QED BY <1>1, <2>1, FS_Surjection
<1>3. SS!Cardinality(SS!Keys) = Cardinality(SS!Keys)
  BY DEF SS!Cardinality, Cardinality
<1> QED BY <1>1, <1>2, <1>3, FS_CardinalityType DEF SS!InputsOK

\* The slots of a key, in the order of the search, are all the slots.
LEMMA SlotIs ==
  ASSUME NEW a \in Nat, NEW k \in Nat, NEW M \in Nat, a < M, k <= M
  PROVE  (a + k) % M = IF a + k < M THEN a + k ELSE a + k - M
<1> DEFINE q == (a + k) \div M
           r == (a + k) % M
<1>1. q \in Int /\ r \in 0 .. M - 1 /\ a + k = M * q + r
  OBVIOUS
<1>2. a + k < M + M /\ 0 <= a + k
  OBVIOUS
<1> HIDE DEF q, r
<1>3. CASE q >= 2
  <2>1. M * q >= M * 2
    BY <1>1, <1>3
  <2> QED BY <1>1, <1>2, <2>1
<1>4. CASE q <= -1
  <2>1. M * q <= -M
    BY <1>1, <1>4
  <2> QED BY <1>1, <1>2, <2>1
<1>5. CASE q = 0
  <2>1. M * q = 0
    BY <1>5
  <2> QED BY <1>1, <1>2, <2>1 DEF r
<1>6. CASE q = 1
  <2>1. M * q = M
    BY <1>6
  <2> QED BY <1>1, <1>2, <2>1 DEF r
<1> QED BY <1>1, <1>3, <1>4, <1>5, <1>6

LEMMA SlotsAre ==
  ASSUME SS!InputsOK, NEW v \in SS!Keys
  PROVE  /\ \A k \in Slots : SS!Slot(v, k) \in Slots
         /\ SS!Slot(v, 0) = Hash[v]
         /\ \A k \in Slots : k + 1 \in Slots => SS!Slot(v, k + 1) = (SS!Slot(v, k) + 1) % TableSize
         /\ \A k, l \in Slots : SS!Slot(v, k) = SS!Slot(v, l) => k = l
<1>1. TableSize \in Nat /\ Hash[v] \in 0 .. TableSize - 1
  BY DEF SS!InputsOK
<1>2. \A k \in Slots : SS!Slot(v, k) = IF Hash[v] + k < TableSize THEN Hash[v] + k ELSE Hash[v] + k - TableSize
  <2> TAKE k \in Slots
  <2>1. Hash[v] \in Nat /\ Hash[v] < TableSize /\ k \in Nat /\ k <= TableSize
    BY <1>1 DEF Slots
  <2> QED BY <1>1, <2>1, SlotIs DEF SS!Slot
<1>3. ASSUME NEW k \in Slots, k + 1 \in Slots PROVE SS!Slot(v, k + 1) = (SS!Slot(v, k) + 1) % TableSize
  <2>1. SS!Slot(v, k) \in Nat /\ SS!Slot(v, k) < TableSize
    BY <1>1, <1>2 DEF Slots
  <2>2. (SS!Slot(v, k) + 1) % TableSize = IF SS!Slot(v, k) + 1 < TableSize THEN SS!Slot(v, k) + 1
                                          ELSE SS!Slot(v, k) + 1 - TableSize
    <3>1. 1 <= TableSize
      BY <1>1, <2>1
    <3> QED BY <1>1, <2>1, <3>1, SlotIs
  <2> QED BY <1>1, <1>2, <1>3, <2>2 DEF Slots
<1>4. 0 \in Slots
  BY <1>1 DEF Slots
<1> QED BY <1>1, <1>2, <1>3, <1>4 DEF Slots

\* A path has one end, and so a key one slot; an empty end means that it has none.
LEMMA PathsEnd ==
  ASSUME NEW v, NEW j, Path(v, j)
  PROVE  /\ \A l : Path(v, l) /\ TA[j][1] \in {UintMax, v} /\ TA[l][1] \in {UintMax, v} => j = l
<1>1. PICK k \in Slots : /\ j = SS!Slot(v, k)
                         /\ \A l \in 0 .. k - 1 : TA[SS!Slot(v, l)][1] \notin {UintMax, v}
  BY DEF Path
<1> SUFFICES ASSUME NEW l, Path(v, l), TA[j][1] \in {UintMax, v}, TA[l][1] \in {UintMax, v}
             PROVE  j = l
  OBVIOUS
<1>2. PICK k2 \in Slots : /\ l = SS!Slot(v, k2)
                          /\ \A i \in 0 .. k2 - 1 : TA[SS!Slot(v, i)][1] \notin {UintMax, v}
  BY DEF Path
<1>3. ~(k < k2) /\ ~(k2 < k)
  BY <1>1, <1>2 DEF Slots
<1>4. k = k2
  BY <1>3 DEF Slots
<1> QED BY <1>1, <1>2, <1>4

LEMMA SSFacts ==
  ASSUME SS!InputsOK, SSInv
  PROVE  /\ \A i \in SS!Workers : /\ Key(i) \in SS!Keys /\ Inserts[i] = <<Key(i), SS!Value[i]>>
                                  /\ SS!Value[i] \in Nat /\ slot[i] \in Slots
         /\ UintMax \notin SS!Keys
         /\ \A j \in Slots : /\ TA[j][1] \in SS!Keys \cup {UintMax} /\ TA[j][2] \in Nat
                             /\ TA[j] = <<TA[j][1], TA[j][2]>>
         /\ \A j, l \in Slots : TA[j][1] = TA[l][1] /\ TA[j][1] # UintMax => j = l
         /\ \A v \in SS!Keys : (\A j \in Slots : TA[j][1] # v) => SS!Finished(v) = {}
         /\ \A v : IsFiniteSet(SS!Finished(v)) /\ SS!Finished(v) \subseteq SS!Workers
<1>1. ASSUME NEW i \in SS!Workers
      PROVE  Key(i) \in SS!Keys /\ Inserts[i] = <<Key(i), SS!Value[i]>> /\ SS!Value[i] \in Nat
  <2>1. Inserts[i] \in SS!Keys \X Nat
    BY DEF SS!InputsOK
  <2> QED BY <2>1 DEF Key, SS!Value
<1>2. ASSUME NEW j \in Slots
      PROVE  TA[j][1] \in SS!Keys \cup {UintMax} /\ TA[j][2] \in Nat /\ TA[j] = <<TA[j][1], TA[j][2]>>
  <2>1. TA[j] \in (SS!Keys \cup {UintMax}) \X Nat
    BY DEF SSInv, SSType
  <2> QED BY <2>1
<1>3. ASSUME NEW j \in Slots, NEW l \in Slots, TA[j][1] = TA[l][1], TA[j][1] # UintMax PROVE j = l
  BY <1>3, PathsEnd DEF SSInv, Placed
<1>4. ASSUME NEW v \in SS!Keys, \A j \in Slots : TA[j][1] # v PROVE SS!Finished(v) = {}
  BY <1>4 DEF SSInv, SSType, Placed, SS!Finished, Key
<1>5. ASSUME NEW v PROVE IsFiniteSet(SS!Finished(v)) /\ SS!Finished(v) \subseteq SS!Workers
  <2>1. IsFiniteSet(SS!Workers)
    BY DEF SS!InputsOK, SS!IsFiniteSet, IsFiniteSet
  <2>2. SS!Finished(v) \subseteq SS!Workers
    BY DEF SS!Finished
  <2> QED BY <2>1, <2>2, FS_Subset
<1>6. UintMax \notin SS!Keys
  BY DEF SS!InputsOK
<1> QED BY <1>1, <1>2, <1>3, <1>4, <1>5, <1>6 DEF SSInv, SSType

LEMMA SumsAre ==
  ASSUME SS!InputsOK, NEW S \in SUBSET SS!Workers, IsFiniteSet(S), NEW i \in SS!Workers, i \notin S
  PROVE  SS!Sums({}) = 0 /\ SS!Sums(S \cup {i}) = SS!Sums(S) + SS!Value[i] /\ SS!Sums(S) \in Nat
<1>1. \A U : SS!Sums(U) = SumOver(SS!Value, U)
  BY DEF SS!Sums, SumOver, SS!MapThenSumSet, MapThenSumSet, MapThenFoldSet, SS!MapThenFoldSet
<1>2. NatOn(SS!Value, S \cup {i})
  BY DEF SS!InputsOK, SS!Value, NatOn
<1> QED BY <1>1, <1>2, SumAdds

LEMMA InitSSInv == ASSUME SS!InputsOK, SS!Init PROVE SSInv
<1>1. TableSize \in Nat /\ 0 \in Slots
  <2>1. Cardinality(SS!Keys) \in Nat
    BY KeysFit
  <2> QED BY <2>1, KeysFit DEF SS!InputsOK, Slots
<1>2. \A j \in Slots : TA[j] = <<UintMax, 0>>
  BY DEF SS!Init, SS!empty, Slots
<1>3. ASSUME NEW i \in SS!Workers
      PROVE  at[i] = "empty?" /\ Key(i) \in SS!Keys /\ slot[i] = Hash[Key(i)] /\ slot[i] \in Slots
  <2>1. Key(i) \in SS!Keys
    BY DEF SS!Keys, Key
  <2> QED BY <2>1 DEF SS!Init, Key, SS!InputsOK, Slots
<1>4. SSType
  <2>1. TA \in [Slots -> (SS!Keys \cup {UintMax}) \X Nat]
    BY DEF SS!Init, SS!empty, Slots
  <2> QED BY <1>3, <2>1 DEF SSType, SS!Init
<1>5. Placed
  <2>1. ASSUME NEW i \in SS!Workers PROVE Path(Key(i), slot[i])
    BY <1>1, <1>3, SlotsAre DEF Path
  <2> QED BY <1>2, <1>3, <2>1 DEF Placed, SS!empty
<1>6. Summed
  BY <1>2 DEF Summed
<1> QED BY <1>4, <1>5, <1>6 DEF SSInv

\* What a step may do to the slots: a key stays where it is.
LEMMA PathKept ==
  ASSUME NEW v, NEW j, Path(v, j), \A l \in Slots : TA[l][1] # UintMax => TA'[l][1] = TA[l][1],
         TableSize \in Nat, \A k \in Slots : SS!Slot(v, k) \in Slots
  PROVE  Path(v, j)'
<1>1. PICK k \in Slots : /\ j = SS!Slot(v, k)
                         /\ \A l \in 0 .. k - 1 : TA[SS!Slot(v, l)][1] \notin {UintMax, v}
  BY DEF Path
<1>2. \A l \in 0 .. k - 1 : l \in Slots
  BY DEF Slots
<1>3. \A l \in 0 .. k - 1 : TA'[SS!Slot(v, l)][1] \notin {UintMax, v}
  BY <1>1, <1>2
<1> QED BY <1>1, <1>3 DEF Path, SS!Slot, Slots

LEMMA TestEmptyKeeps ==
  ASSUME SS!InputsOK, SSInv, NEW i \in SS!Workers, SS!TestEmpty(i)
  PROVE  SSInv'
<1>1. /\ at[i] = "empty?" /\ TA' = TA /\ slot' = slot
      /\ at' = [at EXCEPT ![i] = IF TA[slot[i]][1] = UintMax THEN "cas" ELSE "same?"]
  BY DEF SS!TestEmpty, SS!Goto
<1>2. \A v : SS!Finished(v)' = SS!Finished(v) /\ \A x \in SS!Finished(v) : at'[x] = at[x]
  BY <1>1 DEF SS!Finished, SSInv, SSType, SS!Workers
<1>3. SSType'
  BY <1>1 DEF SSInv, SSType, SS!Workers, SS!Keys
<1>4. Placed'
  <2>1. \A v, j : Path(v, j)' <=> Path(v, j)
    BY <1>1 DEF Path, SS!Slot
  <2>2. \A x \in SS!Workers : at'[x] = IF x = i THEN IF TA[slot[i]][1] = UintMax THEN "cas" ELSE "same?" ELSE at[x]
    BY <1>1 DEF SSInv, SSType
  <2> QED BY <1>1, <2>1, <2>2 DEF SSInv, Placed, SS!Workers, Key
<1>5. Summed'
  <2>1. \A v : OneInserted(v) => OneInserted(v)'
    BY <1>2 DEF OneInserted, SS!Workers
  <2> QED BY <1>1, <1>2, <2>1 DEF SSInv, Summed
<1> QED BY <1>3, <1>4, <1>5 DEF SSInv

\* A worker at the end of the table's last slot would have seen as many keys as slots.
LEMMA NotTheLast ==
  ASSUME SS!InputsOK, SSInv, NEW v \in SS!Keys, NEW k \in Slots,
         \A l \in 0 .. k : TA[SS!Slot(v, l)][1] # UintMax
  PROVE  k + 1 \in Slots
<1>1. TableSize \in Nat /\ Cardinality(SS!Keys) < TableSize /\ IsFiniteSet(SS!Keys)
  BY KeysFit DEF SS!InputsOK
<1>2. k \in Nat /\ k < TableSize /\ 0 .. k \subseteq Slots
  BY <1>1 DEF Slots
<1> DEFINE g == [l \in 0 .. k |-> TA[SS!Slot(v, l)][1]]
<1>3. \A l \in 0 .. k : SS!Slot(v, l) \in Slots /\ TA[SS!Slot(v, l)][1] \in SS!Keys
  BY <1>2, SlotsAre, SSFacts
<1>4. ASSUME NEW x \in 0 .. k, NEW y \in 0 .. k, g[x] = g[y] PROVE x = y
  <2>1. TA[SS!Slot(v, x)][1] = TA[SS!Slot(v, y)][1]
    BY <1>4
  <2>2. SS!Slot(v, x) = SS!Slot(v, y)
    BY <1>3, <2>1, SSFacts
  <2> QED BY <1>2, <2>2, SlotsAre
<1>5. g \in [0 .. k -> SS!Keys]
  BY <1>3
<1>6. IsFiniteSet(0 .. k) /\ Cardinality(0 .. k) = k + 1
  BY <1>2, FS_Interval
<1> HIDE DEF g
<1>7. ~(Cardinality(SS!Keys) < Cardinality(0 .. k))
  BY <1>1, <1>4, <1>5, <1>6, FS_PigeonHole
<1>8. Cardinality(SS!Keys) \in Nat
  BY <1>1, FS_CardinalityType
<1> QED BY <1>1, <1>2, <1>6, <1>7, <1>8 DEF Slots

\* Summed and Placed after a step, for a key v of the new table.
LEMMA SummedNext ==
  ASSUME \A j \in Slots : \A v : v = TA'[j][1] /\ v # UintMax =>
           OneInserted(v)' /\ TA'[j][2] = SS!Sums(SS!Finished(v)')
  PROVE  Summed'
<1> SUFFICES ASSUME NEW j \in Slots, NEW v, v = TA'[j][1], v # UintMax
             PROVE  OneInserted(TA[j][1])' /\ TA'[j][2] = SS!Sums(SS!Finished(TA[j][1])')
  BY DEF Summed
<1>1. OneInserted(v)' /\ TA'[j][2] = SS!Sums(SS!Finished(v)')
  OBVIOUS
<1>2. OneInserted(TA[j][1])'
  BY <1>1 DEF OneInserted, SS!Finished, SS!Workers
<1>3. (SS!Finished(TA[j][1]))' = SS!Finished(v)'
  BY DEF SS!Finished, SS!Workers
<1> QED BY <1>1, <1>2, <1>3

\* What the steps that write a key or an answer leave to show: the paths are kept,
\* and the keys of which i is none have their inserts as before.
LEMMA StepKeeps ==
  ASSUME SS!InputsOK, SSInv, NEW i \in SS!Workers, NEW a,
         at' = [at EXCEPT ![i] = a],
         \A l \in Slots : TA[l][1] # UintMax => TA'[l][1] = TA[l][1]
  PROVE  /\ \A v \in SS!Keys : \A j : Path(v, j) => Path(v, j)'
         /\ \A x \in SS!Workers : at'[x] = IF x = i THEN a ELSE at[x]
         /\ \A v : v # Key(i) => SS!Finished(v)' = SS!Finished(v) /\ (OneInserted(v) => OneInserted(v)')
         /\ at[i] \notin {"inserted", "added"} /\ a \notin {"inserted", "added"} =>
              \A v : SS!Finished(v)' = SS!Finished(v) /\ (OneInserted(v) => OneInserted(v)')
<1>1. \A v \in SS!Keys : \A j : Path(v, j) => Path(v, j)'
  <2> TAKE v \in SS!Keys
  <2> TAKE j
  <2>1. TableSize \in Nat /\ \A k \in Slots : SS!Slot(v, k) \in Slots
    BY SlotsAre DEF SS!InputsOK
  <2> QED BY <2>1, PathKept
<1>2. \A x \in SS!Workers : at'[x] = IF x = i THEN a ELSE at[x]
  BY DEF SSInv, SSType
<1>3. ASSUME NEW v, v # Key(i) PROVE SS!Finished(v)' = SS!Finished(v) /\ (OneInserted(v) => OneInserted(v)')
  <2>1. /\ SS!Finished(v)' = SS!Finished(v)
        /\ \A x \in SS!Finished(v) : at'[x] = at[x]
    BY <1>2, <1>3 DEF SS!Finished, Key, SS!Workers
  <2> QED BY <2>1 DEF OneInserted, SS!Workers
<1>4. ASSUME at[i] \notin {"inserted", "added"}, a \notin {"inserted", "added"}, NEW v
      PROVE  SS!Finished(v)' = SS!Finished(v) /\ (OneInserted(v) => OneInserted(v)')
  <2>1. /\ SS!Finished(v)' = SS!Finished(v)
        /\ \A x \in SS!Finished(v) : at'[x] = at[x]
    BY <1>2, <1>4 DEF SS!Finished, Key, SS!Workers
  <2> QED BY <2>1 DEF OneInserted, SS!Workers
<1> QED BY <1>1, <1>2, <1>3, <1>4

LEMMA ClaimKeeps ==
  ASSUME SS!InputsOK, SSInv, NEW i \in SS!Workers, SS!Claim(i)
  PROVE  SSInv'
<1>1. at[i] = "cas" /\ slot' = slot
  BY DEF SS!Claim
<1> USE SSFacts
<1>2. CASE TA[slot[i]] = SS!empty
  <2>1. TA' = [TA EXCEPT ![slot[i]] = Inserts[i]] /\ at' = [at EXCEPT ![i] = "inserted"]
    BY <1>2 DEF SS!Claim, SS!Goto
  <2>2. slot[i] \in Slots /\ TA[slot[i]][1] = UintMax
    BY <1>2 DEF SS!empty
  <2>3. \A l \in Slots : TA'[l] = IF l = slot[i] THEN <<Key(i), SS!Value[i]>> ELSE TA[l]
    BY <2>1 DEF SSInv, SSType
  <2>4. /\ \A v \in SS!Keys : \A j : Path(v, j) => Path(v, j)'
        /\ \A x \in SS!Workers : at'[x] = IF x = i THEN "inserted" ELSE at[x]
        /\ \A v : v # Key(i) => SS!Finished(v)' = SS!Finished(v) /\ (OneInserted(v) => OneInserted(v)')
    <3>1. \A l \in Slots : TA[l][1] # UintMax => TA'[l][1] = TA[l][1]
      BY <2>2, <2>3
    <3> QED BY <2>1, <3>1, StepKeeps, ZenonT(30)
  <2>5. SSType'
    <3>1. Inserts[i] \in (SS!Keys \cup {UintMax}) \X Nat
      OBVIOUS
    <3> QED BY <1>1, <2>1, <3>1 DEF SSInv, SSType, SS!Workers, SS!Keys
  <2>6. \A j \in Slots : TA[j][1] # Key(i)
    <3> SUFFICES ASSUME NEW j \in Slots, TA[j][1] = Key(i) PROVE FALSE
      OBVIOUS
    <3>1. Path(Key(i), j) /\ Path(Key(i), slot[i])
      BY DEF SSInv, Placed
    <3> QED BY <2>2, <3>1, PathsEnd
  <2>7. SS!Finished(Key(i)) = {}
    BY <2>6
  <2>8. SS!Finished(Key(i))' = {i}
    BY <2>4, <2>7 DEF SS!Finished, Key, SS!Workers
  <2>9. Placed'
    <3>1. ASSUME NEW j \in Slots, NEW v, v = TA'[j][1]
          PROVE  IF v = UintMax THEN TA'[j] = SS!empty ELSE Path(v, j)'
      <4>1. CASE j = slot[i]
        BY <2>3, <2>4, <3>1, <4>1 DEF SSInv, Placed
      <4>2. CASE j # slot[i]
        BY <2>3, <2>4, <3>1, <4>2 DEF SSInv, Placed
      <4> QED BY <4>1, <4>2
    <3>2. ASSUME NEW x \in SS!Workers
          PROVE  /\ Path(Key(x), slot[x])'
                 /\ at'[x] = "same?" => TA'[slot[x]][1] # UintMax
                 /\ at'[x] \in {"add", "inserted", "added"} => TA'[slot[x]][1] = Key(x)
      <4>1. Path(Key(x), slot[x]) /\ Key(x) \in SS!Keys /\ slot[x] \in Slots
        BY DEF SSInv, Placed
      <4>2. Path(Key(x), slot[x])'
        BY <1>1, <2>4, <4>1 DEF Key
      <4>3. TA[slot[x]][1] # UintMax => TA'[slot[x]] = TA[slot[x]]
        BY <2>2, <2>3, <4>1
      <4> QED BY <1>1, <2>2, <2>3, <2>4, <4>1, <4>2, <4>3 DEF SSInv, Placed
    <3> QED BY <1>1, <3>1, <3>2 DEF Placed, SS!Workers, Key, SS!empty
  <2>10. Summed'
    <3> SUFFICES ASSUME NEW j \in Slots, NEW v, v = TA'[j][1], v # UintMax
                 PROVE  OneInserted(v)' /\ TA'[j][2] = SS!Sums(SS!Finished(v)')
      BY SummedNext
    <3>1. CASE j = slot[i]
      <4>1. TA'[j][1] = Key(i) /\ TA'[j][2] = SS!Value[i]
        BY <2>3, <3>1
      <4>2. SS!Sums({i}) = SS!Value[i]
        <5>1. SS!Sums({} \cup {i}) = SS!Sums({}) + SS!Value[i] /\ SS!Sums({}) = 0
          BY SumsAre, FS_EmptySet
        <5>2. {} \cup {i} = {i} /\ SS!Value[i] \in Nat
          OBVIOUS
        <5> QED BY <5>1, <5>2
      <4>3. {x \in SS!Finished(Key(i))' : at'[x] = "inserted"} = {i}
        BY <2>4, <2>8
      <4>4. OneInserted(Key(i))'
        BY <4>3 DEF OneInserted, SS!Workers, Key
      <4> QED BY <2>8, <4>1, <4>2, <4>4
    <3>2. CASE j # slot[i]
      <4>1. TA'[j] = TA[j] /\ TA[j][1] # Key(i)
        BY <2>3, <2>6, <3>2
      <4> QED BY <2>4, <4>1 DEF SSInv, Summed
    <3> QED BY <3>1, <3>2
  <2> QED BY <2>5, <2>9, <2>10 DEF SSInv
<1>3. CASE TA[slot[i]] # SS!empty
  <2>1. TA' = TA /\ at' = [at EXCEPT ![i] = "same?"]
    BY <1>3 DEF SS!Claim, SS!Goto
  <2>2. /\ \A v \in SS!Keys : \A j : Path(v, j) => Path(v, j)'
        /\ \A x \in SS!Workers : at'[x] = IF x = i THEN "same?" ELSE at[x]
        /\ \A v : SS!Finished(v)' = SS!Finished(v) /\ (OneInserted(v) => OneInserted(v)')
    BY <1>1, <2>1, StepKeeps, ZenonT(30)
  <2>3. SSType'
    BY <1>1, <2>1 DEF SSInv, SSType, SS!Workers, SS!Keys
  <2>4. TA[slot[i]][1] # UintMax
    BY <1>3 DEF SSInv, Placed
  <2>5. Placed'
    <3>1. ASSUME NEW x \in SS!Workers PROVE Path(Key(x), slot[x])'
      BY <1>1, <2>2 DEF SSInv, Placed, Key
    <3>2. \A j \in Slots : \A v : v = TA'[j][1] =>
            IF v = UintMax THEN TA'[j] = SS!empty ELSE Path(v, j)'
      BY <2>1, <2>2 DEF SSInv, Placed
    <3> QED BY <1>1, <2>1, <2>2, <2>4, <3>1, <3>2 DEF SSInv, Placed, SS!Workers, Key, SS!empty
  <2>6. Summed'
    BY <2>1, <2>2, SummedNext DEF SSInv, Summed
  <2> QED BY <2>3, <2>5, <2>6 DEF SSInv
<1> QED BY <1>2, <1>3

\* A step of i that leaves the table alone and answers nothing keeps the invariant, if
\* the slot i then looks at is on the path of its key and fits what i will do there.
LEMMA LookingKeeps ==
  ASSUME SS!InputsOK, SSInv, NEW i \in SS!Workers, NEW a \in {"empty?", "add"}, NEW l \in Slots,
         at[i] \notin {"inserted", "added"}, TA' = TA,
         at' = [at EXCEPT ![i] = a], slot' = [slot EXCEPT ![i] = l],
         Path(Key(i), l), a = "add" => TA[l][1] = Key(i)
  PROVE  SSInv'
<1>1. /\ \A v \in SS!Keys : \A j : Path(v, j) => Path(v, j)'
      /\ \A x \in SS!Workers : at'[x] = IF x = i THEN a ELSE at[x]
      /\ \A v : SS!Finished(v)' = SS!Finished(v) /\ (OneInserted(v) => OneInserted(v)')
  BY StepKeeps
<1>2. \A x \in SS!Workers : slot'[x] = IF x = i THEN l ELSE slot[x]
  BY DEF SSInv, SSType
<1>3. SSType'
  BY DEF SSInv, SSType, SS!Workers, SS!Keys
<1>4. Placed'
  <2>1. ASSUME NEW x \in SS!Workers, NEW k, k = slot'[x] PROVE Path(Key(x), k)'
    <3>1. Path(Key(x), k) /\ Key(x) \in SS!Keys
      BY <1>2, <2>1, SSFacts DEF SSInv, Placed
    <3> QED BY <1>1, <3>1 DEF Key
  <2>2. \A j \in Slots : \A v : v = TA'[j][1] =>
          IF v = UintMax THEN TA'[j] = SS!empty ELSE Path(v, j)'
    BY <1>1, SSFacts DEF SSInv, Placed
  <2>3. \A j \in Slots : IF TA'[j][1] = UintMax THEN TA'[j] = SS!empty ELSE Path(TA[j][1], j)'
    BY <2>2 DEF Path, SS!Slot
  <2>4. \A x \in SS!Workers : Path(Key(x), slot[x])'
    BY <2>1 DEF Path, SS!Slot, Key
  <2>5. \A x \in SS!Workers : /\ at'[x] = "same?" => TA'[slot'[x]][1] # UintMax
                              /\ at'[x] \in {"add", "inserted", "added"} => TA'[slot'[x]][1] = Key(x)
    BY <1>1, <1>2 DEF SSInv, Placed
  <2> QED BY <2>3, <2>4, <2>5 DEF Placed, SS!Workers, Key, SS!empty
<1>5. Summed'
  BY <1>1, SummedNext DEF SSInv, Summed
<1> QED BY <1>3, <1>4, <1>5 DEF SSInv

LEMMA TestSameKeeps ==
  ASSUME SS!InputsOK, SSInv, NEW i \in SS!Workers, SS!TestSame(i)
  PROVE  SSInv'
<1>1. at[i] = "same?" /\ TA' = TA
  BY DEF SS!TestSame
<1>2. /\ Key(i) \in SS!Keys /\ slot[i] \in Slots /\ TA[slot[i]][1] # UintMax
      /\ Path(Key(i), slot[i])
  BY <1>1, SSFacts DEF SSInv, Placed
<1>3. CASE TA[slot[i]][1] = Key(i)
  <2>1. at' = [at EXCEPT ![i] = "add"] /\ slot' = slot
    BY <1>3 DEF SS!TestSame, SS!Goto, Key
  <2>2. slot' = [slot EXCEPT ![i] = slot[i]]
    BY <2>1 DEF SSInv, SSType
  <2> QED BY <1>1, <1>2, <1>3, <2>1, <2>2, LookingKeeps
<1>4. CASE TA[slot[i]][1] # Key(i)
  <2>1. at' = [at EXCEPT ![i] = "empty?"] /\ slot' = [slot EXCEPT ![i] = (slot[i] + 1) % TableSize]
    BY <1>4 DEF SS!TestSame, SS!Goto, Key
  <2>2. PICK k \in Slots : /\ slot[i] = SS!Slot(Key(i), k)
                           /\ \A l \in 0 .. k - 1 : TA[SS!Slot(Key(i), l)][1] \notin {UintMax, Key(i)}
    BY <1>2 DEF Path
  <2>3. \A l \in 0 .. k : TA[SS!Slot(Key(i), l)][1] \notin {UintMax, Key(i)}
    <3>1. TA[SS!Slot(Key(i), k)][1] \notin {UintMax, Key(i)}
      BY <1>2, <1>4, <2>2
    <3>2. \A l \in 0 .. k : l \in 0 .. k - 1 \/ l = k
      BY DEF Slots
    <3> QED BY <2>2, <3>1, <3>2
  <2>4. k + 1 \in Slots
    BY <1>2, <2>3, NotTheLast
  <2>5. SS!Slot(Key(i), k + 1) = (slot[i] + 1) % TableSize /\ SS!Slot(Key(i), k + 1) \in Slots
    BY <1>2, <2>2, <2>4, SlotsAre
  <2>6. Path(Key(i), SS!Slot(Key(i), k + 1))
    <3>1. (k + 1) - 1 = k
      BY DEF Slots
    <3> QED BY <2>3, <2>4, <3>1 DEF Path
  <2> QED BY <1>1, <2>1, <2>5, <2>6, LookingKeeps
<1> QED BY <1>3, <1>4

LEMMA AddKeeps ==
  ASSUME SS!InputsOK, SSInv, NEW i \in SS!Workers, SS!Add(i)
  PROVE  SSInv'
<1>1. /\ at[i] = "add" /\ slot' = slot /\ at' = [at EXCEPT ![i] = "added"]
      /\ TA' = [TA EXCEPT ![slot[i]][2] = @ + Inserts[i][2]]
  BY DEF SS!Add, SS!Goto
<1>2. /\ slot[i] \in Slots /\ TA[slot[i]][1] = Key(i)
      /\ Key(i) \in SS!Keys /\ Key(i) # UintMax /\ SS!Value[i] \in Nat /\ TA[slot[i]][2] \in Nat
      /\ Inserts[i][2] = SS!Value[i]
  BY <1>1, SSFacts DEF SSInv, Placed, SS!Value
<1>3. /\ TA'[slot[i]] = <<Key(i), TA[slot[i]][2] + SS!Value[i]>>
      /\ \A j \in Slots : j # slot[i] => TA'[j] = TA[j]
  <2>1. TA' = [TA EXCEPT ![slot[i]] = <<Key(i), TA[slot[i]][2] + SS!Value[i]>>]
    <3>1. TA[slot[i]] = <<Key(i), TA[slot[i]][2]>>
      BY <1>2, SSFacts
    <3>2. [TA[slot[i]] EXCEPT ![2] = @ + Inserts[i][2]] = <<Key(i), TA[slot[i]][2] + SS!Value[i]>>
      BY <1>2, <3>1
    <3> QED BY <1>1, <3>2
  <2> QED BY <1>2, <2>1 DEF SSInv, SSType
<1>4. \A l \in Slots : TA'[l][1] = TA[l][1]
  <2>1. TA'[slot[i]][1] = Key(i) /\ TA'[slot[i]][2] = TA[slot[i]][2] + SS!Value[i]
    BY <1>3
  <2> QED BY <1>2, <1>3, <2>1
<1>5. /\ \A v \in SS!Keys : \A j : Path(v, j) => Path(v, j)'
      /\ \A x \in SS!Workers : at'[x] = IF x = i THEN "added" ELSE at[x]
      /\ \A v : v # Key(i) => SS!Finished(v)' = SS!Finished(v) /\ (OneInserted(v) => OneInserted(v)')
  BY <1>1, <1>4, StepKeeps
<1>6. SSType'
  <2>1. \A j \in Slots : TA'[j] \in (SS!Keys \cup {UintMax}) \X Nat
    <3>1. TA[slot[i]][2] + SS!Value[i] \in Nat
      BY <1>2
    <3>2. TA'[slot[i]] \in (SS!Keys \cup {UintMax}) \X Nat
      BY <1>2, <1>3, <3>1
    <3> QED BY <1>3, <3>2 DEF SSInv, SSType
  <2>2. TA' \in [Slots -> (SS!Keys \cup {UintMax}) \X Nat]
    <3>1. TA' = [j \in Slots |-> TA'[j]]
      BY <1>1 DEF SSInv, SSType
    <3> QED BY <2>1, <3>1
  <2> QED BY <1>1, <2>2 DEF SSInv, SSType, SS!Workers, SS!Keys
<1>7. Placed'
  <2>1. ASSUME NEW j \in Slots, NEW v, v = TA'[j][1]
        PROVE  IF v = UintMax THEN TA'[j] = SS!empty ELSE Path(v, j)'
    <3>1. v = TA[j][1] /\ (v = UintMax => TA'[j] = TA[j])
      BY <1>2, <1>3, <1>4, <2>1
    <3>2. v = UintMax \/ v \in SS!Keys
      BY <3>1, SSFacts
    <3> QED BY <1>5, <3>1, <3>2 DEF SSInv, Placed
  <2>2. \A j \in Slots : IF TA'[j][1] = UintMax THEN TA'[j] = SS!empty ELSE Path(TA[j][1], j)'
    BY <2>1 DEF Path, SS!Slot
  <2>3. ASSUME NEW x \in SS!Workers
        PROVE  /\ Path(Key(x), slot[x])'
               /\ at'[x] = "same?" => TA'[slot'[x]][1] # UintMax
               /\ at'[x] \in {"add", "inserted", "added"} => TA'[slot'[x]][1] = Key(x)
    <3>1. Path(Key(x), slot[x]) /\ Key(x) \in SS!Keys /\ slot[x] \in Slots
      BY SSFacts DEF SSInv, Placed
    <3>2. Path(Key(x), slot[x])'
      BY <1>1, <1>5, <3>1 DEF Key
    <3> QED BY <1>1, <1>2, <1>4, <1>5, <3>1, <3>2 DEF SSInv, Placed
  <2> QED BY <2>2, <2>3 DEF Placed, SS!Workers, Key, SS!empty
<1>8. Summed'
  <2> SUFFICES ASSUME NEW j \in Slots, NEW v, v = TA'[j][1], v # UintMax
               PROVE  OneInserted(v)' /\ TA'[j][2] = SS!Sums(SS!Finished(v)')
    BY SummedNext
  <2>1. v = TA[j][1] /\ OneInserted(v) /\ TA[j][2] = SS!Sums(SS!Finished(v))
    BY <1>4 DEF SSInv, Summed
  <2>2. CASE j = slot[i]
    <3>1. v = Key(i) /\ TA'[j][2] = TA[j][2] + SS!Value[i]
      <4>1. v = Key(i)
        BY <1>2, <2>1, <2>2
      <4>2. TA'[slot[i]][2] = TA[slot[i]][2] + SS!Value[i]
        BY <1>3
      <4> QED BY <2>2, <4>1, <4>2
    <3>2. SS!Finished(v)' = SS!Finished(v) \cup {i} /\ i \notin SS!Finished(v)
      BY <1>1, <1>5, <3>1 DEF SS!Finished, Key, SS!Workers
    <3>3. SS!Sums(SS!Finished(v) \cup {i}) = SS!Sums(SS!Finished(v)) + SS!Value[i]
      BY <3>2, SSFacts, SumsAre
    <3>4. {x \in SS!Finished(v)' : at'[x] = "inserted"} = {x \in SS!Finished(v) : at[x] = "inserted"}
      <4>1. SS!Finished(v) \subseteq SS!Workers
        BY DEF SS!Finished
      <4> QED BY <1>1, <1>5, <3>2, <4>1
    <3>5. OneInserted(v)'
      BY <2>1, <3>4 DEF OneInserted, SS!Workers
    <3> QED BY <2>1, <3>1, <3>2, <3>3, <3>5
  <2>3. CASE j # slot[i]
    <3>1. v # Key(i) /\ TA'[j] = TA[j]
      BY <1>2, <1>3, <2>1, <2>3, SSFacts
    <3> QED BY <1>5, <2>1, <3>1
  <2> QED BY <2>2, <2>3
<1> QED BY <1>6, <1>7, <1>8 DEF SSInv

\* A search for a key arrives at its slot, or at an empty one if it has none.
LEMMA FoundIs ==
  ASSUME SS!InputsOK, SSInv, NEW v \in SS!Keys
  PROVE  /\ \A j \in Slots : TA[j][1] = v => SS!Found(v) = j
         /\ (\A j \in Slots : TA[j][1] # v) => SS!Found(v) = TableSize
<1> DEFINE S == SS!Stops(v)
<1>1. /\ \A k \in S : k \in Slots /\ SS!Slot(v, k) \in Slots /\ TA[SS!Slot(v, k)][1] \in {UintMax, v}
      /\ \A k \in Slots : TA[SS!Slot(v, k)][1] \in {UintMax, v} => k \in S
  BY SlotsAre DEF SS!Stops, Slots
<1>2. S \subseteq Nat
  BY <1>1 DEF Slots
<1> HIDE DEF S
<1>3. ASSUME NEW k \in S, \A y \in S : k <= y PROVE SS!Min(S) = k
  <2>1. \A x \in S : (\A y \in S : x <= y) => x = k
    BY <1>2, <1>3
  <2> QED BY <1>3, <2>1 DEF SS!Min
<1>4. SS!Found(v) = IF S # {} /\ TA[SS!Slot(v, SS!Min(S))][1] = v THEN SS!Slot(v, SS!Min(S)) ELSE TableSize
  BY DEF SS!Found, S
<1>5. ASSUME NEW j \in Slots, TA[j][1] = v PROVE SS!Found(v) = j
  <2>1. v # UintMax /\ Path(v, j)
    BY <1>5, SSFacts DEF SSInv, Placed
  <2>2. PICK k \in Slots : /\ j = SS!Slot(v, k)
                           /\ \A l \in 0 .. k - 1 : TA[SS!Slot(v, l)][1] \notin {UintMax, v}
    BY <2>1 DEF Path
  <2>3. k \in S
    BY <1>1, <1>5, <2>2
  <2>4. \A y \in S : k <= y
    <3> SUFFICES ASSUME NEW y \in S, ~(k <= y) PROVE FALSE
      OBVIOUS
    <3>1. y \in 0 .. k - 1
      BY <1>2, <2>2 DEF Slots
    <3> QED BY <1>1, <2>2, <3>1
  <2>5. SS!Min(S) = k
    BY <1>3, <2>3, <2>4
  <2> QED BY <1>4, <1>5, <2>2, <2>3, <2>5
<1>6. ASSUME \A j \in Slots : TA[j][1] # v PROVE SS!Found(v) = TableSize
  <2>1. CASE S = {}
    BY <1>4, <2>1
  <2>2. CASE S # {}
    <3>1. PICK k \in S : \A y \in S : k <= y
      BY <1>2, <2>2, LeastMember
    <3>2. SS!Min(S) = k
      BY <1>3, <3>1
    <3> QED BY <1>1, <1>4, <1>6, <3>2
  <2> QED BY <2>1, <2>2
<1> QED BY <1>5, <1>6

LEMMA SSInvHolds == ASSUME SS!InputsOK, SSInv PROVE SS!TableHoldsSums
<1>1. ASSUME NEW j \in Slots, NEW l \in Slots, TA[j][1] = TA[l][1] PROVE j = l \/ TA[j] = SS!empty
  BY <1>1, SSFacts DEF SSInv, Placed
<1>2. ASSUME NEW v \in SS!Keys
      PROVE  /\ IF SS!Finished(v) = {} THEN SS!Found(v) = TableSize
                ELSE SS!Found(v) # TableSize /\ TA[SS!Found(v)][2] = SS!Sums(SS!Finished(v))
             /\ SS!Cardinality({i \in SS!Finished(v) : at[i] = "inserted"})
                  = IF SS!Finished(v) = {} THEN 0 ELSE 1
  <2> DEFINE new == {i \in SS!Finished(v) : at[i] = "inserted"}
  <2>1. SS!Cardinality(new) = Cardinality(new)
    BY DEF SS!Cardinality, Cardinality
  <2>2. ASSUME NEW j \in Slots, TA[j][1] = v
        PROVE  /\ SS!Finished(v) # {} /\ SS!Found(v) = j /\ j # TableSize
               /\ TA[j][2] = SS!Sums(SS!Finished(v)) /\ Cardinality(new) = 1
    <3>1. v # UintMax /\ SS!Found(v) = j
      BY <2>2, SSFacts, FoundIs
    <3>2. PICK i \in SS!Workers : new = {i}
      BY <2>2, <3>1 DEF SSInv, Summed, OneInserted
    <3>3. i \in SS!Finished(v) /\ Cardinality(new) = 1
      <4>1. Cardinality(new) = 1
        BY <3>2, FS_Singleton
      <4> QED BY <3>2, <4>1
    <3>4. j # TableSize
      BY DEF Slots, SS!InputsOK
    <3> QED BY <2>2, <3>1, <3>3, <3>4 DEF SSInv, Summed
  <2> HIDE DEF new
  <2>3. /\ IF SS!Finished(v) = {} THEN SS!Found(v) = TableSize
           ELSE SS!Found(v) # TableSize /\ TA[SS!Found(v)][2] = SS!Sums(SS!Finished(v))
        /\ SS!Cardinality(new) = IF SS!Finished(v) = {} THEN 0 ELSE 1
    <3>1. CASE \A j \in Slots : TA[j][1] # v
      <4>1. SS!Finished(v) = {} /\ SS!Found(v) = TableSize /\ Cardinality(new) = 0
        <5>1. SS!Finished(v) = {} /\ SS!Found(v) = TableSize
          BY <3>1, SSFacts, FoundIs
        <5>2. new = {}
          BY <5>1 DEF new
        <5> QED BY <5>1, <5>2, FS_EmptySet
      <4> QED BY <2>1, <4>1
    <3>2. CASE \E j \in Slots : TA[j][1] = v
      BY <2>1, <2>2, <3>2
    <3> QED BY <3>1, <3>2
  <2> QED BY <2>3 DEF new
<1> QED BY <1>1, <1>2 DEF SS!TableHoldsSums, Slots

\* For any hash, any inserts and any order of their accesses to the table: no key has
\* two slots, find arrives at a key from the moment its first insert is done, its sum
\* is that of the inserts that have answered, and of these one says the key is new.
THEOREM TableAlwaysHoldsSums ==
  ASSUME SS!InputsOK
  PROVE  SS!Spec => []SS!TableHoldsSums
<1>1. SS!Init => SSInv
  BY InitSSInv
<1>2. SSInv /\ [SS!Next]_SS!vars => SSInv'
  <2> SUFFICES ASSUME SSInv, [SS!Next]_SS!vars PROVE SSInv'
    OBVIOUS
  <2>1. ASSUME NEW i \in SS!Workers, SS!TestEmpty(i) \/ SS!Claim(i) \/ SS!TestSame(i) \/ SS!Add(i)
        PROVE  SSInv'
    BY <2>1, TestEmptyKeeps, ClaimKeeps, TestSameKeeps, AddKeeps
  <2>2. CASE UNCHANGED SS!vars
    <3>1. TA' = TA /\ at' = at /\ slot' = slot
      BY <2>2 DEF SS!vars
    <3>2. /\ \A v, j : Path(v, j)' <=> Path(v, j)
          /\ \A v : SS!Finished(v)' = SS!Finished(v) /\ (OneInserted(v) => OneInserted(v)')
      BY <3>1 DEF Path, SS!Slot, OneInserted, SS!Finished, SS!Workers
    <3>3. SSType'
      BY <3>1 DEF SSInv, SSType, SS!Workers, SS!Keys
    <3>4. Placed'
      BY <3>1, <3>2 DEF SSInv, Placed, SS!Workers, Key
    <3>5. Summed'
      BY <3>1, <3>2, SummedNext DEF SSInv, Summed
    <3> QED BY <3>3, <3>4, <3>5 DEF SSInv
  <2> QED BY <2>1, <2>2 DEF SS!Next
<1>3. SSInv => SS!TableHoldsSums
  BY SSInvHolds
<1> QED BY <1>1, <1>2, <1>3, PTL DEF SS!Spec

-----------------------------------------------------------------------------
(* One of each survives for any array and any order of the accesses.  In   *)
(* the first loop an entry that has joined has seen its flag taken, by an  *)
(* entry of the same key.  From then on each key has a winner: its flag    *)
(* holds the winner until the winner takes it off, and every other entry   *)
(* of the key, whether it reads the winner or UintMax there, loses.        *)

RDType == /\ input \in Arrays /\ input \in [RD!Entries -> Nat] /\ UintMax \in Nat \ RD!Entries
          /\ keys \in [RD!Entries -> Nat]
          /\ flags \in [RD!KeysOf(input) -> RD!Entries \cup {UintMax}]
          /\ at \in [RD!Entries -> {"test", "cas", "join", "won?", "reset", "lost", "end"}]

First == /\ \A i \in RD!Entries : at[i] \in {"test", "cas", "join"} /\ keys[i] = input[i]
         /\ \A i \in RD!Entries : at[i] = "cas" => input[i] # UintMax
         /\ \A word \in RD!KeysOf(input) : flags[word] # UintMax => input[flags[word]] = word
         /\ \A i \in RD!Entries : at[i] = "join" /\ input[i] # UintMax => flags[input[i]] # UintMax

Winner(word, w) == \/ at[w] \in {"won?", "reset"} /\ flags[word] = w
                   \/ at[w] = "end" /\ flags[word] = UintMax
Loser(i) == \/ at[i] \in {"won?", "lost"} /\ keys[i] = input[i]
            \/ at[i] = "end" /\ keys[i] = UintMax
WonBy(word, w) == /\ input[w] = word /\ keys[w] = word /\ Winner(word, w)
                  /\ \A i \in RD!Entries : i # w /\ input[i] = word => Loser(i)

Second == /\ \A i \in RD!Entries : at[i] \in {"won?", "reset", "lost", "end"}
          /\ \A i \in RD!Entries : keys[i] \in {input[i], UintMax}
          /\ \A i \in RD!Entries : input[i] = UintMax => at[i] = "end"
          /\ \A word \in RD!KeysOf(input) : \E w \in RD!Entries : WonBy(word, w)

RDInv == RDType /\ (First \/ Second)

\* Before the first loop no flag is taken.
LEMMA InitRDInv == RD!InputsOK /\ RD!Init => RDInv
<1> SUFFICES ASSUME RD!InputsOK, RD!Init PROVE RDInv
  OBVIOUS
<1>1. /\ UintMax \in Nat \ RD!Entries /\ input \in Arrays /\ input \in [RD!Entries -> Nat]
      /\ keys = input /\ flags = [word \in RD!KeysOf(input) |-> UintMax]
      /\ at = [i \in RD!Entries |-> "test"]
  BY DEF RD!InputsOK, RD!Init, RD!Entries
<1>2. RDType
  BY <1>1 DEF RDType
<1>3. First
  <2>1. \A word \in RD!KeysOf(input) : flags[word] = UintMax
    BY <1>1
  <2> QED BY <1>1, <2>1 DEF First
<1> QED BY <1>2, <1>3 DEF RDInv

\* The types, at every step.
LEMMA TypeKept == RDType /\ [RD!Next]_(RD!vars) => RDType'
<1> SUFFICES ASSUME RDType, [RD!Next]_(RD!vars) PROVE RDType'
  OBVIOUS
<1> USE DEF RDType, RD!Entries, RD!KeysOf
<1>1. CASE RD!Join
  BY <1>1 DEF RD!Join
<1>2. ASSUME NEW i \in RD!Entries, RD!Test(i) \/ RD!Won(i) PROVE RDType'
  BY <1>2 DEF RD!Test, RD!Won, RD!Goto
<1>3. ASSUME NEW i \in RD!Entries, RD!Swap(i) PROVE RDType'
  BY <1>3 DEF RD!Swap, RD!Goto
<1>4. ASSUME NEW i \in RD!Entries, RD!Reset(i) PROVE RDType'
  BY <1>4 DEF RD!Reset, RD!Goto
<1>5. ASSUME NEW i \in RD!Entries, RD!Remove(i) PROVE RDType'
  BY <1>5 DEF RD!Remove, RD!Goto
<1>6. CASE UNCHANGED RD!vars
  BY <1>6 DEF RD!vars
<1> QED BY <1>1, <1>2, <1>3, <1>4, <1>5, <1>6 DEF RD!Next

LEMMA FirstLoop ==
  ASSUME RDType, First, NEW i \in RD!Entries, RD!Test(i) \/ RD!Swap(i)
  PROVE  First'
<1> USE DEF RDType, RD!Entries
<1>1. \A j \in RD!Entries : input[j] # UintMax => input[j] \in RD!KeysOf(input)
  BY DEF RD!KeysOf
<1>2. CASE RD!Test(i)
  BY <1>1, <1>2 DEF First, RD!Test, RD!Goto
<1>3. CASE RD!Swap(i)
  <2>1. /\ keys[i] = input[i] /\ input[i] \in RD!KeysOf(input) /\ input' = input /\ keys' = keys
        /\ at' = [at EXCEPT ![i] = "join"]
        /\ flags' = [flags EXCEPT ![input[i]] = IF @ = UintMax THEN i ELSE @]
    BY <1>1, <1>3 DEF First, RD!Swap, RD!Goto
  <2>2. \A word \in RD!KeysOf(input) : word # input[i] => flags'[word] = flags[word]
    BY <2>1
  <2>3. flags'[input[i]] = IF flags[input[i]] = UintMax THEN i ELSE flags[input[i]]
    BY <2>1
  <2>4. \A word \in RD!KeysOf(input) : flags[word] # UintMax => flags'[word] # UintMax
    BY <2>2, <2>3
  <2>5. flags'[input[i]] # UintMax
    BY <2>3
  <2>6. \A word \in RD!KeysOf(input) : flags'[word] # UintMax => input[flags'[word]] = word
    BY <2>2, <2>3 DEF First
  <2>7. \A j \in RD!Entries : at'[j] = "join" /\ input[j] # UintMax => flags'[input[j]] # UintMax
    BY <1>1, <2>1, <2>4, <2>5 DEF First
  <2> QED BY <2>1, <2>6, <2>7, RD!KeysOf(input') = RD!KeysOf(input) DEF First
<1> QED BY <1>2, <1>3

LEMMA LoopsJoin ==
  ASSUME RDType, First, RD!Join
  PROVE  Second'
<1> USE DEF RDType, RD!Entries
<1>1. /\ \A i \in RD!Entries : at[i] = "join"
      /\ at' = [i \in RD!Entries |-> IF keys[i] = UintMax THEN "end" ELSE "won?"]
      /\ input' = input /\ keys' = keys /\ flags' = flags
  BY DEF RD!Join
<1>2. ASSUME NEW word \in RD!KeysOf(input) PROVE \E w \in RD!Entries : WonBy(word, w)'
  <2>1. PICK i \in RD!Entries : input[i] = word /\ word # UintMax
    BY DEF RD!KeysOf
  <2>2. PICK w \in RD!Entries : w = flags[word] /\ input[w] = word
    BY <1>1, <2>1 DEF First
  <2>3. WonBy(word, w)'
    BY <1>1, <2>1, <2>2 DEF First, WonBy, Winner, Loser
  <2> QED BY <2>2, <2>3
<1> QED BY <1>1, <1>2, RD!KeysOf(input') = RD!KeysOf(input) DEF First, Second

LEMMA SecondLoop ==
  ASSUME RDType, Second, NEW i \in RD!Entries, RD!Won(i) \/ RD!Reset(i) \/ RD!Remove(i)
  PROVE  Second'
<1> USE DEF RDType, RD!Entries
<1>1. /\ input' = input /\ RD!KeysOf(input') = RD!KeysOf(input)
      /\ at[i] \in {"won?", "reset", "lost"} /\ input[i] # UintMax
      /\ at'[i] \in {"reset", "lost", "end"} /\ keys'[i] \in {keys[i], UintMax}
      /\ \A j \in RD!Entries : j # i => at'[j] = at[j] /\ keys'[j] = keys[j]
  BY DEF RD!Won, RD!Reset, RD!Remove, RD!Goto, Second
<1>2. input[i] \in RD!KeysOf(input)
  BY <1>1 DEF RD!KeysOf
<1>3. PICK w \in RD!Entries : WonBy(input[i], w)
  BY <1>2 DEF Second
<1>4. \A word \in RD!KeysOf(input) : word # input[i] => flags'[word] = flags[word]
  <2>1. CASE RD!Reset(i)
    <3>1. flags' = [flags EXCEPT ![keys[i]] = UintMax] /\ keys[i] \in {input[i], UintMax}
      BY <2>1 DEF RD!Reset, Second
    <3> QED BY <3>1 DEF RD!KeysOf
  <2>2. CASE RD!Won(i) \/ RD!Remove(i)
    BY <2>2 DEF RD!Won, RD!Remove
  <2> QED BY <2>1, <2>2
<1>5. WonBy(input[i], w)'
  <2>1. CASE i = w
    <3>1. keys[i] = input[i] /\ Winner(input[i], i)
      BY <1>3, <2>1 DEF WonBy
    <3>2. Winner(input[i], i)' /\ keys' = keys
      <4>1. CASE RD!Won(i)
        BY <1>1, <3>1, <4>1 DEF Winner, RD!Won, RD!Goto
      <4>2. CASE RD!Reset(i)
        BY <1>1, <1>2, <3>1, <4>2 DEF Winner, RD!Reset, RD!Goto
      <4>3. ~RD!Remove(i)
        BY <3>1 DEF Winner, RD!Remove
      <4> QED BY <4>1, <4>2, <4>3
    <3> QED BY <1>1, <1>3, <2>1, <3>2 DEF WonBy, Loser
  <2>2. CASE i # w
    <3>1. Loser(i) /\ Winner(input[i], w)
      BY <1>3, <2>2 DEF WonBy
    <3>2. ~RD!Reset(i) /\ flags' = flags
      BY <1>1, <3>1 DEF Loser, RD!Won, RD!Reset, RD!Remove
    <3>3. Loser(i)'
      <4>1. CASE RD!Won(i)
        <5>1. keys[i] = input[i] /\ flags[input[i]] # i
          BY <2>2, <3>1, <4>1 DEF RD!Won, Loser, Winner
        <5> QED BY <1>1, <2>2, <3>1, <4>1, <5>1 DEF Loser, Winner, RD!Won, RD!Goto
      <4>2. CASE RD!Remove(i)
        BY <4>2 DEF Loser, RD!Remove, RD!Goto
      <4> QED BY <3>2, <4>1, <4>2
    <3> QED BY <1>1, <1>3, <2>2, <3>1, <3>2, <3>3 DEF WonBy, Winner, Loser
  <2> QED BY <2>1, <2>2
<1>6. ASSUME NEW word \in RD!KeysOf(input), word # input[i] PROVE \E x \in RD!Entries : WonBy(word, x)'
  <2>1. PICK x \in RD!Entries : WonBy(word, x)
    BY DEF Second
  <2>2. WonBy(word, x)'
    BY <1>1, <1>4, <1>6, <2>1 DEF WonBy, Winner, Loser
  <2> QED BY <2>2
<1> QED BY <1>1, <1>5, <1>6 DEF Second

LEMMA RDInvKept == RDInv /\ [RD!Next]_(RD!vars) => RDInv'
<1> SUFFICES ASSUME RDInv, [RD!Next]_(RD!vars) PROVE First' \/ Second'
  BY TypeKept DEF RDInv
<1> USE DEF RDInv
<1>1. CASE RD!Join
  <2>1. CASE First
    BY <1>1, <2>1, LoopsJoin
  <2>2. CASE Second
    BY <1>1, <2>2 DEF RD!Join, First, Second, RDType, RD!Entries
  <2> QED BY <2>1, <2>2
<1>2. ASSUME NEW i \in RD!Entries, RD!Test(i) \/ RD!Swap(i) PROVE First'
  <2>1. First
    BY <1>2 DEF RD!Test, RD!Swap, Second
  <2> QED BY <1>2, <2>1, FirstLoop
<1>3. ASSUME NEW i \in RD!Entries, RD!Won(i) \/ RD!Reset(i) \/ RD!Remove(i) PROVE Second'
  <2>1. Second
    BY <1>3 DEF RD!Won, RD!Reset, RD!Remove, First
  <2> QED BY <1>3, <2>1, SecondLoop
<1>4. CASE UNCHANGED RD!vars
  <2>1. First => First'
    BY <1>4 DEF RD!vars, First, RD!Entries, RD!KeysOf
  <2>2. \A word, w : WonBy(word, w) => WonBy(word, w)'
    BY <1>4 DEF RD!vars, WonBy, Winner, Loser, RD!Entries
  <2>3. Second => Second'
    BY <1>4, <2>2 DEF RD!vars, Second, RD!Entries, RD!KeysOf
  <2> QED BY <2>1, <2>3
<1> QED BY <1>1, <1>2, <1>3, <1>4 DEF RD!Next

LEMMA DoneIsExact == RDInv => RD!OneOfEachSurvives
<1> SUFFICES ASSUME RDInv, RD!Done PROVE RD!OneOfEachSurvives
  BY DEF RD!OneOfEachSurvives
<1> USE DEF RDInv, RDType, RD!Entries
<1>1. \A i \in RD!Entries : at[i] = "end" /\ keys[i] \in {input[i], UintMax}
  BY DEF RD!Done, First, Second
<1>2. ASSUME NEW word \in RD!KeysOf(input)
      PROVE  /\ word \in RD!KeysOf(keys) /\ flags[word] = UintMax
             /\ \A i, j \in RD!Entries : keys[i] = word /\ keys[j] = word => i = j
  <2>1. word # UintMax /\ \E i \in RD!Entries : input[i] = word
    BY DEF RD!KeysOf
  <2>2. Second
    BY <1>1, <2>1 DEF First
  <2>3. PICK w \in RD!Entries : WonBy(word, w)
    BY <2>2 DEF Second
  <2>4. flags[word] = UintMax /\ keys[w] = word
    BY <1>1, <2>3 DEF WonBy, Winner
  <2>5. \A i \in RD!Entries : keys[i] = word => i = w
    BY <1>1, <2>1, <2>3 DEF WonBy, Loser
  <2> QED BY <2>1, <2>4, <2>5 DEF RD!KeysOf
<1>3. RD!KeysOf(keys) \subseteq RD!KeysOf(input)
  BY <1>1 DEF RD!KeysOf
<1>4. \A i, j \in RD!Entries : keys[i] = keys[j] => i = j \/ keys[i] = UintMax
  BY <1>1, <1>2 DEF RD!KeysOf
<1> QED BY <1>2, <1>3, <1>4 DEF RD!OneOfEachSurvives

\* Whatever the order of the two loops' reads, CASes and resets, one entry of each key is
\* left and the flags are clean: for every array of keys.
THEOREM OneOfEachAlwaysSurvives == ASSUME RD!InputsOK PROVE RD!Spec => []RD!OneOfEachSurvives
<1>1. RD!Init => RDInv
  BY InitRDInv
<1> QED BY <1>1, RDInvKept, DoneIsExact, PTL DEF RD!Spec

-----------------------------------------------------------------------------
(* SetCover covers, and each round pays for itself, for every family of    *)
(* sets and any tables of buckets and thresholds.                          *)
(*                                                                         *)
(* An element that is not covered is in the list of every set it belongs   *)
(* to, as a list loses only covered ones, and one of these sets is not in  *)
(* the cover (SCSets): of the sets that compete for it in a round, writeMin*)
(* leaves one, which it stays with or which joins and covers it; when none *)
(* competes nobody who has it joins.  A set that is not in the cover waits *)
(* in a bucket, or nothing of it is left.  In the second call whoever holds*)
(* an element still has its edge to go (Resetting).                        *)

Lists(u) == {e \in input : e[1] = u}
SCType == /\ stage \in {"loop", "visit", "reset", "done"}
          /\ input \in SCGraphs /\ GA \subseteq input
          /\ Elms \in [SCVerts -> SCVerts \cup {COVERED, UintMax}]
          /\ Deg \in [SCVerts -> Nat] /\ \A u \in SCVerts : Deg[u] <= Cardinality(Lists(u))
          /\ filed \subseteq SCVerts /\ cover \subseteq SCVerts /\ active \subseteq SCVerts
          /\ Frontier \subseteq active
          /\ todo \subseteq SC!OutOf(Frontier) /\ DOMAIN regs \subseteq SC!OutOf(Frontier)
          /\ stage \in {"loop", "done"} => todo = {} /\ DOMAIN regs = {}

\* A set that is not in the cover, and may still be wanted, and what it can still add.
Waits(u) == u \in filed \/ (stage \in {"visit", "reset"} /\ u \in active)
SCSets == /\ \A e \in input : e \in GA \/ Elms[e[2]] = COVERED
          /\ \A u \in SCVerts \ cover : SC!Elements(u) \subseteq SC!Covered \/ Waits(u)
          /\ \A u \in SCVerts : Cardinality(SC!Elements(u) \ SC!Covered) <= Deg[u]
          /\ \A u \in filed : key[u] = SC!get_bucket_clamped(Deg[u]) /\ key[u] # UintMax
          /\ cover \cap filed = {}
          /\ SC!Covered \subseteq UNION {SC!Elements(u) : u \in cover}
          /\ \A e \in input : \/ Elms[e[2]] = COVERED
                              \/ Elms[e[2]] \in cover
                              \/ \E w \in SCVerts \ cover : <<w, e[2]>> \in input

Idle == /\ stage = "loop" => \A v \in SCVerts : Elms[v] \in {COVERED, UintMax}
        /\ stage = "done" => \A v \in SCVerts : Elms[v] \in {COVERED, UintMax}
        /\ stage = "done" => filed = {}

Visiting == /\ active \cap cover = {} /\ active \cap filed = {} /\ Low[taken.id] \in Nat
            /\ \A e \in SC!OutOf(Frontier) : /\ Elms[e[2]] # COVERED
                                             /\ e \in todo \/ e \in DOMAIN regs \/ Elms[e[2]] \in SCVerts
            /\ \A v \in SCVerts : Elms[v] \in SCVerts => Elms[v] \in Frontier /\ <<Elms[v], v>> \in GA
Resetting == /\ active \cap filed = {}
             /\ \A v \in SCVerts : Elms[v] \in SCVerts => <<Elms[v], v>> \in todo \cup DOMAIN regs
             /\ \A e \in DOMAIN regs : Elms[e[2]] = e[1]
             /\ SC!CoverPays
SCInv == /\ SCType /\ SCSets /\ Idle
         /\ stage = "visit" => Visiting
         /\ stage = "reset" => Resetting

\* Shares that do not overlap add up.
LEMMA SharesAddUp ==
  ASSUME NEW S, IsFiniteSet(S), NEW Whole, IsFiniteSet(Whole), NEW Share, NEW L \in Nat,
         \A u \in S : Share[u] \subseteq Whole /\ L <= Cardinality(Share[u]),
         \A u, x \in S : u # x => Share[u] \cap Share[x] = {}
  PROVE  Cardinality(S) * L <= Cardinality(Whole)
<1> DEFINE Parts(s) == UNION {Share[u] : u \in s}
           P == {c \in Nat : \A s \in SUBSET S : Cardinality(s) = c => c * L <= Cardinality(Parts(s))}
<1>1. \A s \in SUBSET S : /\ IsFiniteSet(s) /\ Cardinality(s) \in Nat /\ (Cardinality(s) = 0 <=> s = {})
                          /\ Parts(s) \subseteq Whole /\ IsFiniteSet(Parts(s)) /\ Cardinality(Parts(s)) \in Nat
                          /\ Cardinality(Parts(s)) <= Cardinality(Whole)
  <2> SUFFICES ASSUME NEW s \in SUBSET S
               PROVE  /\ IsFiniteSet(s) /\ Cardinality(s) \in Nat /\ (Cardinality(s) = 0 <=> s = {})
                      /\ Parts(s) \subseteq Whole /\ IsFiniteSet(Parts(s)) /\ Cardinality(Parts(s)) \in Nat
                      /\ Cardinality(Parts(s)) <= Cardinality(Whole)
    OBVIOUS
  <2>1. Parts(s) \subseteq Whole
    OBVIOUS
  <2> QED BY <2>1, FS_Subset, FS_CardinalityType, FS_EmptySet
<1>2. 0 \in P
  <2> SUFFICES ASSUME NEW s \in SUBSET S PROVE 0 * L <= Cardinality(Parts(s))
    OBVIOUS
  <2>1. Cardinality(Parts(s)) \in Nat
    BY <1>1
  <2>2. 0 * L = 0
    OBVIOUS
  <2> HIDE DEF Parts
  <2> QED BY <2>1, <2>2
<1>3. ASSUME NEW c \in Nat, c \in P PROVE c + 1 \in P
  <2> SUFFICES ASSUME NEW s \in SUBSET S, Cardinality(s) = c + 1 PROVE (c + 1) * L <= Cardinality(Parts(s))
    OBVIOUS
  <2>1. PICK x \in s : TRUE
    <3>1. Cardinality(s) # 0
      OBVIOUS
    <3> QED BY <1>1, <3>1
  <2> DEFINE r == s \ {x}
  <2>2. r \in SUBSET S /\ Cardinality(r) = c
    <3>1. Cardinality(r) = (c + 1) - 1
      BY <1>1, <2>1, FS_RemoveElement
    <3> QED BY <3>1
  <2>3. c * L <= Cardinality(Parts(r))
    BY <1>3, <2>2
  <2>4. Parts(s) = Parts(r) \cup Share[x] /\ Parts(r) \cap Share[x] = {}
    BY <2>1
  <2>5. IsFiniteSet(Share[x]) /\ Cardinality(Share[x]) \in Nat /\ L <= Cardinality(Share[x])
    BY <2>1, FS_Subset, FS_CardinalityType
  <2>6. IsFiniteSet(Parts(r)) /\ Cardinality(Parts(r)) \in Nat
    BY <1>1, <2>2
  <2> HIDE DEF Parts, r
  <2>7. Cardinality(Parts(s)) = Cardinality(Parts(r)) + Cardinality(Share[x])
    <3>1. Cardinality(Parts(r) \cap Share[x]) = 0
      BY <2>4, FS_EmptySet
    <3>2. Cardinality(Parts(s)) = Cardinality(Parts(r)) + Cardinality(Share[x]) - Cardinality(Parts(r) \cap Share[x])
      BY <2>4, <2>5, <2>6, FS_Union
    <3> QED BY <2>5, <2>6, <3>1, <3>2
  <2>8. (c + 1) * L = c * L + L /\ c * L \in Nat
    OBVIOUS
  <2> QED BY <2>3, <2>5, <2>6, <2>7, <2>8
<1> HIDE DEF P
<1>4. Cardinality(S) \in P
  BY <1>1, <1>2, <1>3, SetInduction
<1>5. Cardinality(S) * L <= Cardinality(Parts(S))
  BY <1>4 DEF P
<1>6. Cardinality(S) * L \in Nat /\ Cardinality(Whole) \in Nat
  <2>1. Cardinality(S) \in Nat /\ Cardinality(Whole) \in Nat
    BY FS_CardinalityType
  <2> QED BY <2>1
<1>7. Cardinality(Parts(S)) \in Nat /\ Cardinality(Parts(S)) <= Cardinality(Whole)
  BY <1>1
<1> HIDE DEF Parts
<1> QED BY <1>5, <1>6, <1>7

\* A set's elements, its list, and how many there are.
LEMMA SCFacts ==
  ASSUME SC!InputsOK, input \in SCGraphs
  PROVE  /\ IsFiniteSet(input) /\ \A S : SC!Cardinality(S) = Cardinality(S)
         /\ \A e \in input : e[1] \in SCVerts /\ e[2] \in SCVerts /\ e = <<e[1], e[2]>>
         /\ \A u, v : v \in SC!Elements(u) <=> <<u, v>> \in input
         /\ \A u : SC!Elements(u) \subseteq SCVerts
         /\ \A v \in SCVerts : v \in Int /\ v # UintMax /\ v # COVERED /\ v < UintMax
         /\ UintMax \in Int /\ UintMax # COVERED
<1>1. \A S : SC!Cardinality(S) = Cardinality(S)
  BY DEF SC!Cardinality, Cardinality
<1>2. input \subseteq SCVerts \X SCVerts /\ IsFiniteSet(SCVerts)
  BY DEF SC!InputsOK, SC!IsFiniteSet, IsFiniteSet
<1>3. IsFiniteSet(input)
  BY <1>2, FS_Product, FS_Subset
<1>4. \A e \in input : e[1] \in SCVerts /\ e[2] \in SCVerts /\ e = <<e[1], e[2]>>
  BY <1>2
<1>5. ASSUME NEW u, NEW v PROVE v \in SC!Elements(u) <=> <<u, v>> \in input
  <2>1. ASSUME v \in SC!Elements(u) PROVE <<u, v>> \in input
    BY <1>4, <2>1 DEF SC!Elements
  <2>2. ASSUME <<u, v>> \in input PROVE v \in SC!Elements(u)
    <3>1. <<u, v>>[1] = u /\ <<u, v>>[2] = v
      OBVIOUS
    <3> QED BY <2>2, <3>1 DEF SC!Elements
  <2> QED BY <2>1, <2>2
<1>6. \A u : SC!Elements(u) \subseteq SCVerts
  BY <1>4 DEF SC!Elements
<1>7. UintMax \in Int /\ UintMax # COVERED /\ \A v \in SCVerts : v \in Int /\ v # UintMax /\ v # COVERED /\ v < UintMax
  BY DEF SC!InputsOK
<1> QED BY <1>1, <1>3, <1>4, <1>5, <1>6, <1>7

\* As many edges of one set as elements at their ends.
LEMMA ListCounts ==
  ASSUME SC!InputsOK, input \in SCGraphs, NEW u, NEW L \in SUBSET Lists(u)
  PROVE  /\ IsFiniteSet(L) /\ Cardinality(L) \in Nat
         /\ \A Ends : (\A v \in Ends : <<u, v>> \in L) => IsFiniteSet(Ends) /\ Cardinality(Ends) \in Nat /\ Cardinality(Ends) <= Cardinality(L)
         /\ \A Ends : IsFiniteSet(Ends) /\ (\A e \in L : e[2] \in Ends) => Cardinality(L) <= Cardinality(Ends)
<1> USE SCFacts
<1>1. IsFiniteSet(L) /\ Cardinality(L) \in Nat
  BY FS_Subset, FS_CardinalityType DEF Lists
<1>2. ASSUME NEW Ends, \A v \in Ends : <<u, v>> \in L
      PROVE  IsFiniteSet(Ends) /\ Cardinality(Ends) \in Nat /\ Cardinality(Ends) <= Cardinality(L)
  <2> DEFINE f == [v \in Ends |-> <<u, v>>]
  <2>1. f \in [Ends -> L] /\ \A a, c \in Ends : f[a] = f[c] => a = c
    BY <1>2
  <2>2. f \in Injection(Ends, L)
    BY <2>1, Fun_IsInj
  <2> QED BY <1>1, <2>2, FS_Injection, FS_CardinalityType
<1>3. ASSUME NEW Ends, IsFiniteSet(Ends), \A e \in L : e[2] \in Ends
      PROVE  Cardinality(L) <= Cardinality(Ends)
  <2> DEFINE f == [e \in L |-> e[2]]
  <2>1. \A a, c \in L : a[2] = c[2] => a = c
    BY DEF Lists
  <2>2. f \in [L -> Ends] /\ \A a, c \in L : f[a] = f[c] => a = c
    BY <1>3, <2>1
  <2>3. f \in Injection(L, Ends)
    BY <2>2, Fun_IsInj
  <2> QED BY <1>3, <2>3, FS_Injection
<1> QED BY <1>1, <1>2, <1>3

\* A degree a set can have has a bucket.
LEMMA KeysHaveLows ==
  ASSUME SC!InputsOK, input \in SCGraphs, NEW u \in SCVerts, NEW d \in Nat, d <= Cardinality(Lists(u)), d # 0
  PROVE  SC!get_bucket_clamped(d) = Bucket[d] /\ Bucket[d] # UintMax /\ Low[Bucket[d]] \in Nat
<1>1. d \in 1 .. Cardinality(Lists(u))
  <2>1. Cardinality(Lists(u)) \in Nat
    BY ListCounts
  <2> QED BY <2>1
<1>2. SC!Cardinality({e \in input : e[1] = u}) = Cardinality(Lists(u))
  BY SCFacts DEF Lists
<1> QED BY <1>1, <1>2 DEF SC!InputsOK, SC!get_bucket_clamped

LEMMA InitSCInv == ASSUME SC!InputsOK, SC!Init PROVE SCInv
<1>1. /\ GA \in SCGraphs /\ input = GA /\ stage = "loop" /\ todo = {} /\ DOMAIN regs = {}
      /\ Frontier = {} /\ active = {} /\ cover = {}
      /\ Elms = [v \in SCVerts |-> UintMax]
      /\ Deg = [v \in SCVerts |-> SC!OutDegree(v)]
      /\ key = [v \in SCVerts |-> SC!get_bucket_clamped(Deg[v])]
      /\ filed = {v \in SCVerts : key[v] # UintMax}
  BY DEF SC!Init, SC!NoCall, SC!b!Init
<1>2. \A v \in SCVerts : Deg[v] = Cardinality(Lists(v)) /\ Deg[v] \in Nat
  <2> TAKE v \in SCVerts
  <2>1. SC!OutOf({v}) = Lists(v)
    BY <1>1 DEF SC!OutOf, Lists
  <2>2. Cardinality(Lists(v)) \in Nat
    BY <1>1, ListCounts
  <2> QED BY <1>1, <2>1, <2>2, SCFacts DEF SC!OutDegree
<1>3. SC!Covered = {} /\ UintMax # COVERED
  BY <1>1, SCFacts DEF SC!Covered
<1>4. SCType
  <2>1. Deg \in [SCVerts -> Nat] /\ \A u \in SCVerts : Deg[u] <= Cardinality(Lists(u))
    BY <1>1, <1>2
  <2> QED BY <1>1, <2>1 DEF SCType
<1>5. SCSets
  <2>1. \A u \in SCVerts : SC!Elements(u) \subseteq SC!Covered \/ Waits(u)
    <3> SUFFICES ASSUME NEW u \in SCVerts, u \notin filed PROVE SC!Elements(u) = {}
      BY <1>1 DEF Waits
    <3>1. Deg[u] = 0
      BY <1>1, <1>2, KeysHaveLows
    <3>2. Lists(u) = {}
      BY <1>1, <1>2, <3>1, ListCounts, FS_EmptySet
    <3> QED BY <3>2 DEF SC!Elements, Lists
  <2>2. \A u \in SCVerts : Cardinality(SC!Elements(u) \ SC!Covered) <= Deg[u]
    <3> TAKE u \in SCVerts
    <3>1. \A v \in SC!Elements(u) \ SC!Covered : <<u, v>> \in Lists(u)
      BY <1>1, SCFacts DEF Lists
    <3> QED BY <1>1, <1>2, <3>1, ListCounts
  <2>3. \A e \in input : e[1] \in SCVerts \ cover /\ <<e[1], e[2]>> \in input
    BY <1>1, SCFacts
  <2>4. \A u \in filed : key[u] = SC!get_bucket_clamped(Deg[u]) /\ key[u] # UintMax
    BY <1>1
  <2> QED BY <1>1, <1>3, <2>1, <2>2, <2>3, <2>4 DEF SCSets
<1> QED BY <1>1, <1>4, <1>5 DEF SCInv, Idle

\* What SCSets says is of the graph, the elements and the buckets.
LEMMA SCSetsKept ==
  ASSUME SCSets, stage' = stage, GA' = GA, input' = input, Elms' = Elms, Deg' = Deg, key' = key,
         filed' = filed, cover' = cover, active' = active
  PROVE  SCSets'
<1>1. SC!Covered' = SC!Covered /\ \A u : SC!Elements(u)' = SC!Elements(u)
  BY DEF SC!Covered, SC!Elements
<1>2. \A u : Waits(u)' <=> Waits(u)
  BY DEF Waits
<1>3. \A deg : SC!get_bucket_clamped(deg)' = SC!get_bucket_clamped(deg)
  BY DEF SC!get_bucket_clamped
<1> QED BY <1>1, <1>2, <1>3 DEF SCSets

\* A call that is only entered, or passed over.
LEMMA TestKeepsSCInv ==
  ASSUME SC!InputsOK, SCInv, NEW e \in todo, SC!TestElm(e) \/ SC!TestOwner(e)
  PROVE  SCInv'
<1>1. /\ stage \in {"visit", "reset"} /\ stage' = stage /\ GA' = GA /\ Frontier' = Frontier /\ input' = input
      /\ Elms' = Elms /\ Deg' = Deg /\ key' = key /\ filed' = filed /\ taken' = taken /\ cover' = cover
      /\ active' = active /\ todo' = todo \ {e}
  BY DEF SC!TestElm, SC!TestOwner, SC!Enter, SC!Pass, SC!mainVars, SC!scVars
<1>2. \/ /\ stage = "visit" /\ Elms[e[2]] # COVERED /\ DOMAIN regs' = DOMAIN regs \cup {e}
      \/ /\ stage = "visit" /\ Elms[e[2]] = COVERED /\ DOMAIN regs' = DOMAIN regs
      \/ /\ stage = "reset" /\ Elms[e[2]] = e[1] /\ DOMAIN regs' = DOMAIN regs \cup {e}
      \/ /\ stage = "reset" /\ Elms[e[2]] # e[1] /\ DOMAIN regs' = DOMAIN regs
  BY DEF SC!TestElm, SC!TestOwner, SC!Enter, SC!Pass
<1>3. SCType /\ SCSets /\ (stage = "visit" => Visiting) /\ (stage = "reset" => Resetting)
  BY DEF SCInv
<1>4. SC!OutOf(Frontier)' = SC!OutOf(Frontier)
  BY <1>1 DEF SC!OutOf
<1>5. SCType'
  <2>1. \A u : Lists(u)' = Lists(u)
    BY <1>1 DEF Lists
  <2>2. todo' \subseteq SC!OutOf(Frontier) /\ DOMAIN regs' \subseteq SC!OutOf(Frontier)
    BY <1>1, <1>2, <1>3 DEF SCType
  <2> QED BY <1>1, <1>3, <1>4, <2>1, <2>2 DEF SCType
<1>6. SCSets'
  BY <1>1, <1>3, SCSetsKept
<1>7. CASE stage = "visit"
  <2>1. e \in SC!OutOf(Frontier)
    BY <1>3 DEF SCType
  <2>2. Visiting'
    BY <1>1, <1>2, <1>3, <1>4, <1>7, <2>1 DEF Visiting
  <2> QED BY <1>1, <1>5, <1>6, <1>7, <2>2 DEF SCInv, Idle
<1>8. CASE stage = "reset"
  <2>1. \A v \in SCVerts : Elms'[v] \in SCVerts => <<Elms'[v], v>> \in todo' \cup DOMAIN regs'
    <3> SUFFICES ASSUME NEW v \in SCVerts, Elms[v] \in SCVerts PROVE <<Elms[v], v>> \in todo' \cup DOMAIN regs'
      BY <1>1
    <3>1. <<Elms[v], v>> \in todo \cup DOMAIN regs
      BY <1>3, <1>8 DEF Resetting
    <3>2. ASSUME <<Elms[v], v>> = e PROVE Elms[e[2]] = e[1]
      BY <3>2
    <3> QED BY <1>1, <1>2, <1>8, <3>1, <3>2
  <2>2. SC!CoverPays'
    BY <1>1, <1>3, <1>8 DEF Resetting, SC!CoverPays
  <2>3. Resetting'
    BY <1>1, <1>2, <1>3, <1>8, <2>1, <2>2 DEF Resetting
  <2> QED BY <1>1, <1>5, <1>6, <1>8, <2>3 DEF SCInv, Idle
<1> QED BY <1>1, <1>7, <1>8

\* In the first call nobody holds an element but a set that asks for it.
LEMMA AcquireKeepsSCInv ==
  ASSUME SC!InputsOK, SCInv, NEW e \in DOMAIN regs, SC!Acquire(e)
  PROVE  SCInv'
<1>1. /\ stage = "visit" /\ stage' = stage /\ GA' = GA /\ Frontier' = Frontier /\ input' = input
      /\ Deg' = Deg /\ key' = key /\ filed' = filed /\ taken' = taken /\ cover' = cover
      /\ active' = active /\ todo' = todo /\ DOMAIN regs' = DOMAIN regs \ {e}
      /\ Elms' = IF e[1] < Elms[e[2]] THEN [Elms EXCEPT ![e[2]] = e[1]] ELSE Elms
  BY DEF SC!Acquire, SC!Answer, SC!mainVars
<1>2. SCType /\ SCSets /\ Visiting /\ input \in SCGraphs
  BY <1>1 DEF SCInv, SCType
<1>3. /\ e \in GA /\ e \in input /\ e[1] \in Frontier /\ e[1] \in SCVerts /\ e[2] \in SCVerts /\ e = <<e[1], e[2]>>
      /\ Elms[e[2]] # COVERED /\ Elms \in [SCVerts -> SCVerts \cup {COVERED, UintMax}]
  BY <1>2, SCFacts DEF SCType, SC!OutOf, Visiting
<1>4. Elms'[e[2]] \in SCVerts /\ (Elms'[e[2]] = e[1] \/ Elms'[e[2]] = Elms[e[2]])
  <2>1. CASE e[1] < Elms[e[2]]
    BY <1>1, <1>3, <2>1
  <2>2. CASE ~(e[1] < Elms[e[2]])
    <3>1. Elms[e[2]] # UintMax
      BY <1>2, <1>3, <2>2, SCFacts
    <3> QED BY <1>1, <1>3, <2>2, <3>1
  <2> QED BY <2>1, <2>2
<1>5. Elms' \in [SCVerts -> SCVerts \cup {COVERED, UintMax}] /\ \A v \in SCVerts : v # e[2] => Elms'[v] = Elms[v]
  BY <1>1, <1>3
<1>6. \A v \in SCVerts : Elms'[v] = COVERED <=> Elms[v] = COVERED
  BY <1>2, <1>3, <1>4, <1>5, SCFacts
<1>7. SC!OutOf(Frontier)' = SC!OutOf(Frontier) /\ \A u : Lists(u)' = Lists(u) /\ SC!Elements(u)' = SC!Elements(u)
  BY <1>1 DEF SC!OutOf, Lists, SC!Elements
<1>8. SC!Covered' = SC!Covered
  BY <1>6 DEF SC!Covered
<1>9. \A u : (Waits(u)' <=> Waits(u)) /\ SC!get_bucket_clamped(Deg[u])' = SC!get_bucket_clamped(Deg[u])
  BY <1>1 DEF Waits, SC!get_bucket_clamped
<1>10. SCType'
  BY <1>1, <1>2, <1>5, <1>7 DEF SCType
<1>11. SCSets'
  <2>1. \A x \in input : x[2] \in SCVerts
    BY <1>2, SCFacts
  <2>2. ASSUME NEW x \in input, Elms'[x[2]] # COVERED PROVE \E w \in SCVerts \ cover : <<w, x[2]>> \in input
    <3>1. Elms[x[2]] \notin cover
      BY <1>2, <2>1 DEF SCType, Visiting
    <3> QED BY <1>2, <1>6, <2>1, <2>2, <3>1 DEF SCSets
  <2>3. \A x \in input : x \in GA \/ Elms'[x[2]] = COVERED
    BY <1>2, <1>6, <2>1 DEF SCSets
  <2> QED BY <1>1, <1>2, <1>7, <1>8, <1>9, <2>2, <2>3 DEF SCSets
<1>12. Visiting'
  <2>1. \A x \in SC!OutOf(Frontier) : x[2] \in SCVerts
    BY <1>2, SCFacts DEF SCType, SC!OutOf
  <2>2. \A x \in SC!OutOf(Frontier) : /\ Elms'[x[2]] # COVERED
                                      /\ x \in todo' \/ x \in DOMAIN regs' \/ Elms'[x[2]] \in SCVerts
    BY <1>1, <1>2, <1>4, <1>5, <1>6, <2>1 DEF Visiting
  <2>3. \A v \in SCVerts : Elms'[v] \in SCVerts => Elms'[v] \in Frontier /\ <<Elms'[v], v>> \in GA
    BY <1>2, <1>3, <1>4, <1>5 DEF Visiting
  <2> QED BY <1>1, <1>2, <1>7, <2>2, <2>3 DEF Visiting
<1> QED BY <1>1, <1>10, <1>11, <1>12 DEF SCInv, Idle

LEMMA JoinKeepsSCInv ==
  ASSUME SC!InputsOK, SCInv, SC!JoinCover
  PROVE  SCInv'
<1> DEFINE joined == {u \in Frontier : SC!NumWon(u) >= Low[taken.id]}
<1>1. /\ stage = "visit" /\ stage' = "reset" /\ GA' = GA /\ Frontier' = Frontier /\ input' = input
      /\ Elms' = Elms /\ Deg' = Deg /\ key' = key /\ filed' = filed /\ taken' = taken /\ active' = active
      /\ todo = {} /\ DOMAIN regs = {} /\ todo' = SC!OutOf(Frontier) /\ DOMAIN regs' = {}
      /\ cover' = cover \cup joined
  BY DEF SC!JoinCover, SC!Returned, SC!Begin
<1>2. SCType /\ SCSets /\ Visiting /\ input \in SCGraphs
  BY <1>1 DEF SCInv, SCType
<1>3. Frontier \cap cover' = joined /\ joined \subseteq Frontier /\ Frontier \subseteq active /\ active \subseteq SCVerts
  BY <1>1, <1>2 DEF SCType, Visiting
<1>4. /\ SC!OutOf(Frontier)' = SC!OutOf(Frontier) /\ SC!Covered' = SC!Covered
      /\ \A u : Lists(u)' = Lists(u) /\ SC!Elements(u)' = SC!Elements(u) /\ (Waits(u)' <=> Waits(u))
      /\ \A u : SC!get_bucket_clamped(Deg[u])' = SC!get_bucket_clamped(Deg[u])
  BY <1>1 DEF SC!OutOf, SC!Covered, Lists, SC!Elements, Waits, SC!get_bucket_clamped
<1> HIDE DEF joined
<1>5. SCType'
  BY <1>1, <1>2, <1>3, <1>4 DEF SCType
<1>6. SCSets'
  <2>1. ASSUME NEW e \in input, Elms[e[2]] # COVERED, Elms[e[2]] \notin cover'
        PROVE  \E w \in SCVerts \ cover' : <<w, e[2]>> \in input
    <3>1. e[2] \in SCVerts /\ Elms[e[2]] \in SCVerts \cup {UintMax}
      BY <1>2, <2>1, SCFacts DEF SCType
    <3>2. CASE Elms[e[2]] \in SCVerts
      BY <1>2, <2>1, <3>1, <3>2 DEF Visiting, SCType
    <3>3. CASE Elms[e[2]] = UintMax
      <4>1. PICK w \in SCVerts \ cover : <<w, e[2]>> \in input
        BY <1>1, <1>2, <2>1 DEF SCSets
      <4>2. <<w, e[2]>>[1] = w /\ <<w, e[2]>>[2] = e[2]
        OBVIOUS
      <4>3. <<w, e[2]>> \in GA
        BY <1>2, <2>1, <4>1, <4>2 DEF SCSets
      <4>4. w \notin Frontier
        <5> SUFFICES ASSUME w \in Frontier PROVE FALSE
          OBVIOUS
        <5>1. <<w, e[2]>> \in SC!OutOf(Frontier)
          BY <4>2, <4>3 DEF SC!OutOf
        <5>2. Elms[e[2]] \in SCVerts
          BY <1>1, <1>2, <4>2, <5>1 DEF Visiting
        <5> QED BY <3>3, <5>2, <1>2, SCFacts
      <4> QED BY <1>1, <1>3, <4>1, <4>4
    <3> QED BY <3>1, <3>2, <3>3
  <2>2. cover' \cap filed = {}
    BY <1>1, <1>2, <1>3 DEF SCSets, Visiting
  <2> QED BY <1>1, <1>2, <1>4, <2>1, <2>2 DEF SCSets
<1>7. SC!CoverPays'
  <2> DEFINE share == [u \in joined |-> {v \in SCVerts : Elms[v] = u}]
             bought == {v \in SCVerts : \/ Elms[v] \in cover'
                                        \/ Elms[v] = COVERED /\ \E u \in Frontier : <<u, v>> \in GA}
  <2>1. IsFiniteSet(SCVerts)
    BY DEF SC!InputsOK, SC!IsFiniteSet, IsFiniteSet
  <2>2. IsFiniteSet(joined) /\ IsFiniteSet(bought)
    BY <1>3, <2>1, FS_Subset
  <2>3. ASSUME NEW u \in joined PROVE share[u] \subseteq bought /\ Low[taken.id] <= Cardinality(share[u])
    <3>1. u \in cover'
      BY <1>3
    <3>2. share[u] \subseteq bought
      BY <3>1
    <3> DEFINE L == {e \in SC!OutOf({u}) : Elms[e[2]] = u}
    <3>3. L \subseteq Lists(u) /\ \A e \in L : e[2] \in share[u]
      BY <1>2, SCFacts DEF SC!OutOf, Lists, SCType
    <3>4. IsFiniteSet(share[u]) /\ Cardinality(share[u]) \in Nat
      BY <2>2, <3>2, FS_Subset, FS_CardinalityType
    <3> HIDE DEF share
    <3>5. Cardinality(L) <= Cardinality(share[u]) /\ Cardinality(L) \in Nat
      <4> HIDE DEF L
      <4> QED BY <1>2, <3>3, <3>4, ListCounts
    <3>6. Cardinality(L) >= Low[taken.id]
      BY <1>2, SCFacts DEF joined, SC!NumWon
    <3>7. Low[taken.id] \in Nat
      BY <1>2 DEF Visiting
    <3> QED BY <3>2, <3>4, <3>5, <3>6, <3>7
  <2>4. \A u, x \in joined : u # x => share[u] \cap share[x] = {}
    OBVIOUS
  <2> HIDE DEF share, bought
  <2>5. Low[taken.id] \in Nat
    BY <1>2 DEF Visiting
  <2>6. Cardinality(joined) * Low[taken.id] <= Cardinality(bought)
    BY <2>2, <2>3, <2>4, <2>5, SharesAddUp
  <2> QED BY <1>1, <1>2, <1>3, <2>6, SCFacts DEF SC!CoverPays, bought
<1>8. Resetting'
  <2>1. \A v \in SCVerts : Elms[v] \in SCVerts => <<Elms[v], v>> \in SC!OutOf(Frontier)
    <3> TAKE v \in SCVerts
    <3> HAVE Elms[v] \in SCVerts
    <3>1. Elms[v] \in Frontier /\ <<Elms[v], v>> \in GA
      BY <1>2 DEF Visiting
    <3> QED BY <3>1 DEF SC!OutOf
  <2> QED BY <1>1, <1>2, <1>7, <2>1 DEF Resetting, Visiting
<1> QED BY <1>1, <1>5, <1>6, <1>8 DEF SCInv, Idle

LEMMA SettleKeepsSCInv ==
  ASSUME SC!InputsOK, SCInv, NEW e \in DOMAIN regs, SC!Settle(e)
  PROVE  SCInv'
<1>1. /\ stage = "reset" /\ stage' = stage /\ GA' = GA /\ Frontier' = Frontier /\ input' = input
      /\ Deg' = Deg /\ key' = key /\ filed' = filed /\ taken' = taken /\ cover' = cover
      /\ active' = active /\ todo' = todo /\ DOMAIN regs' = DOMAIN regs \ {e}
      /\ Elms' = [Elms EXCEPT ![e[2]] = IF e[1] \in cover THEN COVERED ELSE UintMax]
  BY DEF SC!Settle, SC!Answer, SC!mainVars
<1>2. SCType /\ SCSets /\ Resetting /\ input \in SCGraphs
  BY <1>1 DEF SCInv, SCType
<1>3. /\ e \in GA /\ e \in input /\ e[1] \in Frontier /\ e[1] \in SCVerts /\ e[2] \in SCVerts /\ e = <<e[1], e[2]>>
      /\ Elms[e[2]] = e[1] /\ Elms \in [SCVerts -> SCVerts \cup {COVERED, UintMax}] /\ cover \subseteq SCVerts
  BY <1>2, SCFacts DEF SCType, SC!OutOf, Resetting
<1>4. /\ Elms' \in [SCVerts -> SCVerts \cup {COVERED, UintMax}]
      /\ \A v \in SCVerts : Elms'[v] = IF v # e[2] THEN Elms[v] ELSE IF e[1] \in cover THEN COVERED ELSE UintMax
  BY <1>1, <1>3
<1>5. /\ SC!OutOf(Frontier)' = SC!OutOf(Frontier)
      /\ \A u : Lists(u)' = Lists(u) /\ SC!Elements(u)' = SC!Elements(u) /\ (Waits(u)' <=> Waits(u))
      /\ \A u : SC!get_bucket_clamped(Deg[u])' = SC!get_bucket_clamped(Deg[u])
  BY <1>1 DEF SC!OutOf, Lists, SC!Elements, Waits, SC!get_bucket_clamped
<1>6. COVERED # UintMax /\ COVERED \notin SCVerts /\ UintMax \notin SCVerts
  BY <1>2, SCFacts
<1>7. /\ \A v \in SCVerts : Elms[v] = COVERED => Elms'[v] = COVERED
      /\ SC!Covered \subseteq SC!Covered' /\ SC!Covered' \subseteq SC!Covered \cup {e[2]}
      /\ e[2] \in SC!Covered' => e[1] \in cover
  BY <1>3, <1>4, <1>6 DEF SC!Covered
<1>8. SCType'
  BY <1>1, <1>2, <1>4, <1>5 DEF SCType
<1>9. SCSets'
  <2>1. \A x \in input : x[2] \in SCVerts
    BY <1>2, SCFacts
  <2>2. \A x \in input : x \in GA \/ Elms'[x[2]] = COVERED
    BY <1>2, <1>7, <2>1 DEF SCSets
  <2>3. \A u \in SCVerts : Cardinality(SC!Elements(u) \ SC!Covered') <= Deg[u]
    <3> TAKE u \in SCVerts
    <3>1. /\ IsFiniteSet(SC!Elements(u) \ SC!Covered)
          /\ SC!Elements(u) \ SC!Covered' \subseteq SC!Elements(u) \ SC!Covered
      <4>1. \A v \in SC!Elements(u) \ SC!Covered : <<u, v>> \in Lists(u)
        BY <1>2, SCFacts DEF Lists
      <4> QED BY <1>2, <1>7, <4>1, ListCounts
    <3>2. /\ Cardinality(SC!Elements(u) \ SC!Covered') <= Cardinality(SC!Elements(u) \ SC!Covered)
          /\ Cardinality(SC!Elements(u) \ SC!Covered') \in Nat /\ Cardinality(SC!Elements(u) \ SC!Covered) \in Nat
      BY <3>1, FS_Subset, FS_CardinalityType
    <3>3. Cardinality(SC!Elements(u) \ SC!Covered) <= Deg[u] /\ Deg[u] \in Nat
      BY <1>2 DEF SCSets, SCType
    <3> QED BY <3>2, <3>3
  <2>4. SC!Covered' \subseteq UNION {SC!Elements(u) : u \in cover}
    <3>1. e[2] \in SC!Elements(e[1])
      BY <1>2, <1>3, SCFacts
    <3> QED BY <1>2, <1>7, <3>1 DEF SCSets
  <2>5. \A x \in input : \/ Elms'[x[2]] = COVERED
                         \/ Elms'[x[2]] \in cover
                         \/ \E w \in SCVerts \ cover : <<w, x[2]>> \in input
    <3> TAKE x \in input
    <3>1. CASE x[2] # e[2]
      BY <1>2, <1>4, <2>1, <3>1 DEF SCSets
    <3>2. CASE x[2] = e[2]
      <4>1. CASE e[1] \in cover
        BY <1>3, <1>4, <3>2, <4>1
      <4>2. CASE e[1] \notin cover
        BY <1>3, <3>2, <4>2
      <4> QED BY <4>1, <4>2
    <3> QED BY <3>1, <3>2
  <2> QED BY <1>1, <1>2, <1>5, <1>7, <2>2, <2>3, <2>4, <2>5 DEF SCSets
<1>10. Resetting'
  <2>1. ASSUME NEW v \in SCVerts, Elms'[v] \in SCVerts PROVE <<Elms'[v], v>> \in todo' \cup DOMAIN regs'
    <3>1. v # e[2] /\ Elms'[v] = Elms[v]
      BY <1>4, <1>6, <2>1
    <3>2. <<Elms[v], v>> \in todo \cup DOMAIN regs
      BY <1>2, <2>1, <3>1 DEF Resetting
    <3>3. <<Elms[v], v>> # e
      BY <1>3, <3>1
    <3> QED BY <1>1, <3>1, <3>2, <3>3
  <2>2. ASSUME NEW x \in DOMAIN regs' PROVE Elms'[x[2]] = x[1]
    <3>1. x \in DOMAIN regs /\ x # e /\ Elms[x[2]] = x[1]
      BY <1>1, <1>2 DEF Resetting
    <3>2. x = <<x[1], x[2]>> /\ x[2] \in SCVerts
      BY <1>2, <3>1, SCFacts DEF SCType, SC!OutOf
    <3>3. x[2] # e[2]
      BY <1>3, <3>1, <3>2
    <3> QED BY <1>4, <3>1, <3>2, <3>3
  <2>3. \A v \in SCVerts : (\/ Elms'[v] \in cover
                            \/ Elms'[v] = COVERED /\ \E u \in Frontier : <<u, v>> \in GA)
                       <=> (\/ Elms[v] \in cover
                            \/ Elms[v] = COVERED /\ \E u \in Frontier : <<u, v>> \in GA)
    <3> TAKE v \in SCVerts
    <3>1. CASE v # e[2]
      BY <1>4, <3>1
    <3>2. CASE v = e[2]
      <4>1. <<e[1], v>> \in GA
        BY <1>3, <3>2
      <4> QED BY <1>3, <1>4, <1>6, <3>2, <4>1
    <3> QED BY <3>1, <3>2
  <2>4. {v \in SCVerts : \/ Elms'[v] \in cover
                         \/ Elms'[v] = COVERED /\ \E u \in Frontier : <<u, v>> \in GA}
        = {v \in SCVerts : \/ Elms[v] \in cover
                           \/ Elms[v] = COVERED /\ \E u \in Frontier : <<u, v>> \in GA}
    BY <2>3
  <2>5. SC!CoverPays'
    BY <1>1, <1>2, <2>4 DEF Resetting, SC!CoverPays
  <2> QED BY <1>1, <1>2, <2>1, <2>2, <2>5 DEF Resetting
<1> QED BY <1>1, <1>8, <1>9, <1>10 DEF SCInv, Idle

LEMMA RebucketKeepsSCInv ==
  ASSUME SC!InputsOK, SCInv, SC!Rebucket
  PROVE  SCInv'
<1>1. /\ stage = "reset" /\ stage' = "loop" /\ GA' = GA /\ Frontier' = Frontier /\ input' = input
      /\ Elms' = Elms /\ Deg' = Deg /\ taken' = taken /\ cover' = cover /\ active' = active
      /\ todo = {} /\ DOMAIN regs = {} /\ todo' = {} /\ DOMAIN regs' = {}
      /\ key' = [v \in SCVerts |-> IF v \notin active THEN key[v]
                                   ELSE IF v \in cover THEN UintMax ELSE SC!get_bucket_clamped(Deg[v])]
      /\ filed' = filed \cup {v \in active : key'[v] # UintMax}
  BY DEF SC!Rebucket, SC!Returned, SC!callVars
<1>2. SCType /\ SCSets /\ Resetting /\ input \in SCGraphs
  BY <1>1 DEF SCInv, SCType
<1>3. /\ SC!OutOf(Frontier)' = SC!OutOf(Frontier) /\ SC!Covered' = SC!Covered
      /\ \A u : Lists(u)' = Lists(u) /\ SC!Elements(u)' = SC!Elements(u)
      /\ \A u : SC!get_bucket_clamped(Deg[u])' = SC!get_bucket_clamped(Deg[u])
  BY <1>1 DEF SC!OutOf, SC!Covered, Lists, SC!Elements, SC!get_bucket_clamped
<1>4. active \subseteq SCVerts /\ filed \subseteq SCVerts /\ active \cap filed = {}
  BY <1>2 DEF SCType, Resetting
<1>5. \A v \in SCVerts : Elms[v] \in {COVERED, UintMax}
  BY <1>1, <1>2 DEF SCType, Resetting
<1>6. SCType'
  BY <1>1, <1>2, <1>3, <1>4 DEF SCType
<1>7. SCSets'
  <2>1. \A u \in filed' : key'[u] = SC!get_bucket_clamped(Deg[u]) /\ key'[u] # UintMax /\ u \notin cover
    <3> TAKE u \in filed'
    <3>1. CASE u \in filed
      BY <1>1, <1>2, <1>4, <3>1 DEF SCSets
    <3>2. CASE u \in active /\ key'[u] # UintMax
      BY <1>1, <1>4, <3>2
    <3> QED BY <1>1, <3>1, <3>2
  <2>2. ASSUME NEW u \in SCVerts \ cover PROVE SC!Elements(u) \subseteq SC!Covered \/ u \in filed'
    <3>1. SC!Elements(u) \subseteq SC!Covered \/ u \in filed \/ u \in active
      BY <1>2 DEF SCSets, Waits
    <3>2. ASSUME u \in active, u \notin filed' PROVE SC!Elements(u) \subseteq SC!Covered
      <4>1. key'[u] = UintMax /\ key'[u] = SC!get_bucket_clamped(Deg[u])
        BY <1>1, <3>2
      <4>2. Deg[u] = 0
        BY <1>2, <4>1, KeysHaveLows DEF SCType
      <4>3. IsFiniteSet(SC!Elements(u) \ SC!Covered)
        <5>1. \A v \in SC!Elements(u) \ SC!Covered : <<u, v>> \in Lists(u)
          BY <1>2, SCFacts DEF Lists
        <5> QED BY <1>2, <5>1, ListCounts
      <4>4. Cardinality(SC!Elements(u) \ SC!Covered) <= 0 /\ Cardinality(SC!Elements(u) \ SC!Covered) \in Nat
        BY <1>2, <4>2, <4>3, FS_CardinalityType DEF SCSets
      <4>5. Cardinality(SC!Elements(u) \ SC!Covered) = 0
        BY <4>4
      <4>6. SC!Elements(u) \ SC!Covered = {}
        BY <4>3, <4>5, FS_EmptySet
      <4> QED BY <4>6
    <3> QED BY <1>1, <3>1, <3>2
  <2>3. \A e \in input : Elms[e[2]] \in cover => Elms[e[2]] \in SCVerts
    BY <1>2 DEF SCType
  <2> QED BY <1>1, <1>2, <1>3, <2>1, <2>2, <2>3 DEF SCSets, Waits
<1> QED BY <1>1, <1>5, <1>6, <1>7 DEF SCInv, Idle

\* The sets of the first bucket are taken out, and their lists are packed and counted.
LEMMA NextBucketKeepsSCInv ==
  ASSUME SC!InputsOK, SCInv, SC!NextBucket
  PROVE  SCInv'
<1>1. PICK low \in {key[v] : v \in filed} :
        /\ stage = "loop" /\ stage' = "visit" /\ SC!b!Take(low)
        /\ active' = {v \in SCVerts : taken'.identifiers[v] = 1}
        /\ GA' = {e \in GA : e[1] \in active' => Elms[e[2]] # COVERED}
        /\ Deg' = [v \in SCVerts |-> IF v \in active' THEN SC!Cardinality({e \in GA' : e[1] = v}) ELSE Deg[v]]
        /\ Frontier' = {v \in active' : Deg'[v] >= Threshold[low]}
        /\ todo' = {e \in GA' : e[1] \in Frontier'} /\ DOMAIN regs' = {}
        /\ Elms' = Elms /\ cover' = cover /\ input' = input
  BY DEF SC!NextBucket, SC!Begin
<1> DEFINE ids == {v \in filed : key[v] = low}
<1>2. SCType /\ SCSets /\ Idle /\ input \in SCGraphs
  BY <1>1 DEF SCInv, SCType
<1>3. /\ taken' = [id |-> low, identifiers |-> [v \in SCVerts |-> IF v \in ids THEN 1 ELSE 0]]
      /\ filed' = filed \ ids /\ key' = key
  BY <1>1 DEF SC!b!Take
<1>4. active' = ids /\ ids \subseteq SCVerts /\ taken'.id = low
  <2>1. ids \subseteq SCVerts
    BY <1>2 DEF SCType
  <2>2. \A v \in SCVerts : taken'.identifiers[v] = IF v \in ids THEN 1 ELSE 0
    BY <1>3
  <2> HIDE DEF ids
  <2> QED BY <1>1, <1>3, <2>1, <2>2
<1>5. Low[low] \in Nat
  <2>1. PICK v \in filed : key[v] = low
    BY <1>1
  <2>2. v \in SCVerts /\ Deg[v] \in Nat /\ Deg[v] <= Cardinality(Lists(v))
    BY <1>2 DEF SCType
  <2>3. low = SC!get_bucket_clamped(Deg[v]) /\ low # UintMax
    BY <1>2, <2>1 DEF SCSets
  <2>4. Deg[v] # 0
    BY <2>3 DEF SC!get_bucket_clamped
  <2>5. low = Bucket[Deg[v]] /\ Low[Bucket[Deg[v]]] \in Nat
    BY <1>2, <2>2, <2>3, <2>4, KeysHaveLows
  <2> QED BY <2>5
<1>6. /\ SC!Covered' = SC!Covered
      /\ \A u : Lists(u)' = Lists(u) /\ SC!Elements(u)' = SC!Elements(u)
      /\ \A d : SC!get_bucket_clamped(d)' = SC!get_bucket_clamped(d)
  BY <1>1 DEF SC!Covered, Lists, SC!Elements, SC!get_bucket_clamped
<1>7. SC!OutOf(Frontier)' = todo'
  BY <1>1 DEF SC!OutOf
<1> HIDE DEF ids
<1> DEFINE left(u) == {e \in GA' : e[1] = u}
<1>8. GA' \subseteq GA /\ GA \subseteq input
  BY <1>1, <1>2 DEF SCType
<1>9. ASSUME NEW u \in active'
      PROVE  /\ u \in SCVerts /\ Deg'[u] = Cardinality(left(u)) /\ Deg'[u] \in Nat
             /\ Deg'[u] <= Cardinality(Lists(u))
             /\ Cardinality(SC!Elements(u) \ SC!Covered) <= Deg'[u]
  <2>1. u \in SCVerts /\ Deg'[u] = Cardinality(left(u))
    BY <1>1, <1>2, <1>4, SCFacts
  <2>2. left(u) \subseteq Lists(u)
    BY <1>8 DEF Lists
  <2>3. IsFiniteSet(Lists(u))
    BY <1>2, ListCounts
  <2>4. Cardinality(left(u)) <= Cardinality(Lists(u))
    BY <2>2, <2>3, FS_Subset
  <2>5. \A v \in SC!Elements(u) \ SC!Covered : <<u, v>> \in left(u)
    <3> TAKE v \in SC!Elements(u) \ SC!Covered
    <3>1. <<u, v>>[1] = u /\ <<u, v>>[2] = v
      OBVIOUS
    <3>2. <<u, v>> \in input /\ v \in SCVerts /\ Elms[v] # COVERED
      BY <1>2, SCFacts DEF SC!Covered
    <3>3. <<u, v>> \in GA
      BY <1>2, <3>1, <3>2 DEF SCSets
    <3> QED BY <1>1, <3>1, <3>2, <3>3
  <2> HIDE DEF left
  <2> QED BY <1>2, <2>1, <2>2, <2>4, <2>5, ListCounts
<1>10. \A u \in SCVerts : u \notin active' => Deg'[u] = Deg[u]
  BY <1>1
<1>11. SCType'
  <2>1. Deg' \in [SCVerts -> Nat] /\ \A u \in SCVerts : Deg'[u] <= Cardinality(Lists(u))
    <3>1. \A u \in SCVerts : Deg'[u] \in Nat /\ Deg'[u] <= Cardinality(Lists(u))
      BY <1>2, <1>9, <1>10 DEF SCType
    <3> QED BY <1>1, <3>1
  <2> QED BY <1>1, <1>2, <1>3, <1>4, <1>6, <1>7, <1>8, <2>1 DEF SCType
<1>12. SCSets'
  <2>1. \A e \in input : e \in GA' \/ Elms[e[2]] = COVERED
    BY <1>1, <1>2 DEF SCSets
  <2>2. \A u \in SCVerts \ cover : SC!Elements(u) \subseteq SC!Covered \/ Waits(u)'
    BY <1>1, <1>2, <1>3, <1>4 DEF SCSets, Waits, ids
  <2>3. \A u \in SCVerts : Cardinality(SC!Elements(u) \ SC!Covered) <= Deg'[u]
    BY <1>2, <1>9, <1>10 DEF SCSets
  <2>4. \A u \in filed' : key'[u] = SC!get_bucket_clamped(Deg'[u]) /\ key'[u] # UintMax
    BY <1>2, <1>3, <1>4, <1>10 DEF SCSets, SCType
  <2>5. /\ cover' \cap filed' = {} /\ SC!Covered \subseteq UNION {SC!Elements(u) : u \in cover}
        /\ \A e \in input : \/ Elms[e[2]] = COVERED \/ Elms[e[2]] \in cover
                            \/ \E w \in SCVerts \ cover : <<w, e[2]>> \in input
    BY <1>1, <1>2, <1>3 DEF SCSets
  <2>6. \A u \in filed' : key'[u] = SC!get_bucket_clamped(Deg[u])' /\ key'[u] # UintMax
    BY <2>4 DEF SC!get_bucket_clamped
  <2>7. /\ Elms' = Elms /\ cover' = cover /\ input' = input
    BY <1>1
  <2> QED BY <1>6, <2>1, <2>2, <2>3, <2>5, <2>6, <2>7 DEF SCSets
<1>13. Visiting'
  <2>1. active' \cap cover' = {} /\ active' \cap filed' = {} /\ Low[taken'.id] \in Nat
    BY <1>1, <1>2, <1>3, <1>4, <1>5 DEF SCSets, ids
  <2>2. \A e \in todo' : Elms[e[2]] # COVERED
    BY <1>1
  <2>3. \A v \in SCVerts : Elms[v] \notin SCVerts
    BY <1>1, <1>2, SCFacts DEF Idle
  <2> QED BY <1>1, <1>7, <2>1, <2>2, <2>3 DEF Visiting
<1> QED BY <1>1, <1>11, <1>12, <1>13 DEF SCInv, Idle

LEMMA NullBucketKeepsSCInv ==
  ASSUME SC!InputsOK, SCInv, SC!NullBucket
  PROVE  SCInv'
<1>1. /\ stage = "loop" /\ stage' = "done" /\ GA' = GA /\ Frontier' = Frontier /\ input' = input
      /\ Elms' = Elms /\ Deg' = Deg /\ key' = key /\ cover' = cover /\ active' = active
      /\ todo' = todo /\ regs' = regs /\ filed = {} /\ filed' = filed
  BY DEF SC!NullBucket, SC!b!TakeNothing, SC!callVars
<1>2. SCType /\ SCSets /\ Idle
  BY DEF SCInv
<1>3. /\ SC!OutOf(Frontier)' = SC!OutOf(Frontier) /\ SC!Covered' = SC!Covered
      /\ \A u : Lists(u)' = Lists(u) /\ SC!Elements(u)' = SC!Elements(u) /\ (Waits(u)' <=> Waits(u))
      /\ \A d : SC!get_bucket_clamped(d)' = SC!get_bucket_clamped(d)
  BY <1>1 DEF SC!OutOf, SC!Covered, Lists, SC!Elements, SC!get_bucket_clamped, Waits
<1>4. SCType'
  BY <1>1, <1>2, <1>3 DEF SCType
<1>5. SCSets'
  BY <1>1, <1>2, <1>3 DEF SCSets
<1> QED BY <1>1, <1>2, <1>4, <1>5 DEF SCInv, Idle

LEMMA SCInvKept == SC!InputsOK /\ SCInv /\ [SC!Next]_(SC!vars) => SCInv'
<1> SUFFICES ASSUME SC!InputsOK, SCInv, [SC!Next]_(SC!vars) PROVE SCInv'
  OBVIOUS
<1>1. ASSUME NEW e \in todo, SC!TestElm(e) \/ SC!TestOwner(e) PROVE SCInv'
  BY <1>1, TestKeepsSCInv
<1>2. ASSUME NEW e \in DOMAIN regs, SC!Acquire(e) \/ SC!Settle(e) PROVE SCInv'
  BY <1>2, AcquireKeepsSCInv, SettleKeepsSCInv
<1>3. CASE UNCHANGED SC!vars
  <2>1. /\ GA' = GA /\ stage' = stage /\ Frontier' = Frontier /\ todo' = todo /\ regs' = regs
        /\ Elms' = Elms /\ Deg' = Deg /\ key' = key /\ filed' = filed /\ taken' = taken /\ cover' = cover
        /\ active' = active /\ input' = input
    BY <1>3 DEF SC!vars, SC!mainVars, SC!callVars, SC!scVars
  <2>2. SC!OutOf(Frontier)' = SC!OutOf(Frontier) /\ \A u : Lists(u)' = Lists(u)
    BY <2>1 DEF SC!OutOf, Lists
  <2>3. SCType'
    BY <2>1, <2>2 DEF SCInv, SCType
  <2>4. SCSets'
    BY <2>1, SCSetsKept DEF SCInv
  <2>5. SC!CoverPays' <=> SC!CoverPays
    BY <2>1 DEF SC!CoverPays
  <2>6. (stage = "visit" => Visiting') /\ (stage = "reset" => Resetting')
    BY <2>1, <2>2, <2>5 DEF SCInv, Visiting, Resetting
  <2> QED BY <2>1, <2>3, <2>4, <2>6 DEF SCInv, Idle
<1> QED BY <1>1, <1>2, <1>3, NextBucketKeepsSCInv, NullBucketKeepsSCInv, JoinKeepsSCInv,
           RebucketKeepsSCInv DEF SC!Next

\* SetCover, for every family of sets and any tables of thresholds: at the end every element
\* of a set is covered, also those of sets that joined with fewer than they contain; between
\* rounds a set that could still add something waits in a bucket.
THEOREM CoverAlwaysCovers == ASSUME SC!InputsOK PROVE SC!Spec => []SC!CoverCovers
<1>1. SC!InputsOK /\ SCInv => SC!CoverCovers
  <2> SUFFICES ASSUME SC!InputsOK, SCInv PROVE SC!CoverCovers
    OBVIOUS
  <2>1. SCType /\ SCSets /\ Idle /\ input \in SCGraphs
    BY DEF SCInv, SCType
  <2>2. ASSUME stage = "loop", NEW u \in SCVerts \ cover
        PROVE  SC!Elements(u) \subseteq SC!Covered \/
                 /\ u \in filed /\ key[u] = Bucket[Deg[u]]
                 /\ Cardinality(SC!Elements(u) \ SC!Covered) <= Deg[u]
    <3>1. SC!Elements(u) \subseteq SC!Covered \/ u \in filed
      BY <2>1, <2>2 DEF SCSets, Waits
    <3>2. u \in filed => key[u] = Bucket[Deg[u]]
      BY <2>1 DEF SCSets, SC!get_bucket_clamped
    <3> QED BY <2>1, <3>1, <3>2 DEF SCSets
  <2>3. ASSUME stage = "done", NEW u \in SCVerts PROVE SC!Elements(u) \subseteq SC!Covered
    <3>1. \A w \in SCVerts \ cover : SC!Elements(w) \subseteq SC!Covered
      BY <2>1, <2>3 DEF SCSets, Waits, Idle
    <3> SUFFICES ASSUME NEW v \in SC!Elements(u), v \notin SC!Covered PROVE FALSE
      OBVIOUS
    <3>2. <<u, v>> \in input /\ <<u, v>>[2] = v /\ v \in SCVerts
      BY <2>1, SCFacts
    <3>3. Elms[v] # COVERED /\ Elms[v] \notin cover
      BY <2>1, <2>3, <3>2, SCFacts DEF SC!Covered, Idle, SCType
    <3>4. PICK w \in SCVerts \ cover : <<w, v>> \in input
      BY <2>1, <3>2, <3>3 DEF SCSets
    <3>5. v \in SC!Elements(w)
      BY <2>1, <3>4, SCFacts
    <3> QED BY <3>1, <3>4, <3>5
  <2>4. stage = "loop" => \A v \in SCVerts : Elms[v] \in {COVERED, UintMax}
    BY <2>1 DEF Idle
  <2>5. /\ SC!Covered \subseteq UNION {SC!Elements(u) : u \in cover}
        /\ \A u \in cover : u \notin filed
    BY <2>1 DEF SCSets
  <2> QED BY <2>1, <2>2, <2>3, <2>4, <2>5, SCFacts DEF SC!CoverCovers, SC!Done
<1>2. SC!InputsOK /\ SC!Init => SCInv
  BY InitSCInv
<1> QED BY <1>1, <1>2, SCInvKept, PTL DEF SC!Spec

\* In each round the sets that join the cover together cover as many new elements as Low
\* asks of each: they compete by writeMin, and no element is counted for two of them.
THEOREM CoverAlwaysPays == ASSUME SC!InputsOK PROVE SC!Spec => []SC!CoverPays
<1>1. SCInv => SC!CoverPays
  BY DEF SCInv, Resetting, SC!CoverPays
<1>2. SC!InputsOK /\ SC!Init => SCInv
  BY InitSCInv
<1> QED BY <1>1, <1>2, SCInvKept, PTL DEF SC!Spec

-----------------------------------------------------------------------------
(* The set of HyperMIS holds no hyperedge wholly, and a vertex put out has *)
(* a reason to be, for every hypergraph and every sequence of samples.     *)
(*                                                                         *)
(* The list of a watched hyperedge loses only vertices that no later round *)
(* can change (Decided): so a count that falls short of the list's length  *)
(* has found a vertex of the hyperedge that the sample left out or that is *)
(* out, and a full one is followed by a reset of every vertex in the list. *)
(* A hyperedge that is no longer watched has a vertex that was put out.    *)

\* What this round cannot change.
Final(v) == flags[v] # 0 /\ (stage # "loop" => flags[v] # turn)
ListOf(h) == {e \in GA : e[1] = h}

HMType == /\ stage \in {"loop", "count", "reset"}
          /\ turn \in Nat /\ turn >= 1 /\ (stage # "loop" => turn >= 2)
          /\ flags \in [HMVerts -> Nat] /\ \A v \in HMVerts : flags[v] <= turn
          /\ IsFiniteSet(GA)
          /\ GA \subseteq (HMVerts \X HMHyperedges) \cup (HMHyperedges \X HMVerts)
          /\ \A e \in GA : e[1] \in HMHyperedges => <<e[2], e[1]>> \in GA
          /\ FrontierH \subseteq HMHyperedges /\ Degrees \in [HMHyperedges -> Nat]
          /\ Frontier = {v \in HMVerts : ~Final(v)}
          /\ todo \subseteq {e \in GA : e[1] \in FrontierH}
          /\ DOMAIN regs \subseteq {e \in GA : e[1] \in FrontierH}
          /\ todo \cap DOMAIN regs = {}

Watched(h) == /\ \A v \in HMVerts : <<h, v>> \in GA => ~Final(v) \/ flags[v] = 1
              /\ \A v \in HM!Members(h) : <<h, v>> \in GA \/ Final(v)
              /\ \E v \in HMVerts : <<h, v>> \in GA
Justified(v) == \E h \in HMHyperedges : v \in HM!Members(h) /\ \A u \in HM!Members(h) \ {v} : Final(u)
HMSets == /\ \A h \in FrontierH : Watched(h)
          /\ \A h \in HMHyperedges \ FrontierH : \E v \in HM!Members(h) : flags[v] = 1
          /\ \A v \in HMVerts : flags[v] = 1 => Justified(v)

InSample(h) == {e \in ListOf(h) : e \notin todo /\ e \notin DOMAIN regs /\ flags[e[2]] = turn}
InCount == /\ \A e \in DOMAIN regs : flags[e[2]] = turn
           /\ \A h \in FrontierH : Degrees[h] = Cardinality(InSample(h))
InReset == \A h \in FrontierH : \/ \E e \in ListOf(h) : flags[e[2]] # turn
                                \/ ListOf(h) \subseteq todo \cup DOMAIN regs

HMInv == HMType /\ HMSets /\ (stage = "count" => InCount) /\ (stage = "reset" => InReset)

\* The two kinds of edges, and the vertices of a hyperedge, which stay.
LEMMA HMFacts ==
  ASSUME HM!InputsOK, HMType
  PROVE  /\ \A e \in GA : \/ e[1] \in HMVerts /\ e[2] \in HMHyperedges /\ e = <<e[1], e[2]>> /\ e[1] \notin HMHyperedges
                          \/ e[1] \in HMHyperedges /\ e[2] \in HMVerts /\ e = <<e[1], e[2]>> /\ e[1] \notin HMVerts
         /\ \A h \in HMHyperedges, v \in HMVerts : <<h, v>> \in GA => v \in HM!Members(h)
         /\ \A h \in HMHyperedges : \A e \in ListOf(h) : e[2] \in HMVerts /\ e = <<h, e[2]>> /\ e \in GA
         /\ \A h \in HMHyperedges, v \in HMVerts : <<h, v>> \in GA => <<h, v>> \in ListOf(h)
         /\ \A v \in HMVerts : flags[v] \in Nat /\ flags[v] <= turn
<1>1. HMVerts \cap HMHyperedges = {}
  BY DEF HM!InputsOK
<1>2. ASSUME NEW e \in GA
      PROVE  \/ e[1] \in HMVerts /\ e[2] \in HMHyperedges /\ e = <<e[1], e[2]>> /\ e[1] \notin HMHyperedges
             \/ e[1] \in HMHyperedges /\ e[2] \in HMVerts /\ e = <<e[1], e[2]>> /\ e[1] \notin HMVerts
  BY <1>1 DEF HMType
<1>3. ASSUME NEW h \in HMHyperedges, NEW v \in HMVerts, <<h, v>> \in GA
      PROVE  v \in HM!Members(h) /\ <<h, v>> \in ListOf(h)
  <2>1. <<h, v>>[1] = h /\ <<h, v>>[2] = v
    OBVIOUS
  <2>2. <<v, h>> \in GA
    BY <1>3, <2>1 DEF HMType
  <2> QED BY <1>3, <2>1, <2>2 DEF HM!Members, ListOf
<1>4. ASSUME NEW h \in HMHyperedges, NEW e \in ListOf(h) PROVE e[2] \in HMVerts /\ e = <<h, e[2]>> /\ e \in GA
  BY <1>2 DEF ListOf
<1> QED BY <1>2, <1>3, <1>4 DEF HMType

LEMMA InitHMInv == ASSUME HM!InputsOK, HM!Init PROVE HMInv
<1>1. /\ GA \in HMGraphs /\ stage = "loop" /\ Frontier = HMVerts /\ FrontierH = HMHyperedges /\ turn = 1
      /\ todo = {} /\ DOMAIN regs = {}
      /\ flags = [v \in HMVerts |-> 0] /\ Degrees = [h \in HMHyperedges |-> 0]
  BY DEF HM!Init, HM!NoCall
<1>2. /\ IsFiniteSet(GA) /\ GA \subseteq (HMVerts \X HMHyperedges) \cup (HMHyperedges \X HMVerts)
      /\ \A e \in GA : <<e[2], e[1]>> \in GA
      /\ \A h \in HMHyperedges : \E v \in HMVerts : <<h, v>> \in GA
  BY <1>1 DEF HM!InputsOK, HM!IsFiniteSet, IsFiniteSet
<1>3. \A v \in HMVerts : flags[v] = 0 /\ ~Final(v)
  BY <1>1 DEF Final
<1>4. HMType
  BY <1>1, <1>2, <1>3 DEF HMType
<1>5. HMSets
  <2>1. ASSUME NEW h \in HMHyperedges PROVE Watched(h)
    <3>1. \A v \in HM!Members(h) : <<h, v>> \in GA
      <4> SUFFICES ASSUME NEW v \in HMVerts, <<v, h>> \in GA PROVE <<h, v>> \in GA
        BY DEF HM!Members
      <4>1. << <<v, h>>[2], <<v, h>>[1] >> \in GA
        BY <1>2
      <4> QED BY <4>1
    <3> QED BY <1>2, <1>3, <3>1 DEF Watched
  <2> QED BY <1>1, <1>3, <2>1 DEF HMSets
<1> QED BY <1>1, <1>4, <1>5 DEF HMInv

\* A step that changes no list and decides nothing keeps what is known between rounds.
LEMMA HMSetsKept ==
  ASSUME HMSets, HMType, GA' = GA, FrontierH' = FrontierH,
         \A v \in HMVerts : (Final(v)' <=> Final(v)) /\ (flags'[v] = 1 <=> flags[v] = 1)
  PROVE  HMSets'
<1>1. \A h : HM!Members(h)' = HM!Members(h) /\ HM!Members(h) \subseteq HMVerts
  BY DEF HM!Members
<1> QED BY <1>1 DEF HMSets, Watched, Justified, HMType

LEMMA SampleKeepsHMInv ==
  ASSUME HM!InputsOK, HMInv, HM!Sample
  PROVE  HMInv'
<1>1. /\ stage = "loop" /\ stage' = "count" /\ turn' = turn + 1
      /\ GA' = GA /\ Frontier' = Frontier /\ FrontierH' = FrontierH
      /\ todo' = {e \in GA : e[1] \in FrontierH} /\ regs' = <<>>
      /\ Degrees' = [h \in HMHyperedges |-> IF h \in FrontierH THEN 0 ELSE Degrees[h]]
  BY DEF HM!Sample, HM!Begin, HM!OutOf
<1>2. DOMAIN regs' = {}
  BY <1>1
<1>3. PICK S \in SUBSET Frontier : flags' = [v \in HMVerts |-> IF v \in S THEN turn + 1 ELSE flags[v]]
  BY <1>1 DEF HM!Sample
<1>4. /\ HMType /\ HMSets /\ turn \in Nat /\ turn >= 1
      /\ \A v \in HMVerts : flags[v] \in Nat /\ flags[v] <= turn
      /\ \A v \in HMVerts : v \in Frontier <=> flags[v] = 0
  BY <1>1 DEF HMInv, HMType, Final
<1>5. ASSUME NEW v \in HMVerts
      PROVE  /\ Final(v)' <=> Final(v)
             /\ flags'[v] = 1 <=> flags[v] = 1
             /\ flags'[v] \in Nat /\ flags'[v] <= turn'
  BY <1>1, <1>3, <1>4 DEF Final
<1>6. HMType'
  <2>1. flags' \in [HMVerts -> Nat]
    BY <1>3, <1>5
  <2>2. Frontier' = {v \in HMVerts : ~Final(v)'}
    BY <1>1, <1>4, <1>5 DEF HMType
  <2>3. Degrees' \in [HMHyperedges -> Nat]
    BY <1>1, <1>4 DEF HMType
  <2> QED BY <1>1, <1>2, <1>4, <1>5, <2>1, <2>2, <2>3 DEF HMType
<1>7. HMSets'
  BY <1>1, <1>4, <1>5, HMSetsKept
<1>8. InCount'
  <2>1. ASSUME NEW h \in FrontierH PROVE Degrees'[h] = Cardinality(InSample(h)')
    <3>1. InSample(h)' = {}
      BY <1>1 DEF InSample, ListOf
    <3>2. Degrees'[h] = 0
      BY <1>1, <1>4 DEF HMType
    <3> QED BY <3>1, <3>2, FS_EmptySet
  <2> QED BY <1>1, <1>2, <2>1 DEF InCount
<1> QED BY <1>1, <1>6, <1>7, <1>8 DEF HMInv

LEMMA TestKeepsHMInv ==
  ASSUME HM!InputsOK, HMInv, NEW e \in todo, HM!Test(e)
  PROVE  HMInv'
<1>1. /\ GA' = GA /\ stage' = stage /\ Frontier' = Frontier
      /\ turn' = turn /\ flags' = flags /\ Degrees' = Degrees /\ FrontierH' = FrontierH
      /\ todo' = todo \ {e}
  BY DEF HM!Test, HM!Enter, HM!Pass, HM!mainVars, HM!misVars
<1>2. IF flags[e[2]] = turn THEN DOMAIN regs' = DOMAIN regs \cup {e} ELSE DOMAIN regs' = DOMAIN regs
  BY DEF HM!Test, HM!Enter, HM!Pass
<1>3. HMType /\ HMSets
  BY DEF HMInv
<1>4. \A v \in HMVerts : Final(v)' <=> Final(v)
  BY <1>1 DEF Final
<1>5. HMType'
  <2>1. Frontier' = {v \in HMVerts : ~Final(v)'}
    BY <1>1, <1>3, <1>4 DEF HMType
  <2> QED BY <1>1, <1>2, <1>3, <2>1 DEF HMType
<1>6. HMSets'
  BY <1>1, <1>3, <1>4, HMSetsKept
<1>7. ASSUME stage = "count" PROVE InCount'
  <2>1. \A h : InSample(h)' = InSample(h)
    BY <1>1, <1>2 DEF InSample, ListOf
  <2> QED BY <1>1, <1>2, <1>7, <2>1 DEF HMInv, InCount
<1>8. ASSUME stage = "reset" PROVE InReset'
  <2> SUFFICES ASSUME NEW h \in FrontierH
               PROVE  \/ \E x \in ListOf(h) : flags[x[2]] # turn
                      \/ ListOf(h) \subseteq todo' \cup DOMAIN regs'
    BY <1>1 DEF InReset, ListOf
  <2>1. \/ \E x \in ListOf(h) : flags[x[2]] # turn
        \/ ListOf(h) \subseteq todo \cup DOMAIN regs
    BY <1>8 DEF HMInv, InReset
  <2> QED BY <1>1, <1>2, <2>1
<1> QED BY <1>1, <1>5, <1>6, <1>7, <1>8 DEF HMInv

LEMMA CountKeepsHMInv ==
  ASSUME HM!InputsOK, HMInv, NEW e \in DOMAIN regs, HM!CountNeighbor(e)
  PROVE  HMInv'
<1>1. /\ GA' = GA /\ stage' = stage /\ Frontier' = Frontier
      /\ turn' = turn /\ flags' = flags /\ FrontierH' = FrontierH
      /\ todo' = todo /\ DOMAIN regs' = DOMAIN regs \ {e} /\ stage = "count"
      /\ Degrees' = [Degrees EXCEPT ![e[1]] = @ + 1]
  BY DEF HM!CountNeighbor, HM!Answer, HM!mainVars
<1>2. /\ HMType /\ HMSets /\ InCount
      /\ e \in GA /\ e[1] \in FrontierH /\ e[1] \in HMHyperedges /\ e \notin todo
  BY <1>1 DEF HMInv, HMType
<1>3. \A v \in HMVerts : Final(v)' <=> Final(v)
  BY <1>1 DEF Final
<1>4. HMType'
  <2>1. Frontier' = {v \in HMVerts : ~Final(v)'}
    BY <1>1, <1>2, <1>3 DEF HMType
  <2>2. Degrees' \in [HMHyperedges -> Nat]
    BY <1>1, <1>2 DEF HMType
  <2> QED BY <1>1, <1>2, <2>1, <2>2 DEF HMType
<1>5. HMSets'
  BY <1>1, <1>2, <1>3, HMSetsKept
<1>6. InCount'
  <2>1. ASSUME NEW h \in FrontierH PROVE Degrees'[h] = Cardinality(InSample(h)')
    <3>1. Degrees[h] = Cardinality(InSample(h)) /\ h \in HMHyperedges
      BY <1>2 DEF InCount, HMType
    <3>2. CASE h = e[1]
      <4>1. InSample(h)' = InSample(h) \cup {e} /\ e \notin InSample(h)
        BY <1>1, <1>2, <3>2 DEF InSample, ListOf, InCount
      <4>2. IsFiniteSet(InSample(h))
        <5>1. InSample(h) \subseteq GA /\ IsFiniteSet(GA)
          BY <1>2 DEF InSample, ListOf, HMType
        <5> QED BY <5>1, FS_Subset
      <4>3. Cardinality(InSample(h) \cup {e}) = Cardinality(InSample(h)) + 1
        BY <4>1, <4>2, FS_AddElement
      <4>4. Degrees'[h] = Degrees[h] + 1
        BY <1>1, <1>2, <3>1, <3>2 DEF HMType
      <4> QED BY <3>1, <4>1, <4>3, <4>4
    <3>3. CASE h # e[1]
      <4>1. InSample(h)' = InSample(h)
        BY <1>1, <3>3 DEF InSample, ListOf
      <4>2. Degrees'[h] = Degrees[h]
        BY <1>1, <1>2, <3>1, <3>3 DEF HMType
      <4> QED BY <3>1, <4>1, <4>2
    <3> QED BY <3>2, <3>3
  <2> QED BY <1>1, <1>2, <2>1 DEF InCount
<1> QED BY <1>1, <1>4, <1>5, <1>6 DEF HMInv

LEMMA CheckKeepsHMInv ==
  ASSUME HM!InputsOK, HMInv, HM!CheckIndependence
  PROVE  HMInv'
<1>1. /\ stage = "count" /\ stage' = "reset" /\ todo = {} /\ DOMAIN regs = {}
      /\ GA' = GA /\ Frontier' = Frontier /\ turn' = turn /\ flags' = flags /\ FrontierH' = FrontierH
      /\ Degrees' = Degrees
      /\ todo' = {e \in GA : e[1] \in {h \in FrontierH : Degrees[h] = HM!OutDegree(h)}} /\ DOMAIN regs' = {}
  BY DEF HM!CheckIndependence, HM!Returned, HM!Begin, HM!OutOf, HM!misVars
<1>2. HMType /\ HMSets /\ InCount
  BY <1>1 DEF HMInv
<1>3. \A v \in HMVerts : Final(v)' <=> Final(v)
  BY <1>1 DEF Final
<1>4. HMType'
  <2>1. Frontier' = {v \in HMVerts : ~Final(v)'}
    BY <1>1, <1>2, <1>3 DEF HMType
  <2>2. todo' \subseteq {e \in GA : e[1] \in FrontierH}
    BY <1>1
  <2> QED BY <1>1, <1>2, <2>1, <2>2 DEF HMType
<1>5. HMSets'
  BY <1>1, <1>2, <1>3, HMSetsKept
<1>6. InReset'
  <2> SUFFICES ASSUME NEW h \in FrontierH, \A x \in ListOf(h) : flags[x[2]] = turn
               PROVE  ListOf(h) \subseteq todo'
    BY <1>1 DEF InReset, ListOf
  <2>1. InSample(h) = ListOf(h)
    BY <1>1 DEF InSample, ListOf
  <2>2. HM!OutDegree(h) = Cardinality(ListOf(h))
    <3>1. HM!OutOf({h}) = ListOf(h)
      BY DEF HM!OutOf, ListOf
    <3> QED BY <3>1 DEF HM!OutDegree, HM!Cardinality, Cardinality
  <2>3. Degrees[h] = HM!OutDegree(h)
    BY <1>2, <2>1, <2>2 DEF InCount
  <2> QED BY <1>1, <2>3 DEF ListOf
<1> QED BY <1>1, <1>4, <1>5, <1>6 DEF HMInv

LEMMA ResetKeepsHMInv ==
  ASSUME HM!InputsOK, HMInv, NEW e \in DOMAIN regs, HM!ResetNeighbor(e)
  PROVE  HMInv'
<1>1. /\ GA' = GA /\ stage' = stage /\ Frontier' = Frontier
      /\ turn' = turn /\ Degrees' = Degrees /\ FrontierH' = FrontierH
      /\ todo' = todo /\ DOMAIN regs' = DOMAIN regs \ {e} /\ stage = "reset"
      /\ flags' = IF flags[e[2]] = turn THEN [flags EXCEPT ![e[2]] = 0] ELSE flags
  BY DEF HM!ResetNeighbor, HM!Answer, HM!mainVars
<1>2. /\ HMType /\ HMSets /\ InReset /\ turn >= 2 /\ turn \in Nat
      /\ e \in GA /\ e[1] \in HMHyperedges /\ flags \in [HMVerts -> Nat]
  BY <1>1 DEF HMInv, HMType
<1>3. e[2] \in HMVerts
  BY <1>2, HMFacts
<1>4. \A v \in HMVerts : flags'[v] = IF v = e[2] /\ flags[v] = turn THEN 0 ELSE flags[v]
  BY <1>1, <1>2, <1>3
<1>5. ASSUME NEW v \in HMVerts
      PROVE  /\ Final(v)' <=> Final(v)
             /\ flags'[v] = 1 <=> flags[v] = 1
             /\ flags'[v] \in Nat /\ flags'[v] <= turn'
  BY <1>1, <1>2, <1>4 DEF Final, HMType
<1>6. HMType'
  <2>1. Frontier' = {v \in HMVerts : ~Final(v)'}
    BY <1>1, <1>2, <1>5 DEF HMType
  <2>2. flags' \in [HMVerts -> Nat]
    BY <1>1, <1>2, <1>5
  <2> QED BY <1>1, <1>2, <1>5, <2>1, <2>2 DEF HMType
<1>7. HMSets'
  BY <1>1, <1>2, <1>5, HMSetsKept
<1>8. InReset'
  <2> SUFFICES ASSUME NEW h \in FrontierH
               PROVE  \/ \E x \in ListOf(h) : flags'[x[2]] # turn
                      \/ ListOf(h) \subseteq todo' \cup DOMAIN regs'
    BY <1>1 DEF InReset, ListOf
  <2>1. \A x \in ListOf(h) : x[2] \in HMVerts
    BY <1>2, HMFacts DEF HMType
  <2>2. CASE \E x \in ListOf(h) : flags[x[2]] # turn
    BY <1>2, <1>4, <2>1, <2>2
  <2>3. CASE ListOf(h) \subseteq todo \cup DOMAIN regs /\ e \notin ListOf(h)
    BY <1>1, <2>3
  <2>4. CASE e \in ListOf(h)
    <3>1. flags'[e[2]] # turn
      BY <1>2, <1>3, <1>4
    <3> QED BY <2>4, <3>1
  <2> QED BY <1>2, <2>2, <2>3, <2>4 DEF InReset
<1> QED BY <1>1, <1>6, <1>7, <1>8 DEF HMInv

\* The list of h after a round is packed, and the vertices that were the last of one.
Rest(h) == {e \in ListOf(h) : flags[e[2]] = 0}
Last == {v \in HMVerts : \E h \in FrontierH : {e[2] : e \in Rest(h)} = {v}}

LEMMA EndRoundIs ==
  ASSUME HM!InputsOK, HMInv, HM!EndRound
  PROVE  /\ stage = "reset" /\ stage' = "loop" /\ turn' = turn /\ Degrees' = Degrees
         /\ todo = {} /\ DOMAIN regs = {} /\ todo' = {} /\ DOMAIN regs' = {}
         /\ GA' = {e \in GA : e[1] \in FrontierH => flags[e[2]] = 0}
         /\ FrontierH' = {h \in FrontierH : Cardinality(Rest(h)) > 1}
         /\ Frontier' = {v \in Frontier : flags'[v] = 0}
         /\ flags' = [v \in HMVerts |-> IF v \in Last /\ flags[v] = 0 THEN 1 ELSE flags[v]]
<1> DEFINE kept == {e \in GA : e[1] \in FrontierH => flags[e[2]] = 0}
           rest(h) == {e \in kept : e[1] = h}
           last == {v \in HMVerts : \E h \in FrontierH : {e[2] : e \in rest(h)} = {v}}
<1>1. /\ stage = "reset" /\ stage' = "loop" /\ turn' = turn /\ Degrees' = Degrees
      /\ todo = {} /\ DOMAIN regs = {} /\ todo' = {} /\ DOMAIN regs' = {}
      /\ GA' = kept /\ Frontier' = {v \in Frontier : flags'[v] = 0}
      /\ flags' = [v \in HMVerts |-> IF v \in last /\ flags[v] = 0 THEN 1 ELSE flags[v]]
      /\ FrontierH' = {h \in FrontierH : HM!Cardinality(rest(h)) > 1}
  BY DEF HM!EndRound, HM!Returned, HM!callVars
<1>2. \A h \in FrontierH : rest(h) = Rest(h)
  BY DEF Rest, ListOf
<1>3. last = Last
  BY <1>2 DEF Last
<1>4. \A S : HM!Cardinality(S) = Cardinality(S)
  BY DEF HM!Cardinality, Cardinality
<1> HIDE DEF rest, last
<1>5. FrontierH' = {h \in FrontierH : Cardinality(Rest(h)) > 1}
  BY <1>1, <1>2, <1>4
<1> QED BY <1>1, <1>3, <1>5

LEMMA EndRoundKeepsHMInv ==
  ASSUME HM!InputsOK, HMInv, HM!EndRound
  PROVE  HMInv'
<1> USE EndRoundIs
<1>1. /\ HMType /\ HMSets /\ InReset /\ turn >= 2 /\ turn \in Nat /\ FrontierH \subseteq HMHyperedges
      /\ flags \in [HMVerts -> Nat] /\ GA' \subseteq GA /\ FrontierH' \subseteq FrontierH
  BY DEF HMInv, HMType
<1>2. ASSUME NEW v \in HMVerts
      PROVE  /\ flags'[v] = IF v \in Last /\ flags[v] = 0 THEN 1 ELSE flags[v]
             /\ Final(v)' <=> flags'[v] # 0
             /\ flags[v] # 0 => Final(v)' /\ flags'[v] = flags[v]
             /\ Final(v) => flags[v] # 0 /\ Final(v)'
             /\ flags'[v] \in Nat /\ flags'[v] <= turn'
  BY <1>1 DEF Final, HMType
<1>3. \A h \in HMHyperedges : HM!Members(h)' = HM!Members(h) /\ HM!Members(h) \subseteq HMVerts
  <2>1. ASSUME NEW h \in HMHyperedges, NEW v \in HMVerts, <<v, h>> \in GA PROVE <<v, h>> \in GA'
    <3>1. <<v, h>>[1] \notin HMHyperedges
      BY <1>1, <2>1 DEF HM!InputsOK
    <3> QED BY <1>1, <2>1, <3>1
  <2> QED BY <1>1, <2>1 DEF HM!Members
<1>4. HMType'
  <2>1. flags' \in [HMVerts -> Nat]
    BY <1>2
  <2>2. Frontier' = {v \in HMVerts : ~Final(v)'}
    BY <1>1, <1>2 DEF HMType
  <2>3. IsFiniteSet(GA')
    BY <1>1, FS_Subset DEF HMType
  <2>4. \A e \in GA' : e[1] \in HMHyperedges => <<e[2], e[1]>> \in GA'
    <3> SUFFICES ASSUME NEW e \in GA', e[1] \in HMHyperedges PROVE <<e[2], e[1]>> \in GA'
      OBVIOUS
    <3>1. <<e[2], e[1]>> \in GA /\ e[2] \in HMVerts
      BY <1>1, HMFacts DEF HMType
    <3>2. <<e[2], e[1]>>[1] \notin HMHyperedges
      BY <1>1, <3>1 DEF HM!InputsOK
    <3> QED BY <1>1, <3>1, <3>2
  <2>5. GA' \subseteq (HMVerts \X HMHyperedges) \cup (HMHyperedges \X HMVerts) /\ FrontierH' \subseteq HMHyperedges
    BY <1>1 DEF HMType
  <2> QED BY <1>1, <1>2, <2>1, <2>2, <2>3, <2>4, <2>5 DEF HMType
\* What is left of a watched list, and what is not.
<1>5. ASSUME NEW h \in FrontierH
      PROVE  /\ h \in HMHyperedges /\ Watched(h)
             /\ \A v \in HMVerts : <<h, v>> \in GA' <=> <<h, v>> \in Rest(h)
             /\ \A e \in Rest(h) : e[2] \in HMVerts /\ e = <<h, e[2]>> /\ flags[e[2]] = 0 /\ e[2] \in HM!Members(h)
             /\ \A v \in HM!Members(h) : flags[v] = 0 => <<h, v>> \in Rest(h)
  <2>1. h \in HMHyperedges /\ Watched(h)
    BY <1>1 DEF HMSets
  <2>2. ASSUME NEW v \in HMVerts PROVE <<h, v>> \in GA' <=> <<h, v>> \in Rest(h)
    <3>1. <<h, v>>[1] = h /\ <<h, v>>[2] = v
      OBVIOUS
    <3> QED BY <3>1 DEF Rest, ListOf
  <2>3. \A e \in Rest(h) : e[2] \in HMVerts /\ e = <<h, e[2]>> /\ flags[e[2]] = 0 /\ e[2] \in HM!Members(h)
    BY <1>1, <2>1, HMFacts DEF Rest
  <2>4. ASSUME NEW v \in HM!Members(h), flags[v] = 0 PROVE <<h, v>> \in Rest(h)
    <3>1. v \in HMVerts /\ ~Final(v)
      BY <2>1, <2>4, <1>3 DEF Final
    <3>2. <<h, v>> \in GA /\ <<h, v>>[1] = h /\ <<h, v>>[2] = v
      BY <2>1, <2>4, <3>1 DEF Watched
    <3> QED BY <2>4, <3>2 DEF Rest, ListOf
  <2> QED BY <2>1, <2>2, <2>3, <2>4
<1>6. ASSUME NEW h \in FrontierH' PROVE Watched(h)'
  <2>1. h \in FrontierH /\ h \in HMHyperedges /\ Cardinality(Rest(h)) > 1
    BY <1>1
  <2>2. ASSUME NEW v \in HMVerts, <<h, v>> \in GA' PROVE ~Final(v)' \/ flags'[v] = 1
    <3>1. <<h, v>> \in Rest(h)
      BY <1>5, <2>1, <2>2
    <3>2. flags[v] = 0
      BY <3>1 DEF Rest
    <3> QED BY <1>2, <3>2
  <2>3. \A v \in HM!Members(h) : <<h, v>> \in GA' \/ Final(v)'
    BY <1>2, <1>3, <1>5, <2>1
  <2>4. \E v \in HMVerts : <<h, v>> \in GA'
    <3>1. Rest(h) # {}
      <4>1. Cardinality({}) = 0
        BY FS_EmptySet
      <4>2. ~(0 > 1)
        OBVIOUS
      <4> QED BY <2>1, <4>1, <4>2
    <3> QED BY <1>5, <2>1, <3>1
  <2> QED BY <1>3, <2>1, <2>2, <2>3, <2>4 DEF Watched
<1>7. ASSUME NEW h \in HMHyperedges, h \notin FrontierH' PROVE \E v \in HM!Members(h) : flags'[v] = 1
  <2>1. CASE h \notin FrontierH
    <3>1. PICK v \in HM!Members(h) : flags[v] = 1
      BY <1>1, <2>1 DEF HMSets
    <3> QED BY <1>2, <1>3, <3>1
  <2>2. CASE h \in FrontierH
    <3>1. IsFiniteSet(Rest(h)) /\ Cardinality(Rest(h)) \in Nat /\ Cardinality(Rest(h)) <= 1
      <4>1. Rest(h) \subseteq GA /\ IsFiniteSet(GA)
        BY <1>1 DEF Rest, ListOf, HMType
      <4>2. IsFiniteSet(Rest(h)) /\ Cardinality(Rest(h)) \in Nat
        BY <4>1, FS_Subset, FS_CardinalityType
      <4> QED BY <1>7, <2>2, <4>2
    <3>2. CASE Rest(h) = {}
      <4>1. PICK e \in ListOf(h) : flags[e[2]] # turn
        <5>1. ListOf(h) # {}
          <6>1. PICK v \in HMVerts : <<h, v>> \in GA
            BY <1>5, <2>2 DEF Watched
          <6> QED BY <6>1, <1>7, HMFacts, <1>1
        <5> QED BY <1>1, <2>2, <5>1 DEF InReset
      <4>2. e[2] \in HMVerts /\ e = <<h, e[2]>> /\ e \in GA /\ e[2] \in HM!Members(h) /\ flags[e[2]] # 0
        <5>1. e[2] \in HMVerts /\ e = <<h, e[2]>> /\ e \in GA
          BY <1>1, HMFacts
        <5>2. flags[e[2]] # 0
          BY <3>2, <4>1 DEF Rest
        <5> QED BY <1>1, <5>1, <5>2, HMFacts
      <4>3. flags[e[2]] = 1
        <5>1. Final(e[2])
          BY <4>1, <4>2 DEF Final
        <5>2. <<h, e[2]>> \in GA
          BY <4>2
        <5> QED BY <1>5, <2>2, <4>2, <5>1, <5>2 DEF Watched
      <4> QED BY <1>2, <4>2, <4>3
    <3>3. CASE Rest(h) # {}
      <4>1. PICK e \in Rest(h) : TRUE
        BY <3>3
      <4>2. Rest(h) = {e}
        <5>1. PICK x : Rest(h) = {x}
          <6>1. Cardinality(Rest(h)) # 0
            BY <3>1, <3>3, FS_EmptySet
          <6>2. Cardinality(Rest(h)) = 1
            BY <3>1, <6>1
          <6> QED BY <3>1, <6>2, FS_Singleton
        <5> QED BY <4>1, <5>1
      <4>3. e[2] \in Last /\ e[2] \in HM!Members(h) /\ flags[e[2]] = 0 /\ e[2] \in HMVerts
        BY <1>5, <2>2, <4>2 DEF Last
      <4> QED BY <1>2, <4>3
    <3> QED BY <3>2, <3>3
  <2> QED BY <2>1, <2>2
<1>8. ASSUME NEW v \in HMVerts, flags'[v] = 1 PROVE Justified(v)'
  <2> SUFFICES ASSUME TRUE
               PROVE  \E h \in HMHyperedges : v \in HM!Members(h) /\ \A u \in HM!Members(h) \ {v} : Final(u)'
    BY <1>3 DEF Justified
  <2>1. CASE flags[v] = 1
    <3>1. PICK h \in HMHyperedges : v \in HM!Members(h) /\ \A u \in HM!Members(h) \ {v} : Final(u)
      BY <1>1, <2>1 DEF HMSets, Justified
    <3> QED BY <1>2, <1>3, <3>1
  <2>2. CASE flags[v] # 1
    <3>1. v \in Last /\ flags[v] = 0
      BY <1>2, <1>8, <2>2
    <3>2. PICK h \in FrontierH : {e[2] : e \in Rest(h)} = {v}
      BY <3>1 DEF Last
    <3>3. h \in HMHyperedges /\ v \in HM!Members(h)
      BY <1>5, <3>2
    <3>4. ASSUME NEW u \in HM!Members(h), u # v PROVE Final(u)'
      <4>1. flags[u] # 0
        <5> SUFFICES ASSUME flags[u] = 0 PROVE FALSE
          OBVIOUS
        <5>1. <<h, u>> \in Rest(h) /\ <<h, u>>[2] = u
          BY <1>5
        <5> QED BY <3>2, <3>4, <5>1
      <4> QED BY <1>2, <1>3, <3>3, <4>1
    <3> QED BY <3>3, <3>4
  <2> QED BY <2>1, <2>2
<1>9. HMSets'
  <2>1. \A h \in HMHyperedges \ FrontierH' : \E v \in HM!Members(h)' : flags'[v] = 1
    BY <1>3, <1>7
  <2> QED BY <1>6, <1>8, <2>1 DEF HMSets
<1> QED BY <1>4, <1>9 DEF HMInv

LEMMA HMInvKept == HM!InputsOK /\ HMInv /\ [HM!Next]_(HM!vars) => HMInv'
<1> SUFFICES ASSUME HM!InputsOK, HMInv, [HM!Next]_(HM!vars) PROVE HMInv'
  OBVIOUS
<1>1. ASSUME NEW e \in todo, HM!Test(e) PROVE HMInv'
  BY <1>1, TestKeepsHMInv
<1>2. ASSUME NEW e \in DOMAIN regs, HM!CountNeighbor(e) \/ HM!ResetNeighbor(e) PROVE HMInv'
  BY <1>2, CountKeepsHMInv, ResetKeepsHMInv
<1>3. CASE UNCHANGED HM!vars
  <2>1. /\ GA' = GA /\ stage' = stage /\ Frontier' = Frontier /\ todo' = todo /\ regs' = regs
        /\ turn' = turn /\ flags' = flags /\ Degrees' = Degrees /\ FrontierH' = FrontierH
    BY <1>3 DEF HM!vars, HM!mainVars, HM!callVars, HM!misVars
  <2>2. \A v : (Final(v)' <=> Final(v)) /\ InSample(v)' = InSample(v) /\ ListOf(v)' = ListOf(v)
    BY <2>1 DEF Final, InSample, ListOf
  <2>3. HMType'
    BY <2>1, <2>2 DEF HMInv, HMType
  <2>4. HMSets'
    BY <2>1, <2>2, HMSetsKept DEF HMInv
  <2> QED BY <2>1, <2>2, <2>3, <2>4 DEF HMInv, InCount, InReset
<1> QED BY <1>1, <1>2, <1>3, SampleKeepsHMInv, CheckKeepsHMInv, EndRoundKeepsHMInv DEF HM!Next

\* Between two rounds no hyperedge is wholly inside the set, although the lists that are
\* counted have lost vertices; and a vertex was put out only where it might have completed
\* a hyperedge: for every hypergraph, and whatever the samples and the order of the calls.
THEOREM SetIsAlwaysIndependent == ASSUME HM!InputsOK PROVE HM!Spec => []HM!SetIsIndependent
<1>1. HM!InputsOK /\ HMInv => HM!SetIsIndependent
  <2> SUFFICES ASSUME HM!InputsOK, HMInv, stage = "loop" PROVE HM!SetIsIndependent
    BY DEF HM!SetIsIndependent
  <2>1. HMType /\ HMSets /\ \A v \in HMVerts : Final(v) <=> flags[v] # 0
    BY DEF HMInv, Final
  <2>2. \A h \in HMHyperedges : HM!Members(h) \subseteq HMVerts
    BY DEF HM!Members
  <2>3. ASSUME NEW h \in HMHyperedges PROVE \E v \in HM!Members(h) : ~HM!Inside(v)
    <3>1. CASE h \in FrontierH
      <4>1. PICK v \in HMVerts : <<h, v>> \in GA
        BY <2>1, <3>1 DEF HMSets, Watched
      <4>2. flags[v] = 0 \/ flags[v] = 1
        BY <2>1, <3>1, <4>1 DEF HMSets, Watched
      <4>3. v \in HM!Members(h)
        BY <2>1, <4>1, HMFacts
      <4> QED BY <4>2, <4>3 DEF HM!Inside
    <3>2. CASE h \notin FrontierH
      BY <2>1, <3>2 DEF HMSets, HM!Inside
    <3> QED BY <3>1, <3>2
  <2>4. \A v \in HMVerts : flags[v] = 1 =>
          \E h \in HMHyperedges : v \in HM!Members(h) /\ \A u \in HM!Members(h) \ {v} : flags[u] # 0
    BY <2>1, <2>2 DEF HMSets, Justified
  <2>5. \A h \in FrontierH : \A v \in HM!Members(h) : flags[v] = 0 => <<h, v>> \in GA
    BY <2>1, <2>2 DEF HMSets, Watched, HMType
  <2>6. \A v \in HMVerts : v \in Frontier <=> flags[v] = 0
    BY <2>1 DEF HMType
  <2> QED BY <2>3, <2>4, <2>5, <2>6 DEF HM!SetIsIndependent
<1>2. HM!InputsOK /\ HM!Init => HMInv
  BY InitHMInv
<1> QED BY <1>1, <1>2, HMInvKept, PTL DEF HM!Spec

-----------------------------------------------------------------------------
(* More about sums: what the counts of walks and the dependencies below    *)
(* are made of.                                                            *)

LEMMA SumsStart == \A f : SumOver(f, {}) = 0
BY FS_EmptySet, SumOverIs

\* Sums of equal summands.
LEMMA SumsAgree ==
  ASSUME NEW S, IsFiniteSet(S), NEW f, NEW g, NatOn(f, S), \A x \in S : f[x] = g[x]
  PROVE  SumOver(f, S) = SumOver(g, S)
<1> DEFINE Good == {s \in SUBSET S : SumOver(f, s) = SumOver(g, s)}
<1>1. {} \in Good
  BY SumsStart
<1>2. ASSUME NEW s \in SUBSET S, NEW x \in S, s \in Good, x \notin s PROVE s \cup {x} \in Good
  <2>1. IsFiniteSet(s) /\ NatOn(f, s \cup {x}) /\ NatOn(g, s \cup {x}) /\ s \cup {x} \in SUBSET S
    BY FS_Subset DEF NatOn
  <2>2. /\ SumOver(f, s \cup {x}) = SumOver(f, s) + f[x]
        /\ SumOver(g, s \cup {x}) = SumOver(g, s) + g[x]
    BY <1>2, <2>1, SumAdds
  <2>3. SumOver(f, s) = SumOver(g, s)
    BY <1>2
  <2> QED BY <2>1, <2>2, <2>3
<1> HIDE DEF Good
<1>3. SUBSET S \subseteq Good
  BY <1>1, <1>2, SubsetInduction
<1> QED BY <1>3 DEF Good

\* Summands that vanish outside a subset.
LEMMA SumsRestrict ==
  ASSUME NEW S, IsFiniteSet(S), NEW U \in SUBSET S, NEW f, NEW g, NatOn(f, S),
         \A x \in U : f[x] = g[x], \A x \in S \ U : f[x] = 0
  PROVE  SumOver(f, S) = SumOver(g, U)
<1> DEFINE Good == {s \in SUBSET S : SumOver(f, s) = SumOver(g, s \cap U)}
<1>1. {} \in Good
  BY SumsStart
<1>2. ASSUME NEW s \in SUBSET S, NEW x \in S, s \in Good, x \notin s PROVE s \cup {x} \in Good
  <2>1. IsFiniteSet(s) /\ IsFiniteSet(s \cap U) /\ NatOn(f, s \cup {x}) /\ s \cup {x} \in SUBSET S
    BY FS_Subset DEF NatOn
  <2>2. SumOver(f, s \cup {x}) = SumOver(f, s) + f[x] /\ SumOver(f, s) \in Nat
    BY <1>2, <2>1, SumAdds
  <2>3. SumOver(f, s) = SumOver(g, s \cap U)
    BY <1>2
  <2>4. CASE x \in U
    <3>1. (s \cup {x}) \cap U = (s \cap U) \cup {x} /\ x \notin s \cap U /\ f[x] = g[x]
      BY <1>2, <2>4
    <3>2. NatOn(g, (s \cap U) \cup {x})
      BY <2>4 DEF NatOn
    <3>3. SumOver(g, (s \cap U) \cup {x}) = SumOver(g, s \cap U) + g[x]
      BY <2>1, <3>1, <3>2, SumAdds
    <3> QED BY <2>1, <2>2, <2>3, <3>1, <3>3
  <2>5. CASE x \notin U
    <3>1. (s \cup {x}) \cap U = s \cap U /\ f[x] = 0
      BY <2>5
    <3>2. SumOver(f, s \cup {x}) = SumOver(f, s)
      BY <2>2, <3>1
    <3> QED BY <2>1, <2>3, <3>1, <3>2
  <2> QED BY <2>4, <2>5
<1> HIDE DEF Good
<1>3. S \in Good
  BY <1>1, <1>2, SubsetInduction
<1>4. S \cap U = U
  OBVIOUS
<1> QED BY <1>3, <1>4 DEF Good

\* A sum with one summand, and a summand against the sum.
LEMMA SumOfOne ==
  ASSUME NEW S, IsFiniteSet(S), NEW f, NatOn(f, S), NEW y \in S, \A x \in S : x # y => f[x] = 0
  PROVE  SumOver(f, S) = f[y]
<1>1. SumOver(f, S) = f[y] + SumOver(f, S \ {y}) /\ f[y] \in Nat
  BY SumWithout DEF NatOn
<1>2. IsFiniteSet(S \ {y}) /\ (\A x \in S \ {y} : f[x] \in Nat) /\ (\A x \in S \ {y} : f[x] = 0)
  BY FS_Subset DEF NatOn
<1>3. SumOver(f, S \ {y}) = 0
  BY <1>2, SumOfZeros
<1> QED BY <1>1, <1>3

LEMMA SumBounds ==
  ASSUME NEW S, IsFiniteSet(S), NEW f, NatOn(f, S)
  PROVE  /\ SumOver(f, S) \in Nat
         /\ \A x \in S : f[x] <= SumOver(f, S)
         /\ SumOver(f, S) > 0 => \E x \in S : f[x] > 0
         /\ SumOver(f, S) = 0 => \A x \in S : f[x] = 0
<1>1. SumOver(f, S) \in Nat /\ \A x \in S : f[x] \in Nat
  BY SumIsNat DEF NatOn
<1>2. ASSUME NEW x \in S PROVE f[x] <= SumOver(f, S)
  <2>1. SumOver(f, S) = f[x] + SumOver(f, S \ {x}) /\ SumOver(f, S \ {x}) \in Nat
    BY SumWithout
  <2> QED BY <1>1, <2>1
<1>3. ASSUME SumOver(f, S) > 0, \A x \in S : ~(f[x] > 0) PROVE FALSE
  <2>1. \A x \in S : f[x] = 0
    BY <1>1, <1>3
  <2>2. SumOver(f, S) = 0
    BY <1>1, <2>1, SumOfZeros
  <2> QED BY <1>3, <2>2
<1> QED BY <1>1, <1>2, <1>3

\* The sum of two sums, and of multiples.
LEMMA SumsPlus ==
  ASSUME NEW S, IsFiniteSet(S), NEW f, NEW g, NEW h, NatOn(f, S), NatOn(g, S),
         \A x \in S : h[x] = f[x] + g[x]
  PROVE  SumOver(h, S) = SumOver(f, S) + SumOver(g, S)
<1> DEFINE Good == {s \in SUBSET S : SumOver(h, s) = SumOver(f, s) + SumOver(g, s)}
<1>1. {} \in Good
  BY SumsStart
<1>2. ASSUME NEW s \in SUBSET S, NEW x \in S, s \in Good, x \notin s PROVE s \cup {x} \in Good
  <2>1. /\ IsFiniteSet(s) /\ NatOn(f, s \cup {x}) /\ NatOn(g, s \cup {x}) /\ NatOn(h, s \cup {x})
        /\ s \cup {x} \in SUBSET S
    BY FS_Subset DEF NatOn
  <2>2. /\ SumOver(f, s \cup {x}) = SumOver(f, s) + f[x] /\ SumOver(f, s) \in Nat
        /\ SumOver(g, s \cup {x}) = SumOver(g, s) + g[x] /\ SumOver(g, s) \in Nat
        /\ SumOver(h, s \cup {x}) = SumOver(h, s) + h[x]
    BY <1>2, <2>1, SumAdds
  <2>3. SumOver(h, s) = SumOver(f, s) + SumOver(g, s)
    BY <1>2
  <2>4. f[x] \in Nat /\ g[x] \in Nat /\ h[x] = f[x] + g[x]
    BY DEF NatOn
  <2> HIDE DEF Good
  <2>5. SumOver(h, s \cup {x}) = SumOver(f, s \cup {x}) + SumOver(g, s \cup {x})
    BY <2>2, <2>3, <2>4
  <2> QED BY <2>1, <2>5 DEF Good
<1> HIDE DEF Good
<1>3. SUBSET S \subseteq Good
  BY <1>1, <1>2, SubsetInduction
<1> QED BY <1>3 DEF Good

LEMMA Distributes ==
  ASSUME NEW a \in Nat, NEW b \in Nat, NEW c \in Nat
  PROVE  (a + b) * c = a * c + b * c
OBVIOUS

LEMMA SumsTimes ==
  ASSUME NEW S, IsFiniteSet(S), NEW f, NEW h, NEW c \in Nat, NatOn(f, S),
         \A x \in S : h[x] = f[x] * c
  PROVE  SumOver(h, S) = SumOver(f, S) * c
<1> DEFINE Good == {s \in SUBSET S : SumOver(h, s) = SumOver(f, s) * c}
<1>1. {} \in Good
  BY SumsStart
<1>2. ASSUME NEW s \in SUBSET S, NEW x \in S, s \in Good, x \notin s PROVE s \cup {x} \in Good
  <2>0. \A z \in S : f[z] \in Nat /\ h[z] = f[z] * c /\ f[z] * c \in Nat
    BY DEF NatOn
  <2>1. /\ IsFiniteSet(s) /\ NatOn(f, s \cup {x}) /\ NatOn(h, s \cup {x})
        /\ s \cup {x} \in SUBSET S
    BY <2>0, FS_Subset DEF NatOn
  <2>2. /\ SumOver(f, s \cup {x}) = SumOver(f, s) + f[x] /\ SumOver(f, s) \in Nat
        /\ SumOver(h, s \cup {x}) = SumOver(h, s) + h[x]
    BY <1>2, <2>1, SumAdds
  <2>3. SumOver(h, s) = SumOver(f, s) * c
    BY <1>2
  <2> HIDE DEF Good
  <2>5. SumOver(h, s \cup {x}) = SumOver(f, s \cup {x}) * c
    <3>1. (SumOver(f, s) + f[x]) * c = SumOver(f, s) * c + f[x] * c
      BY <2>0, <2>2, Distributes
    <3> QED BY <2>0, <2>2, <2>3, <3>1
  <2> QED BY <2>1, <2>5 DEF Good
<1> HIDE DEF Good
<1>3. SUBSET S \subseteq Good
  BY <1>1, <1>2, SubsetInduction
<1> QED BY <1>3 DEF Good

\* A double sum may be taken in either order.
Rows(F, S, U) == [x \in S |-> SumOver([y \in U |-> F[x][y]], U)]
Columns(F, S, U) == [y \in U |-> SumOver([x \in S |-> F[x][y]], S)]

LEMMA SumsSwap ==
  ASSUME NEW S, IsFiniteSet(S), NEW U, IsFiniteSet(U), NEW F, \A x \in S : \A y \in U : F[x][y] \in Nat
  PROVE  SumOver(Rows(F, S, U), S) = SumOver(Columns(F, S, U), U)
<1> DEFINE Row(x) == [y \in U |-> F[x][y]]
           Part(s) == [y \in U |-> SumOver([x \in S |-> F[x][y]], s)]
           Good == {s \in SUBSET S : SumOver(Rows(F, S, U), s) = SumOver(Part(s), U)}
<1>0. \A s \in SUBSET S : IsFiniteSet(s)
  BY FS_Subset
<1>1. \A x \in S : NatOn(Row(x), U) /\ SumOver(Row(x), U) \in Nat /\ Rows(F, S, U)[x] = SumOver(Row(x), U)
  <2> TAKE x \in S
  <2>1. NatOn(Row(x), U)
    BY DEF NatOn
  <2> QED BY <2>1, SumBounds DEF Rows
<1>2. \A y \in U : NatOn([x \in S |-> F[x][y]], S)
  BY DEF NatOn
<1>3. \A s \in SUBSET S : NatOn(Part(s), U)
  <2> SUFFICES ASSUME NEW s \in SUBSET S, NEW y \in U PROVE SumOver([x \in S |-> F[x][y]], s) \in Nat
    BY DEF NatOn
  <2>1. NatOn([x \in S |-> F[x][y]], s)
    BY <1>2 DEF NatOn
  <2> QED BY <1>0, <2>1, SumBounds
<1>4. {} \in Good
  <2>1. \A y \in U : Part({})[y] = 0
    BY SumsStart
  <2>2. \A y \in U : Part({})[y] \in Nat
    BY <2>1
  <2> HIDE DEF Part
  <2>3. SumOver(Part({}), U) = 0
    BY <2>1, <2>2, SumOfZeros
  <2> QED BY <2>3, SumsStart
<1>5. ASSUME NEW s \in SUBSET S, NEW x \in S, s \in Good, x \notin s PROVE s \cup {x} \in Good
  <2>1. s \cup {x} \in SUBSET S /\ IsFiniteSet(s)
    BY <1>0
  <2>2. NatOn(Rows(F, S, U), s \cup {x})
    BY <1>1, <2>1 DEF NatOn
  <2>3. SumOver(Rows(F, S, U), s \cup {x}) = SumOver(Rows(F, S, U), s) + SumOver(Row(x), U)
    <3>1. SumOver(Rows(F, S, U), s \cup {x}) = SumOver(Rows(F, S, U), s) + Rows(F, S, U)[x]
      BY <1>5, <2>1, <2>2, SumAdds
    <3> HIDE DEF Row
    <3> QED BY <1>1, <3>1
  <2>4. \A y \in U : Part(s \cup {x})[y] = Part(s)[y] + Row(x)[y]
    <3> TAKE y \in U
    <3> DEFINE f == [z \in S |-> F[z][y]]
    <3>1. NatOn(f, s \cup {x})
      BY <2>1 DEF NatOn
    <3>2. f[x] = F[x][y]
      OBVIOUS
    <3>4. Part(s \cup {x})[y] = SumOver(f, s \cup {x}) /\ Part(s)[y] = SumOver(f, s) /\ Row(x)[y] = F[x][y]
      OBVIOUS
    <3> HIDE DEF f, Part, Row
    <3>3. SumOver(f, s \cup {x}) = SumOver(f, s) + f[x]
      BY <1>5, <2>1, <3>1, SumAdds
    <3> QED BY <3>2, <3>3, <3>4
  <2> HIDE DEF Part, Row
  <2>5. SumOver(Part(s \cup {x}), U) = SumOver(Part(s), U) + SumOver(Row(x), U)
    BY <1>1, <1>3, <2>4, SumsPlus
  <2>6. SumOver(Rows(F, S, U), s) = SumOver(Part(s), U)
    BY <1>5
  <2> QED BY <2>1, <2>3, <2>5, <2>6
<1>6. SumOver(Part(S), U) = SumOver(Columns(F, S, U), U)
  BY DEF Columns
<1> HIDE DEF Part, Good
<1>7. S \in Good
  BY <1>4, <1>5, SubsetInduction
<1> QED BY <1>6, <1>7 DEF Good

-----------------------------------------------------------------------------
(* Counts of walks in any finite directed graph, on the nodes Dom, of at   *)
(* most N edges: for BC and HyperBC.                                       *)
Empties(Dom) == [u \in Dom |-> [v \in Dom |-> IF u = v THEN 1 ELSE 0]]
InEdges(G, Dom, row, v) == [x \in Dom |-> IF <<x, v>> \in G THEN row[x] ELSE 0]
Longer(G, Dom, shorter) ==
  [u \in Dom |-> [v \in Dom |-> SumOver(shorter[u], {x \in Dom : <<x, v>> \in G})]]

CountIn(G, Dom, N) ==
  LET W[j \in 0 .. N] == IF j = 0 THEN Empties(Dom) ELSE Longer(G, Dom, W[j - 1])
  IN W

\* What such a table is.
Counted(w, G, Dom, N) ==
  /\ \A j \in 0 .. N, u \in Dom, v \in Dom : w[j][u][v] \in Nat
  /\ \A u, v \in Dom : w[0][u][v] = IF u = v THEN 1 ELSE 0
  /\ \A j \in 0 .. N - 1, u \in Dom, v \in Dom :
       w[j + 1][u][v] = SumOver(InEdges(G, Dom, w[j][u], v), Dom)

LEMMA CountsExist ==
  ASSUME NEW G, NEW Dom, NEW N \in Nat
  PROVE  /\ CountIn(G, Dom, N)[0] = Empties(Dom)
         /\ \A j \in 0 .. N - 1 : CountIn(G, Dom, N)[j + 1] = Longer(G, Dom, CountIn(G, Dom, N)[j])
<1> DEFINE More(s) == Longer(G, Dom, s)
           Zero == Empties(Dom)
           Table(g, j) == g = [i \in 0 .. j |-> IF i = 0 THEN Zero ELSE More(g[i - 1])]
           Upto == {j \in Nat : \E g : Table(g, j)}
           C == CountIn(G, Dom, N)
<1> HIDE DEF Zero
<1>1. 0 \in Upto
  <2>1. Table([i \in 0 .. 0 |-> Zero], 0)
    OBVIOUS
  <2> QED BY <2>1
<1>2. ASSUME NEW j \in Nat, j \in Upto PROVE j + 1 \in Upto
  <2> SUFFICES \E g : Table(g, j + 1)
    OBVIOUS
  <2>1. PICK g : Table(g, j)
    BY <1>2
  <2> DEFINE h == [i \in 0 .. j + 1 |-> IF i = 0 THEN Zero ELSE More(g[i - 1])]
  <2> HIDE DEF More
  <2>2. ASSUME NEW i \in 0 .. j + 1, i # 0 PROVE h[i - 1] = g[i - 1]
    <3>1. i - 1 \in 0 .. j /\ i - 1 \in 0 .. j + 1
      BY <2>2
    <3> QED BY <2>1, <3>1
  <2>3. h = [i \in 0 .. j + 1 |-> IF i = 0 THEN Zero ELSE More(h[i - 1])]
    BY <2>2
  <2> HIDE DEF h
  <2>4. Table(h, j + 1)
    BY <2>3
  <2> QED BY <2>4
<1>3. \E g : Table(g, N)
  <2> HIDE DEF Upto
  <2>1. N \in Upto
    BY <1>1, <1>2, SetInduction
  <2> QED BY <2>1 DEF Upto
<1>4. Table(C, N)
  BY <1>3 DEF CountIn, Zero
<1> HIDE DEF More, C
<1>5. \A i \in 0 .. N : C[i] = IF i = 0 THEN Zero ELSE More(C[i - 1])
  BY <1>4
<1>6. ASSUME NEW j \in 0 .. N - 1 PROVE C[j + 1] = More(C[j])
  <2>1. j + 1 \in 0 .. N /\ j + 1 # 0 /\ (j + 1) - 1 = j
    OBVIOUS
  <2> QED BY <1>5, <2>1
<1>7. C[0] = Zero
  <2>1. 0 \in 0 .. N
    OBVIOUS
  <2> QED BY <1>5, <2>1
<1> QED BY <1>6, <1>7 DEF More, C, Zero

LEMMA InEdgesAre ==
  ASSUME NEW G, NEW Dom, NEW row, NEW v, \A x \in Dom : row[x] \in Nat
  PROVE  /\ NatOn(InEdges(G, Dom, row, v), Dom)
         /\ \A x \in Dom : InEdges(G, Dom, row, v)[x] = IF <<x, v>> \in G THEN row[x] ELSE 0
BY DEF NatOn, InEdges

LEMMA CountsAreCounted ==
  ASSUME NEW G, NEW Dom, IsFiniteSet(Dom), NEW N \in Nat
  PROVE  Counted(CountIn(G, Dom, N), G, Dom, N)
<1> DEFINE w == CountIn(G, Dom, N)
           Good == {j \in Nat : j <= N => \A u, v \in Dom : w[j][u][v] \in Nat}
<1>1. w[0] = Empties(Dom) /\ \A j \in 0 .. N - 1 : w[j + 1] = Longer(G, Dom, w[j])
  BY CountsExist
<1> HIDE DEF w
<1>2. \A u, v \in Dom : w[0][u][v] = IF u = v THEN 1 ELSE 0
  BY <1>1 DEF Empties
<1>3. ASSUME NEW j \in 0 .. N - 1, NEW u \in Dom, NEW v \in Dom, \A x \in Dom : w[j][u][x] \in Nat
      PROVE  w[j + 1][u][v] = SumOver(InEdges(G, Dom, w[j][u], v), Dom)
  <2> DEFINE f == InEdges(G, Dom, w[j][u], v)
             P == {x \in Dom : <<x, v>> \in G}
  <2>1. w[j + 1] = Longer(G, Dom, w[j])
    BY <1>1
  <2>2. w[j + 1][u][v] = SumOver(w[j][u], P)
    BY <2>1 DEF Longer
  <2>3. NatOn(f, Dom) /\ \A x \in Dom : f[x] = IF <<x, v>> \in G THEN w[j][u][x] ELSE 0
    BY <1>3, InEdgesAre
  <2>4. P \in SUBSET Dom /\ (\A x \in P : f[x] = w[j][u][x]) /\ \A x \in Dom \ P : f[x] = 0
    BY <2>3
  <2> HIDE DEF f, P
  <2>5. SumOver(f, Dom) = SumOver(w[j][u], P)
    BY <2>3, <2>4, SumsRestrict
  <2> QED BY <2>2, <2>5 DEF f
<1>4. 0 \in Good
  BY <1>2
<1>5. ASSUME NEW j \in Nat, j \in Good PROVE j + 1 \in Good
  <2> SUFFICES ASSUME j + 1 <= N, NEW u \in Dom, NEW v \in Dom PROVE w[j + 1][u][v] \in Nat
    OBVIOUS
  <2>1. \A x \in Dom : w[j][u][x] \in Nat
    BY <1>5
  <2>2. SumOver(InEdges(G, Dom, w[j][u], v), Dom) \in Nat
    BY <2>1, InEdgesAre, SumBounds
  <2>3. j \in 0 .. N - 1
    OBVIOUS
  <2> QED BY <1>3, <2>1, <2>2, <2>3
<1> HIDE DEF Good
<1>6. Nat \subseteq Good
  BY <1>4, <1>5, SetInduction
<1>7. ASSUME NEW j \in 0 .. N, NEW u \in Dom, NEW v \in Dom PROVE w[j][u][v] \in Nat
  BY <1>6 DEF Good
<1>8. ASSUME NEW j \in 0 .. N - 1, NEW u \in Dom, NEW v \in Dom
      PROVE  w[j + 1][u][v] = SumOver(InEdges(G, Dom, w[j][u], v), Dom)
  <2>1. j \in 0 .. N
    OBVIOUS
  <2> QED BY <1>3, <1>7, <2>1
<1> QED BY <1>2, <1>7, <1>8 DEF Counted, w

\* One edge more, in terms of its last edge.
Lengthens(w, G, Dom, j, u, v) ==
  /\ w[j + 1][u][v] > 0 <=> \E x \in Dom : <<x, v>> \in G /\ w[j][u][x] > 0
  /\ \A x \in Dom : <<x, v>> \in G => w[j][u][x] <= w[j + 1][u][v]

LEMMA LastEdge ==
  ASSUME NEW w, NEW G, NEW Dom, IsFiniteSet(Dom), NEW N \in Nat, Counted(w, G, Dom, N),
         NEW j \in 0 .. N - 1, NEW u \in Dom, NEW v \in Dom
  PROVE  Lengthens(w, G, Dom, j, u, v)
<1> DEFINE f == InEdges(G, Dom, w[j][u], v)
<1>0. j \in 0 .. N
  OBVIOUS
<1>1. \A x \in Dom : w[j][u][x] \in Nat
  BY <1>0 DEF Counted
<1>2. NatOn(f, Dom) /\ \A x \in Dom : f[x] = IF <<x, v>> \in G THEN w[j][u][x] ELSE 0
  BY <1>1, InEdgesAre
<1>3. w[j + 1][u][v] = SumOver(f, Dom)
  BY DEF Counted
<1> HIDE DEF f
<1>4. /\ SumOver(f, Dom) \in Nat
      /\ \A x \in Dom : f[x] <= SumOver(f, Dom)
      /\ SumOver(f, Dom) > 0 => \E x \in Dom : f[x] > 0
  BY <1>2, SumBounds
<1>5. ASSUME NEW x \in Dom, <<x, v>> \in G PROVE w[j][u][x] <= w[j + 1][u][v]
  BY <1>2, <1>3, <1>4, <1>5
<1>6. ASSUME w[j + 1][u][v] > 0 PROVE \E x \in Dom : <<x, v>> \in G /\ w[j][u][x] > 0
  <2>1. PICK x \in Dom : f[x] > 0
    BY <1>3, <1>4, <1>6
  <2>2. <<x, v>> \in G /\ f[x] = w[j][u][x]
    BY <1>2, <2>1
  <2> QED BY <2>1, <2>2
<1>7. ASSUME NEW x \in Dom, <<x, v>> \in G, w[j][u][x] > 0 PROVE w[j + 1][u][v] > 0
  <2>1. w[j][u][x] <= w[j + 1][u][v] /\ w[j + 1][u][v] \in Nat /\ w[j][u][x] \in Nat
    BY <1>1, <1>3, <1>4, <1>5, <1>7
  <2> QED BY <1>7, <2>1
<1> QED BY <1>5, <1>6, <1>7 DEF Lengthens

\* Two walks make one.
LEMMA WalksJoin ==
  ASSUME NEW w, NEW G, NEW Dom, IsFiniteSet(Dom), NEW N \in Nat, Counted(w, G, Dom, N),
         NEW i \in 0 .. N, NEW j \in 0 .. N, i + j <= N,
         NEW u \in Dom, NEW x \in Dom, NEW v \in Dom, w[i][u][x] > 0, w[j][x][v] > 0
  PROVE  w[i + j][u][v] > 0
<1> DEFINE Good == {l \in Nat : i + l <= N => \A y \in Dom : w[l][x][y] > 0 => w[i + l][u][y] > 0}
<1>1. 0 \in Good
  <2> SUFFICES ASSUME NEW y \in Dom, w[0][x][y] > 0 PROVE w[i + 0][u][y] > 0
    OBVIOUS
  <2>1. w[0][x][y] = IF x = y THEN 1 ELSE 0
    BY DEF Counted
  <2>2. x = y /\ i + 0 = i
    BY <2>1
  <2> QED BY <2>2
<1>2. ASSUME NEW l \in Nat, l \in Good PROVE l + 1 \in Good
  <2> SUFFICES ASSUME i + (l + 1) <= N, NEW y \in Dom, w[l + 1][x][y] > 0 PROVE w[i + (l + 1)][u][y] > 0
    OBVIOUS
  <2>1. l \in 0 .. N - 1 /\ i + l \in 0 .. N - 1 /\ i + l <= N /\ i + (l + 1) = (i + l) + 1
    OBVIOUS
  <2>2. PICK z \in Dom : <<z, y>> \in G /\ w[l][x][z] > 0
    <3>1. Lengthens(w, G, Dom, l, x, y)
      BY <2>1, LastEdge
    <3> QED BY <3>1 DEF Lengthens
  <2>3. w[i + l][u][z] > 0
    BY <1>2, <2>1, <2>2
  <2>4. w[(i + l) + 1][u][y] > 0
    <3>1. Lengthens(w, G, Dom, i + l, u, y)
      BY <2>1, LastEdge
    <3> QED BY <2>2, <2>3, <3>1 DEF Lengthens
  <2> QED BY <2>1, <2>4
<1> HIDE DEF Good
<1>3. j \in Good
  BY <1>1, <1>2, SetInduction
<1> QED BY <1>3 DEF Good

\* One edge more, in terms of its first edge: the sums of both ways are one double sum.
OutEdges(G, Dom, w, v, u) == [x \in Dom |-> IF <<u, x>> \in G THEN w[x][v] ELSE 0]

LEMMA FirstEdge ==
  ASSUME NEW w, NEW G, NEW Dom, IsFiniteSet(Dom), NEW N \in Nat, Counted(w, G, Dom, N)
  PROVE  \A j \in 0 .. N - 1, u \in Dom, v \in Dom :
           w[j + 1][u][v] = SumOver(OutEdges(G, Dom, w[j], v, u), Dom)
<1> DEFINE Good == {j \in Nat : j + 1 <= N => \A u, v \in Dom :
                      w[j + 1][u][v] = SumOver(OutEdges(G, Dom, w[j], v, u), Dom)}
<1>0. \A j \in 0 .. N, u \in Dom, v \in Dom : w[j][u][v] \in Nat
  BY DEF Counted
<1>1. 0 \in Good
  <2> SUFFICES ASSUME 1 <= N, NEW u \in Dom, NEW v \in Dom
               PROVE  w[1][u][v] = SumOver(OutEdges(G, Dom, w[0], v, u), Dom)
    OBVIOUS
  <2> DEFINE f == InEdges(G, Dom, w[0][u], v)
             g == OutEdges(G, Dom, w[0], v, u)
  <2>1. \A x, y \in Dom : w[0][x][y] = IF x = y THEN 1 ELSE 0
    BY DEF Counted
  <2>2. \A x \in Dom : f[x] = IF <<x, v>> \in G /\ x = u THEN 1 ELSE 0
    BY <2>1 DEF InEdges
  <2>3. \A x \in Dom : g[x] = IF <<u, x>> \in G /\ x = v THEN 1 ELSE 0
    BY <2>1 DEF OutEdges
  <2>4. w[0 + 1][u][v] = SumOver(f, Dom)
    <3>1. 0 \in 0 .. N - 1
      OBVIOUS
    <3> QED BY <3>1 DEF Counted
  <2> HIDE DEF f, g
  <2>5. SumOver(f, Dom) = f[u]
    <3>1. ASSUME NEW x \in Dom PROVE f[x] \in Nat /\ (x # u => f[x] = 0)
      <4>1. f[x] = 0 \/ (f[x] = 1 /\ x = u)
        BY <2>2
      <4> QED BY <4>1
    <3>2. NatOn(f, Dom)
      BY <3>1 DEF NatOn
    <3> QED BY <3>1, <3>2, SumOfOne
  <2>6. SumOver(g, Dom) = g[v]
    <3>1. ASSUME NEW x \in Dom PROVE g[x] \in Nat /\ (x # v => g[x] = 0)
      <4>1. g[x] = 0 \/ (g[x] = 1 /\ x = v)
        BY <2>3
      <4> QED BY <4>1
    <3>2. NatOn(g, Dom)
      BY <3>1 DEF NatOn
    <3> QED BY <3>1, <3>2, SumOfOne
  <2>7. SumOver(g, Dom) = SumOver(f, Dom)
    BY <2>2, <2>3, <2>5, <2>6
  <2> QED BY <2>4, <2>7 DEF g
<1>2. ASSUME NEW j \in Nat, j \in Good PROVE j + 1 \in Good
  <2> SUFFICES ASSUME (j + 1) + 1 <= N, NEW u \in Dom, NEW v \in Dom
               PROVE  w[(j + 1) + 1][u][v] = SumOver(OutEdges(G, Dom, w[j + 1], v, u), Dom)
    OBVIOUS
  <2> DEFINE F == [y \in Dom |-> [x \in Dom |-> IF <<y, v>> \in G /\ <<u, x>> \in G THEN w[j][x][y] ELSE 0]]
             f == InEdges(G, Dom, w[j + 1][u], v)
             g == OutEdges(G, Dom, w[j + 1], v, u)
             a == Rows(F, Dom, Dom)
             b == Columns(F, Dom, Dom)
  <2>1. j \in 0 .. N - 1 /\ j \in 0 .. N /\ j + 1 \in 0 .. N - 1 /\ j + 1 \in 0 .. N
    OBVIOUS
  <2>2. \A y, x \in Dom : F[y][x] \in Nat
    BY <1>0, <2>1
  <2>3. ASSUME NEW y \in Dom PROVE f[y] = a[y]
    <3> DEFINE p == [x \in Dom |-> F[y][x]]
               o == OutEdges(G, Dom, w[j], y, u)
    <3>1. f[y] = IF <<y, v>> \in G THEN w[j + 1][u][y] ELSE 0
      BY DEF InEdges
    <3>2. a[y] = SumOver(p, Dom)
      BY DEF Rows
    <3>3. w[j + 1][u][y] = SumOver(o, Dom)
      BY <1>2, <2>1
    <3>4. NatOn(p, Dom)
      BY <2>2 DEF NatOn
    <3>5. CASE <<y, v>> \in G
      <4>1. \A x \in Dom : p[x] = o[x]
        BY <3>5 DEF OutEdges
      <4> HIDE DEF p, o
      <4>2. SumOver(p, Dom) = SumOver(o, Dom)
        BY <3>4, <4>1, SumsAgree
      <4> QED BY <3>1, <3>2, <3>3, <3>5, <4>2
    <3>6. CASE <<y, v>> \notin G
      <4>1. \A x \in Dom : p[x] = 0
        BY <3>6
      <4> HIDE DEF p, o
      <4>2. SumOver(p, Dom) = 0
        BY <3>4, <4>1, SumOfZeros DEF NatOn
      <4> QED BY <3>1, <3>2, <3>6, <4>2
    <3> QED BY <3>5, <3>6
  <2>4. ASSUME NEW x \in Dom PROVE g[x] = b[x]
    <3> DEFINE p == [y \in Dom |-> F[y][x]]
               o == InEdges(G, Dom, w[j][x], v)
    <3>1. g[x] = IF <<u, x>> \in G THEN w[j + 1][x][v] ELSE 0
      BY DEF OutEdges
    <3>2. b[x] = SumOver(p, Dom)
      BY DEF Columns
    <3>3. w[j + 1][x][v] = SumOver(o, Dom)
      BY <2>1 DEF Counted
    <3>4. NatOn(p, Dom)
      BY <2>2 DEF NatOn
    <3>5. CASE <<u, x>> \in G
      <4>1. \A y \in Dom : p[y] = o[y]
        BY <3>5 DEF InEdges
      <4> HIDE DEF p, o
      <4>2. SumOver(p, Dom) = SumOver(o, Dom)
        BY <3>4, <4>1, SumsAgree
      <4> QED BY <3>1, <3>2, <3>3, <3>5, <4>2
    <3>6. CASE <<u, x>> \notin G
      <4>1. \A y \in Dom : p[y] = 0
        BY <3>6
      <4> HIDE DEF p, o
      <4>2. SumOver(p, Dom) = 0
        BY <3>4, <4>1, SumOfZeros DEF NatOn
      <4> QED BY <3>1, <3>2, <3>6, <4>2
    <3> QED BY <3>5, <3>6
  <2>5. w[(j + 1) + 1][u][v] = SumOver(f, Dom)
    BY <2>1 DEF Counted
  <2>6. NatOn(f, Dom) /\ NatOn(g, Dom)
    BY <1>0, <2>1 DEF NatOn, InEdges, OutEdges
  <2> HIDE DEF F, f, g, a, b
  <2>7. SumOver(a, Dom) = SumOver(b, Dom)
    BY <2>2, SumsSwap DEF a, b
  <2>8. SumOver(f, Dom) = SumOver(a, Dom)
    BY <2>3, <2>6, SumsAgree
  <2>9. SumOver(g, Dom) = SumOver(b, Dom)
    BY <2>4, <2>6, SumsAgree
  <2> QED BY <2>5, <2>7, <2>8, <2>9 DEF g
<1> HIDE DEF Good
<1>3. Nat \subseteq Good
  BY <1>1, <1>2, SetInduction
<1> SUFFICES ASSUME NEW j \in 0 .. N - 1, NEW u \in Dom, NEW v \in Dom
             PROVE  w[j + 1][u][v] = SumOver(OutEdges(G, Dom, w[j], v, u), Dom)
  OBVIOUS
<1>4. j \in Good /\ j + 1 <= N
  BY <1>3
<1> QED BY <1>4 DEF Good

-----------------------------------------------------------------------------
(* Distances in such a table, and the shares that make a dependency.       *)
Away(w, u, j, v) == w[j][u][v] > 0 /\ \A i \in 0 .. j - 1 : w[i][u][v] = 0
ReachedIn(w, Dom, N, u) == {v \in Dom : \E j \in 0 .. N : w[j][u][v] > 0}
DistIn(w, N, u, v) == CHOOSE j \in 0 .. N : Away(w, u, j, v)
PathsIn(w, Dom, N, u, v) == IF v \in ReachedIn(w, Dom, N, u) THEN w[DistIn(w, N, u, v)][u][v] ELSE 0
ThroughIn(w, Dom, N, s, v, t) ==
  IF t \in ReachedIn(w, Dom, N, v) /\ DistIn(w, N, s, t) = DistIn(w, N, s, v) + DistIn(w, N, v, t)
  THEN PathsIn(w, Dom, N, s, v) * PathsIn(w, Dom, N, v, t) ELSE 0

CountedNat(w, Dom, N) == \A j \in 0 .. N, u \in Dom, v \in Dom : w[j][u][v] \in Nat

LEMMA DistIs ==
  ASSUME NEW w, NEW Dom, NEW N \in Nat, CountedNat(w, Dom, N), NEW u \in Dom, NEW v \in ReachedIn(w, Dom, N, u)
  PROVE  /\ DistIn(w, N, u, v) \in 0 .. N /\ Away(w, u, DistIn(w, N, u, v), v)
         /\ \A j \in 0 .. N : w[j][u][v] > 0 => DistIn(w, N, u, v) <= j
         /\ \A j \in 0 .. N : Away(w, u, j, v) => DistIn(w, N, u, v) = j
<1> DEFINE S == {j \in 0 .. N : w[j][u][v] > 0}
           d == DistIn(w, N, u, v)
<1>1. v \in Dom /\ S \in SUBSET Nat /\ S # {}
  BY DEF ReachedIn
<1>2. PICK k \in S : \A j \in S : k <= j
  BY <1>1, LeastMember
<1>3. Away(w, u, k, v)
  <2>1. k \in 0 .. N /\ w[k][u][v] > 0
    BY <1>2
  <2>2. ASSUME NEW i \in 0 .. k - 1 PROVE w[i][u][v] = 0
    <3>1. i \in 0 .. N /\ ~(k <= i)
      BY <2>1
    <3>2. ~(w[i][u][v] > 0) /\ w[i][u][v] \in Nat
      BY <1>1, <1>2, <3>1 DEF CountedNat
    <3> QED BY <3>2
  <2> QED BY <2>1, <2>2 DEF Away
<1>4. d \in 0 .. N /\ Away(w, u, d, v)
  BY <1>2, <1>3 DEF DistIn
<1> HIDE DEF d
<1>5. ASSUME NEW j \in 0 .. N, w[j][u][v] > 0 PROVE d <= j
  <2>1. ~(j \in 0 .. d - 1)
    BY <1>4, <1>5 DEF Away
  <2> QED BY <1>4, <2>1
<1>6. ASSUME NEW j \in 0 .. N, Away(w, u, j, v) PROVE d = j
  <2>1. d <= j
    BY <1>5, <1>6 DEF Away
  <2>2. ~(d \in 0 .. j - 1)
    BY <1>4, <1>6 DEF Away
  <2> QED BY <1>4, <2>1, <2>2
<1> QED BY <1>4, <1>5, <1>6 DEF d

\* What is known of all nodes and their distances from s.
Leveled(w, G, Dom, N, s, lev) ==
  /\ IsFiniteSet(Dom) /\ N \in Nat /\ Counted(w, G, Dom, N) /\ s \in Dom
  /\ \A v \in ReachedIn(w, Dom, N, s) :
       /\ v \in Dom /\ lev[v] \in 0 .. N /\ Away(w, s, lev[v], v)
       /\ lev[v] = DistIn(w, N, s, v)
       /\ \A j \in 0 .. N : w[j][s][v] > 0 => lev[v] <= j
       /\ \A j \in 0 .. N : Away(w, s, j, v) => lev[v] = j
  /\ \A j \in 0 .. N, u \in Dom, v \in Dom : w[j][u][v] \in Nat
  /\ \A j \in 0 .. N, v \in Dom : w[j][s][v] > 0 => v \in ReachedIn(w, Dom, N, s)

LevelsFrom(w, Dom, N, s) == [v \in Dom |-> DistIn(w, N, s, v)]

LEMMA LevelsAreLeveled ==
  ASSUME NEW w, NEW G, NEW Dom, IsFiniteSet(Dom), NEW N \in Nat, Counted(w, G, Dom, N), NEW s \in Dom
  PROVE  Leveled(w, G, Dom, N, s, LevelsFrom(w, Dom, N, s))
<1>1. CountedNat(w, Dom, N)
  BY DEF Counted, CountedNat
<1>2. ASSUME NEW v \in ReachedIn(w, Dom, N, s)
      PROVE  /\ v \in Dom /\ LevelsFrom(w, Dom, N, s)[v] = DistIn(w, N, s, v)
             /\ DistIn(w, N, s, v) \in 0 .. N /\ Away(w, s, DistIn(w, N, s, v), v)
             /\ \A j \in 0 .. N : w[j][s][v] > 0 => DistIn(w, N, s, v) <= j
             /\ \A j \in 0 .. N : Away(w, s, j, v) => DistIn(w, N, s, v) = j
  <2>1. v \in Dom
    BY DEF ReachedIn
  <2>2. LevelsFrom(w, Dom, N, s)[v] = DistIn(w, N, s, v)
    BY <2>1 DEF LevelsFrom
  <2> QED BY <1>1, <2>1, <2>2, DistIs
<1>3. \A j \in 0 .. N, v \in Dom : w[j][s][v] > 0 => v \in ReachedIn(w, Dom, N, s)
  BY DEF ReachedIn
<1> HIDE DEF LevelsFrom
<1> QED BY <1>1, <1>2, <1>3 DEF Leveled, CountedNat

\* An edge leads at most one level on.
LEMMA EdgeOn ==
  ASSUME NEW w, NEW G, NEW Dom, NEW N, NEW s, NEW lev, Leveled(w, G, Dom, N, s, lev),
         NEW v \in ReachedIn(w, Dom, N, s), NEW x \in Dom, <<v, x>> \in G
  PROVE  /\ lev[v] < N => x \in ReachedIn(w, Dom, N, s)
         /\ x \in ReachedIn(w, Dom, N, s) => lev[x] <= lev[v] + 1
<1>1. N \in Nat /\ lev[v] \in 0 .. N /\ v \in Dom /\ w[lev[v]][s][v] > 0 /\ s \in Dom
  BY DEF Leveled, Away
<1>2. CASE lev[v] < N
  <2>1. lev[v] \in 0 .. N - 1 /\ lev[v] + 1 \in 0 .. N
    BY <1>1, <1>2
  <2>2. Lengthens(w, G, Dom, lev[v], s, x)
    BY <2>1, LastEdge DEF Leveled
  <2>3. w[lev[v] + 1][s][x] > 0
    BY <1>1, <2>2 DEF Lengthens
  <2> QED BY <2>1, <2>3 DEF Leveled
<1>3. CASE ~(lev[v] < N)
  <2>1. x \in ReachedIn(w, Dom, N, s) => lev[x] \in 0 .. N
    BY DEF Leveled
  <2> QED BY <1>1, <1>3, <2>1
<1> QED BY <1>2, <1>3

\* The count of a node of the next level is the sum of those of the level before it.
FromLevel(w, G, Dom, s, r, d) == [x \in Dom |-> IF <<x, d>> \in G /\ Away(w, s, r, x) THEN w[r][s][x] ELSE 0]

LEMMA NextCounts ==
  ASSUME NEW w, NEW G, NEW Dom, NEW N, NEW s, NEW lev, Leveled(w, G, Dom, N, s, lev),
         NEW r \in 0 .. N - 1, NEW d \in Dom, \A j \in 0 .. r : w[j][s][d] = 0
  PROVE  w[r + 1][s][d] = SumOver(FromLevel(w, G, Dom, s, r, d), Dom)
<1> DEFINE f == InEdges(G, Dom, w[r][s], d)
           g == FromLevel(w, G, Dom, s, r, d)
<1>1. /\ w[r + 1][s][d] = SumOver(f, Dom) /\ IsFiniteSet(Dom) /\ N \in Nat /\ s \in Dom
      /\ Counted(w, G, Dom, N) /\ \A j \in 0 .. N, x \in Dom : w[j][s][x] \in Nat
  BY DEF Leveled, Counted
<1>0. r \in 0 .. N
  BY <1>1
<1>2. NatOn(f, Dom) /\ \A x \in Dom : f[x] = IF <<x, d>> \in G THEN w[r][s][x] ELSE 0
  BY <1>0, <1>1, InEdgesAre
<1>3. ASSUME NEW x \in Dom, <<x, d>> \in G, w[r][s][x] > 0 PROVE Away(w, s, r, x)
  <2> SUFFICES ASSUME NEW i \in 0 .. r - 1 PROVE w[i][s][x] = 0
    BY <1>3 DEF Away
  <2>1. i \in 0 .. N - 1 /\ i \in 0 .. N /\ i + 1 \in 0 .. r
    BY <1>1
  <2>2. Lengthens(w, G, Dom, i, s, d)
    BY <1>1, <2>1, LastEdge
  <2>3. w[i + 1][s][d] = 0 /\ w[i][s][x] <= w[i + 1][s][d] /\ w[i][s][x] \in Nat
    BY <1>1, <1>3, <2>1, <2>2 DEF Lengthens
  <2> QED BY <2>3
<1>4. \A x \in Dom : g[x] = IF <<x, d>> \in G /\ Away(w, s, r, x) THEN w[r][s][x] ELSE 0
  BY DEF FromLevel
<1> HIDE DEF f, g
<1>5. ASSUME NEW x \in Dom PROVE f[x] = g[x]
  <2>1. w[r][s][x] \in Nat
    BY <1>0, <1>1
  <2>2. CASE <<x, d>> \in G /\ w[r][s][x] > 0
    BY <1>2, <1>3, <1>4, <2>2
  <2>3. CASE ~(<<x, d>> \in G /\ w[r][s][x] > 0)
    BY <1>2, <1>4, <2>1, <2>3
  <2> QED BY <2>2, <2>3
<1> QED BY <1>1, <1>2, <1>5, SumsAgree DEF g

\* What the nodes at or behind v's level, each of worth q, pass on to v.
Shares(w, Dom, Rch, lev, q, v) ==
  [t \in Dom |-> IF t \in Rch /\ lev[v] <= lev[t] THEN w[lev[t] - lev[v]][v][t] * q[t] ELSE 0]
Yield(w, Dom, Rch, lev, q, v) == SumOver(Shares(w, Dom, Rch, lev, q, v), Dom)

\* What the next level passes on, from the nodes in On.
OnShares(w, G, Dom, Rch, lev, q, v, On) ==
  [x \in Dom |-> IF <<v, x>> \in G /\ x \in On THEN Yield(w, Dom, Rch, lev, q, x) ELSE 0]
NextLevel(Rch, lev, v) == {x \in Rch : lev[x] = lev[v] + 1}

LEMMA SharesAreNat ==
  ASSUME NEW w, NEW G, NEW Dom, NEW N, NEW s, NEW lev, Leveled(w, G, Dom, N, s, lev), NEW q, NatOn(q, Dom),
         NEW v \in ReachedIn(w, Dom, N, s)
  PROVE  LET Rch == ReachedIn(w, Dom, N, s) IN
         /\ NatOn(Shares(w, Dom, Rch, lev, q, v), Dom) /\ Yield(w, Dom, Rch, lev, q, v) \in Nat
         /\ \A t \in Dom : t \in Rch /\ lev[v] <= lev[t] =>
                             lev[t] - lev[v] \in 0 .. N /\ w[lev[t] - lev[v]][v][t] \in Nat
<1> DEFINE Rch == ReachedIn(w, Dom, N, s)
           f == Shares(w, Dom, Rch, lev, q, v)
<1>1. \A t \in Rch : lev[t] \in 0 .. N /\ t \in Dom
  BY DEF Leveled
<1>2. \A j \in 0 .. N, u \in Dom, t \in Dom : w[j][u][t] \in Nat
  BY DEF Leveled
<1>7. IsFiniteSet(Dom) /\ N \in Nat
  BY DEF Leveled
<1> HIDE DEF Rch
<1>3. ASSUME NEW t \in Dom, t \in Rch, lev[v] <= lev[t]
      PROVE  lev[t] - lev[v] \in 0 .. N /\ w[lev[t] - lev[v]][v][t] \in Nat
  <2>1. v \in Rch
    BY DEF Rch
  <2>2. lev[t] - lev[v] \in 0 .. N
    BY <1>1, <1>3, <1>7, <2>1
  <2> QED BY <1>1, <1>2, <2>1, <2>2
<1>4. ASSUME NEW t \in Dom PROVE f[t] \in Nat
  <2>1. f[t] = IF t \in Rch /\ lev[v] <= lev[t] THEN w[lev[t] - lev[v]][v][t] * q[t] ELSE 0
    BY DEF Shares
  <2>2. q[t] \in Nat
    BY DEF NatOn
  <2>3. CASE t \in Rch /\ lev[v] <= lev[t]
    <3>1. w[lev[t] - lev[v]][v][t] \in Nat
      BY <1>3, <2>3
    <3>2. \A a, b \in Nat : a * b \in Nat
      OBVIOUS
    <3> HIDE DEF f
    <3> QED BY <2>1, <2>2, <2>3, <3>1, <3>2
  <2>4. CASE ~(t \in Rch /\ lev[v] <= lev[t])
    BY <2>1, <2>4
  <2> QED BY <2>3, <2>4
<1> HIDE DEF f
<1>5. NatOn(f, Dom)
  BY <1>4 DEF NatOn
<1>6. SumOver(f, Dom) \in Nat
  BY <1>5, <1>7, SumBounds
<1> QED BY <1>3, <1>5, <1>6 DEF Yield, f, Rch

\* A node passes on its worth and what the next level passes to it: each walk to a
\* farther node begins with an edge to the next level.
LEMMA ShareStep ==
  ASSUME NEW w, NEW G, NEW Dom, NEW N, NEW s, NEW lev, Leveled(w, G, Dom, N, s, lev), NEW q, NatOn(q, Dom),
         NEW v \in ReachedIn(w, Dom, N, s)
  PROVE  LET Rch == ReachedIn(w, Dom, N, s)
             On  == OnShares(w, G, Dom, Rch, lev, q, v, NextLevel(Rch, lev, v))
         IN  NatOn(On, Dom) /\ Yield(w, Dom, Rch, lev, q, v) = q[v] + SumOver(On, Dom)
<1> DEFINE Rch == ReachedIn(w, Dom, N, s)
           Next1 == NextLevel(Rch, lev, v)
           On == OnShares(w, G, Dom, Rch, lev, q, v, Next1)
           Of(x) == Shares(w, Dom, Rch, lev, q, x)
           F == [t \in Dom |-> [x \in Dom |-> IF <<v, x>> \in G /\ x \in Next1 THEN Of(x)[t] ELSE 0]]
           a == Rows(F, Dom, Dom)
           b == Columns(F, Dom, Dom)
           own == [t \in Dom |-> IF t = v THEN q[v] ELSE 0]
<1>1. /\ \A t \in Rch : /\ lev[t] \in 0 .. N /\ t \in Dom /\ w[lev[t]][s][t] > 0
                        /\ \A j \in 0 .. N : w[j][s][t] > 0 => lev[t] <= j
      /\ IsFiniteSet(Dom) /\ N \in Nat /\ v \in Rch /\ s \in Dom /\ Counted(w, G, Dom, N)
  BY DEF Leveled, Away
<1>2. \A j \in 0 .. N, u \in Dom, t \in Dom : w[j][u][t] \in Nat
  BY DEF Leveled
<1>3. \A x \in Rch : /\ NatOn(Of(x), Dom) /\ SumOver(Of(x), Dom) \in Nat
                     /\ Yield(w, Dom, Rch, lev, q, x) = SumOver(Of(x), Dom)
  BY SharesAreNat DEF Yield
<1>4. \A x \in Next1 : x \in Rch /\ lev[x] = lev[v] + 1
  BY DEF NextLevel
<1>5. \A x \in Dom, t \in Dom :
        Of(x)[t] = IF t \in Rch /\ lev[x] <= lev[t] THEN w[lev[t] - lev[x]][x][t] * q[t] ELSE 0
  BY DEF Shares
<1>6. \A t \in Dom : q[t] \in Nat
  BY DEF NatOn
<1>7. \A x \in Dom : <<v, x>> \in G => /\ lev[v] < N => x \in Rch
                                       /\ x \in Rch => lev[x] <= lev[v] + 1
  BY EdgeOn
<1>19. \A j \in 0 .. N - 1, u \in Dom, t \in Dom :
         w[j + 1][u][t] = SumOver(OutEdges(G, Dom, w[j], t, u), Dom)
  BY <1>1, FirstEdge
<1>14. \A x \in Rch : lev[x] = lev[v] + 1 => x \in Next1
  BY DEF NextLevel
<1> HIDE DEF Rch, Next1, Of
<1>8. \A t, x \in Dom : F[t][x] \in Nat
  <2> TAKE t, x \in Dom
  <2>1. F[t][x] = IF <<v, x>> \in G /\ x \in Next1 THEN Of(x)[t] ELSE 0
    OBVIOUS
  <2>2. x \in Next1 => Of(x)[t] \in Nat
    BY <1>3, <1>4 DEF NatOn
  <2> HIDE DEF F
  <2>3. CASE <<v, x>> \in G /\ x \in Next1
    BY <2>1, <2>2, <2>3
  <2>4. CASE ~(<<v, x>> \in G /\ x \in Next1)
    BY <2>1, <2>4
  <2> QED BY <2>3, <2>4
<1>9. ASSUME NEW t \in Dom PROVE Of(v)[t] = own[t] + a[t] /\ a[t] \in Nat /\ own[t] \in Nat
  <2> DEFINE p == [x \in Dom |-> F[t][x]]
  <2>1. a[t] = SumOver(p, Dom)
    BY DEF Rows
  <2>2. NatOn(p, Dom)
    BY <1>8 DEF NatOn
  <2>3. SumOver(p, Dom) \in Nat
    BY <1>1, <2>2, SumBounds
  <2>4. \A x \in Dom : p[x] = IF <<v, x>> \in G /\ x \in Next1 THEN Of(x)[t] ELSE 0
    OBVIOUS
  <2>5. own[t] = IF t = v THEN q[v] ELSE 0
    OBVIOUS
  <2>6. own[t] \in Nat
    BY <1>6, <2>5
  <2>7. Of(v)[t] = IF t \in Rch /\ lev[v] <= lev[t] THEN w[lev[t] - lev[v]][v][t] * q[t] ELSE 0
    BY <1>1, <1>5
  <2> HIDE DEF F, a, own, p
  <2>8. CASE ~(t \in Rch /\ lev[v] < lev[t])
    <3>1. \A x \in Dom : p[x] = 0
      <4> TAKE x \in Dom
      <4>1. CASE <<v, x>> \in G /\ x \in Next1
        <5>1. ~(t \in Rch /\ lev[x] <= lev[t])
          BY <1>1, <1>4, <2>8, <4>1
        <5>2. Of(x)[t] = 0
          BY <1>5, <5>1
        <5> QED BY <2>4, <4>1, <5>2
      <4>2. CASE ~(<<v, x>> \in G /\ x \in Next1)
        BY <2>4, <4>2
      <4> QED BY <4>1, <4>2
    <3>2. a[t] = 0
      <4>1. \A x \in Dom : p[x] \in Nat
        BY <2>2 DEF NatOn
      <4> QED BY <1>1, <2>1, <3>1, <4>1, SumOfZeros
    <3>3. Of(v)[t] = own[t]
      <4>1. CASE t \in Rch /\ lev[v] <= lev[t]
        <5>1. lev[t] - lev[v] = 0
          BY <1>1, <2>8, <4>1
        <5>2. w[0][v][t] = IF v = t THEN 1 ELSE 0
          BY <1>1 DEF Counted
        <5>3. Of(v)[t] = w[0][v][t] * q[t] /\ q[t] \in Nat
          BY <1>6, <2>7, <4>1, <5>1
        <5>4. CASE t = v
          <6>1. w[0][v][t] = 1
            BY <5>2, <5>4
          <6> QED BY <2>5, <5>3, <5>4, <6>1
        <5>5. CASE t # v
          <6>1. w[0][v][t] = 0
            BY <5>2, <5>5
          <6> QED BY <2>5, <5>3, <5>5, <6>1
        <5> QED BY <5>4, <5>5
      <4>2. CASE ~(t \in Rch /\ lev[v] <= lev[t])
        <5>1. t # v
          BY <1>1, <4>2
        <5> QED BY <2>5, <2>7, <4>2, <5>1
      <4> QED BY <4>1, <4>2
    <3> QED BY <2>6, <3>2, <3>3
  <2>9. CASE t \in Rch /\ lev[v] < lev[t]
    <3> DEFINE k == (lev[t] - lev[v]) - 1
               o == OutEdges(G, Dom, w[k], t, v)
    <3>1. /\ k \in 0 .. N - 1 /\ k \in 0 .. N /\ lev[t] - lev[v] = k + 1 /\ lev[v] < N
          /\ v \in Dom /\ N \in Nat
      BY <1>1, <2>9
    <3>3. \A x \in Dom : o[x] = IF <<v, x>> \in G THEN w[k][x][t] ELSE 0
      BY DEF OutEdges
    <3>11. k = (lev[t] - lev[v]) - 1
      OBVIOUS
    <3>12. o = OutEdges(G, Dom, w[k], t, v)
      OBVIOUS
    <3> HIDE DEF o, k
    <3>2. w[k + 1][v][t] = SumOver(o, Dom)
      BY <1>19, <3>1, <3>12
    <3>4. NatOn(o, Dom)
      <4>1. ASSUME NEW x \in Dom PROVE o[x] \in Nat
        <5>0. k \in 0 .. N
          BY <3>1
        <5>1. w[k][x][t] \in Nat
          BY <1>2, <5>0
        <5>2. o[x] = 0 \/ o[x] = w[k][x][t]
          BY <3>3
        <5> QED BY <5>1, <5>2
      <4> QED BY <4>1 DEF NatOn
    <3>5. ASSUME NEW x \in Dom PROVE p[x] = o[x] * q[t]
      <4>0. w[k][x][t] \in Nat /\ q[t] \in Nat /\ \A c \in Nat : 0 * c = 0
        BY <1>2, <1>6, <3>1
      <4>1. CASE <<v, x>> \notin G
        <5>1. p[x] = 0 /\ o[x] = 0
          BY <2>4, <3>3, <4>1
        <5> QED BY <4>0, <5>1
      <4>2. CASE <<v, x>> \in G /\ x \in Next1
        <5>1. lev[x] = lev[v] + 1 /\ lev[x] \in Int /\ lev[v] \in Int /\ lev[t] \in Int
          BY <1>1, <1>4, <2>9, <4>2
        <5>2. lev[x] <= lev[t] /\ lev[t] - lev[x] = k
          BY <2>9, <3>11, <5>1
        <5>3. Of(x)[t] = w[k][x][t] * q[t]
          BY <1>5, <2>9, <5>2
        <5>4. p[x] = Of(x)[t] /\ o[x] = w[k][x][t]
          BY <2>4, <3>3, <4>2
        <5> QED BY <5>3, <5>4
      <4>3. CASE <<v, x>> \in G /\ x \notin Next1
        <5>1. ASSUME w[k][x][t] # 0 PROVE FALSE
          <6>1. w[k][x][t] > 0
            BY <4>0, <5>1
          <6>2. x \in Rch /\ lev[x] <= lev[v] + 1
            BY <1>7, <3>1, <4>3
          <6>3. lev[x] \in 0 .. N /\ w[lev[x]][s][x] > 0 /\ lev[t] \in 0 .. N /\ lev[v] \in 0 .. N
            BY <1>1, <2>9, <6>2
          <6>4. lev[x] + k <= lev[t] /\ lev[x] + k <= N /\ lev[x] + k \in 0 .. N
            BY <3>1, <3>11, <6>2, <6>3
          <6>5. w[lev[x] + k][s][t] > 0
            BY <1>1, <3>1, <6>1, <6>3, <6>4, WalksJoin
          <6>6. lev[t] <= lev[x] + k
            BY <1>1, <2>9, <6>4, <6>5
          <6>7. lev[x] = lev[v] + 1
            BY <3>11, <6>2, <6>3, <6>6
          <6> QED BY <1>14, <4>3, <6>2, <6>7
        <5>2. p[x] = 0 /\ o[x] = 0
          BY <2>4, <3>3, <4>3, <5>1
        <5> QED BY <4>0, <5>2
      <4> QED BY <4>1, <4>2, <4>3
    <3>6. q[t] \in Nat
      BY <1>6
    <3>7. SumOver(p, Dom) = SumOver(o, Dom) * q[t]
      BY <1>1, <3>4, <3>5, <3>6, SumsTimes
    <3>8. Of(v)[t] = w[k + 1][v][t] * q[t]
      <4>1. lev[v] <= lev[t]
        BY <1>1, <2>9
      <4> QED BY <2>7, <2>9, <3>1, <4>1
    <3>9. own[t] = 0
      BY <1>1, <2>5, <2>9
    <3> QED BY <2>1, <2>3, <3>2, <3>7, <3>8, <3>9
  <2> QED BY <2>1, <2>3, <2>6, <2>8, <2>9
<1>10. ASSUME NEW x \in Dom PROVE b[x] = On[x] /\ b[x] \in Nat
  <2> DEFINE p == [t \in Dom |-> F[t][x]]
  <2>1. b[x] = SumOver(p, Dom)
    BY DEF Columns
  <2>2. \A t \in Dom : p[t] = IF <<v, x>> \in G /\ x \in Next1 THEN Of(x)[t] ELSE 0
    OBVIOUS
  <2>3. NatOn(p, Dom)
    BY <1>8 DEF NatOn
  <2>4. On[x] = IF <<v, x>> \in G /\ x \in Next1 THEN Yield(w, Dom, Rch, lev, q, x) ELSE 0
    BY DEF OnShares
  <2> HIDE DEF F, b, On, p
  <2>5. CASE <<v, x>> \in G /\ x \in Next1
    <3>1. \A t \in Dom : p[t] = Of(x)[t]
      BY <2>2, <2>5
    <3>2. SumOver(p, Dom) = SumOver(Of(x), Dom)
      BY <1>1, <2>3, <3>1, SumsAgree
    <3> QED BY <1>3, <1>4, <2>1, <2>4, <2>5, <3>2
  <2>6. CASE ~(<<v, x>> \in G /\ x \in Next1)
    <3>1. \A t \in Dom : p[t] = 0 /\ p[t] \in Nat
      BY <2>2, <2>6
    <3>2. SumOver(p, Dom) = 0
      BY <1>1, <3>1, SumOfZeros
    <3> QED BY <2>1, <2>4, <2>6, <3>2
  <2> QED BY <2>5, <2>6
<1>11. \A t \in Dom : own[t] \in Nat /\ (t # v => own[t] = 0) /\ (t = v => own[t] = q[v])
  BY <1>6
<1> HIDE DEF F, a, b, own, On
<1>12. SumOver(Of(v), Dom) = SumOver(own, Dom) + SumOver(a, Dom)
  <2>1. NatOn(own, Dom) /\ NatOn(a, Dom)
    BY <1>9 DEF NatOn
  <2> QED BY <1>1, <1>9, <2>1, SumsPlus
<1>13. SumOver(own, Dom) = q[v]
  <2>1. NatOn(own, Dom) /\ v \in Dom /\ own[v] = q[v]
    BY <1>1, <1>11 DEF NatOn
  <2> QED BY <1>1, <1>11, <2>1, SumOfOne
<1>15. SumOver(a, Dom) = SumOver(b, Dom)
  BY <1>1, <1>8, SumsSwap DEF a, b
<1>16. NatOn(On, Dom) /\ NatOn(b, Dom)
  BY <1>10 DEF NatOn
<1>17. SumOver(b, Dom) = SumOver(On, Dom)
  BY <1>1, <1>10, <1>16, SumsAgree
<1>18. Yield(w, Dom, Rch, lev, q, v) = q[v] + SumOver(On, Dom)
  BY <1>1, <1>3, <1>12, <1>13, <1>15, <1>17
<1> QED BY <1>16, <1>18 DEF On, Rch, Next1

\* Without the worth of v itself.
LEMMA ShareWithoutOwn ==
  ASSUME NEW w, NEW G, NEW Dom, NEW N, NEW s, NEW lev, Leveled(w, G, Dom, N, s, lev),
         NEW q, NatOn(q, Dom), NEW p, NatOn(p, Dom),
         NEW v \in ReachedIn(w, Dom, N, s), p[v] = 0, \A t \in Dom : t # v => p[t] = q[t]
  PROVE  LET Rch == ReachedIn(w, Dom, N, s)
         IN  Yield(w, Dom, Rch, lev, p, v) = Yield(w, Dom, Rch, lev, q, v) - q[v]
<1> DEFINE Rch == ReachedIn(w, Dom, N, s)
           f == Shares(w, Dom, Rch, lev, q, v)
           g == Shares(w, Dom, Rch, lev, p, v)
<1>1. /\ lev[v] \in 0 .. N /\ v \in Dom /\ v \in Rch /\ IsFiniteSet(Dom) /\ N \in Nat
      /\ w[0][v][v] = 1
  BY DEF Leveled, Counted
<1>2. NatOn(f, Dom) /\ NatOn(g, Dom)
  BY SharesAreNat
<1>3. \A t \in Dom : /\ f[t] = IF t \in Rch /\ lev[v] <= lev[t] THEN w[lev[t] - lev[v]][v][t] * q[t] ELSE 0
                     /\ g[t] = IF t \in Rch /\ lev[v] <= lev[t] THEN w[lev[t] - lev[v]][v][t] * p[t] ELSE 0
  BY DEF Shares
<1> HIDE DEF f, g, Rch
<1>4. f[v] = q[v] /\ g[v] = 0
  <2>1. lev[v] <= lev[v] /\ lev[v] - lev[v] = 0
    BY <1>1
  <2>2. f[v] = w[0][v][v] * q[v] /\ g[v] = w[0][v][v] * p[v]
    BY <1>1, <1>3, <2>1
  <2>3. q[v] \in Nat
    BY <1>1 DEF NatOn
  <2>4. f[v] = 1 * q[v] /\ g[v] = 1 * 0
    BY <1>1, <2>2
  <2> QED BY <2>3, <2>4
<1>5. ChangesAt(Dom, f, g, v)
  <2>1. \A t \in Dom : f[t] \in Nat /\ g[t] \in Nat
    BY <1>2 DEF NatOn
  <2>2. \A t \in Dom : t # v => g[t] = f[t]
    BY <1>3
  <2> QED BY <1>1, <2>1, <2>2 DEF ChangesAt
<1>6. SumOver(g, Dom) = SumOver(f, Dom) - f[v] + g[v]
  BY <1>5, SumChangesAt
<1>7. SumOver(f, Dom) \in Nat /\ q[v] \in Nat
  BY <1>1, <1>2, SumBounds DEF NatOn
<1>8. SumOver(g, Dom) = SumOver(f, Dom) - q[v]
  BY <1>4, <1>6, <1>7
<1> QED BY <1>8 DEF Yield, f, g, Rch

LEMMA MultipleDiv == \A a \in Nat, b \in Nat : b # 0 => (a * b) \div b = a
OBVIOUS

LEMMA ProductsSwap ==
  ASSUME NEW a \in Nat, NEW b \in Nat, NEW c \in Nat, NEW d \in Nat
  PROVE  /\ (a * b) * (c * d) = ((d * a) * c) * b
         /\ a * b \in Nat /\ a * b = b * a
OBVIOUS

\* Shortest paths through v, in terms of the levels.
LEMMA ThroughIs ==
  ASSUME NEW w, NEW G, NEW Dom, NEW N, NEW s, NEW lev, Leveled(w, G, Dom, N, s, lev),
         NEW v \in ReachedIn(w, Dom, N, s), NEW t \in ReachedIn(w, Dom, N, s)
  PROVE  ThroughIn(w, Dom, N, s, v, t) =
           IF lev[v] <= lev[t] THEN w[lev[v]][s][v] * w[lev[t] - lev[v]][v][t] ELSE 0
<1> DEFINE d == DistIn(w, N, v, t)
           Rch == ReachedIn(w, Dom, N, s)
<1>1. /\ lev[v] \in 0 .. N /\ lev[t] \in 0 .. N /\ v \in Dom /\ t \in Dom /\ N \in Nat /\ s \in Dom
      /\ lev[v] = DistIn(w, N, s, v) /\ lev[t] = DistIn(w, N, s, t) /\ w[lev[v]][s][v] > 0
      /\ Counted(w, G, Dom, N) /\ IsFiniteSet(Dom) /\ CountedNat(w, Dom, N)
      /\ \A j \in 0 .. N : w[j][s][t] > 0 => lev[t] <= j
  BY DEF Leveled, Away, CountedNat
<1>2. \A j \in 0 .. N, u \in Dom, x \in Dom : w[j][u][x] \in Nat
  BY DEF Leveled
<1>3. PathsIn(w, Dom, N, s, v) = w[lev[v]][s][v]
  BY <1>1 DEF PathsIn
<1>7. \A a \in Nat : a * 0 = 0
  OBVIOUS
<1>8. w[lev[v]][s][v] \in Nat
  BY <1>1, <1>2
<1>4. CASE t \notin ReachedIn(w, Dom, N, v)
  <2>1. \A j \in 0 .. N : w[j][v][t] = 0
    BY <1>1, <1>2, <1>4 DEF ReachedIn
  <2>2. ThroughIn(w, Dom, N, s, v, t) = 0
    BY <1>4 DEF ThroughIn
  <2>3. CASE lev[v] <= lev[t]
    <3>1. lev[t] - lev[v] \in 0 .. N
      BY <1>1, <2>3
    <3>2. w[lev[t] - lev[v]][v][t] = 0
      BY <2>1, <3>1
    <3> QED BY <1>7, <1>8, <2>2, <2>3, <3>2
  <2> QED BY <2>2, <2>3
<1>5. CASE t \in ReachedIn(w, Dom, N, v)
  <2>1. /\ d \in 0 .. N /\ w[d][v][t] > 0
        /\ \A j \in 0 .. N : w[j][v][t] > 0 => d <= j
    BY <1>1, <1>5, DistIs DEF Away
  <2>2. PathsIn(w, Dom, N, v, t) = w[d][v][t]
    BY <1>5 DEF PathsIn
  <2>3. ThroughIn(w, Dom, N, s, v, t) = IF lev[t] = lev[v] + d THEN w[lev[v]][s][v] * w[d][v][t] ELSE 0
    BY <1>1, <1>3, <1>5, <2>2 DEF ThroughIn
  <2> HIDE DEF d
  <2>4. CASE lev[t] = lev[v] + d
    <3>1. lev[v] <= lev[t] /\ lev[t] - lev[v] = d
      BY <1>1, <2>1, <2>4
    <3> QED BY <2>3, <2>4, <3>1
  <2>5. CASE lev[t] # lev[v] + d
    <3>1. ASSUME lev[v] <= lev[t] PROVE w[lev[t] - lev[v]][v][t] = 0
      <4>1. lev[t] - lev[v] \in 0 .. N
        BY <1>1, <3>1
      <4>2. SUFFICES ASSUME w[lev[t] - lev[v]][v][t] # 0 PROVE FALSE
        OBVIOUS
      <4>3. w[lev[t] - lev[v]][v][t] \in Nat
        BY <1>1, <1>2, <4>1
      <4>4. d <= lev[t] - lev[v]
        BY <2>1, <4>1, <4>2, <4>3
      <4>5. lev[v] + d <= lev[t] /\ lev[v] + d <= N /\ lev[v] + d \in 0 .. N
        BY <1>1, <2>1, <4>4
      <4>6. w[lev[v] + d][s][t] > 0
        BY <1>1, <2>1, <4>5, WalksJoin
      <4>7. lev[t] <= lev[v] + d
        BY <1>1, <4>5, <4>6
      <4> QED BY <1>1, <2>1, <2>5, <4>5, <4>7
    <3>2. CASE lev[v] <= lev[t]
      BY <1>7, <1>8, <2>3, <2>5, <3>1, <3>2
    <3>3. CASE ~(lev[v] <= lev[t])
      BY <2>3, <2>5, <3>3
    <3> QED BY <3>2, <3>3
  <2> QED BY <2>4, <2>5
<1> QED BY <1>4, <1>5

\* The dependency of v on the nodes of U.
PathShares(w, Dom, N, s, v, Unit, U) ==
  [t \in U |-> (Unit * ThroughIn(w, Dom, N, s, v, t)) \div PathsIn(w, Dom, N, s, t)]

LEMMA SharesOfPaths ==
  ASSUME NEW w, NEW G, NEW Dom, NEW N, NEW s, NEW lev, Leveled(w, G, Dom, N, s, lev), NEW q, NatOn(q, Dom),
         NEW v \in ReachedIn(w, Dom, N, s), NEW U \in SUBSET ReachedIn(w, Dom, N, s), NEW Unit \in Nat,
         \A t \in U : Unit = q[t] * PathsIn(w, Dom, N, s, t), \A t \in Dom \ U : q[t] = 0
  PROVE  Yield(w, Dom, ReachedIn(w, Dom, N, s), lev, q, v) * w[lev[v]][s][v] =
           SumOver(PathShares(w, Dom, N, s, v, Unit, U), U)
<1> DEFINE Rch == ReachedIn(w, Dom, N, s)
           f == Shares(w, Dom, Rch, lev, q, v)
           c == w[lev[v]][s][v]
           h == [t \in Dom |-> f[t] * c]
           g == PathShares(w, Dom, N, s, v, Unit, U)
<1>1. /\ IsFiniteSet(Dom) /\ N \in Nat /\ s \in Dom
      /\ \A t \in Rch : t \in Dom /\ lev[t] \in 0 .. N /\ w[lev[t]][s][t] > 0 /\ lev[t] = DistIn(w, N, s, t)
  BY DEF Leveled, Away
<1>2. \A j \in 0 .. N, u \in Dom, x \in Dom : w[j][u][x] \in Nat
  BY DEF Leveled
<1>3. v \in Rch /\ c \in Nat
  BY <1>1, <1>2
<1>4. /\ NatOn(f, Dom)
      /\ \A t \in Dom : t \in Rch /\ lev[v] <= lev[t] =>
           lev[t] - lev[v] \in 0 .. N /\ w[lev[t] - lev[v]][v][t] \in Nat
  BY SharesAreNat
<1>5. \A t \in Dom : f[t] = IF t \in Rch /\ lev[v] <= lev[t] THEN w[lev[t] - lev[v]][v][t] * q[t] ELSE 0
  BY DEF Shares
<1>6. \A t \in Rch : PathsIn(w, Dom, N, s, t) = w[lev[t]][s][t]
  BY <1>1 DEF PathsIn
<1>7. \A t \in Rch : ThroughIn(w, Dom, N, s, v, t) =
                       IF lev[v] <= lev[t] THEN c * w[lev[t] - lev[v]][v][t] ELSE 0
  BY ThroughIs
<1>8. \A t \in U : g[t] = (Unit * ThroughIn(w, Dom, N, s, v, t)) \div PathsIn(w, Dom, N, s, t)
  BY DEF PathShares
<1>9. \A t \in Dom : h[t] = f[t] * c
  OBVIOUS
<1>0. U \in SUBSET Dom /\ \A t \in U : t \in Rch
  BY <1>1
<1> HIDE DEF Rch, f, c, h, g
<1>10. ASSUME NEW t \in U PROVE h[t] = g[t]
  <2> DEFINE p == w[lev[t]][s][t]
             m == w[lev[t] - lev[v]][v][t]
  <2>1. t \in Dom /\ t \in Rch /\ p \in Nat /\ p # 0 /\ q[t] \in Nat /\ Unit = q[t] * p
    <3>1. p \in Nat /\ p > 0
      BY <1>0, <1>1, <1>2
    <3>2. Unit = q[t] * p
      BY <1>0, <1>6
    <3> QED BY <1>0, <3>1, <3>2 DEF NatOn
  <2>2. g[t] = (Unit * ThroughIn(w, Dom, N, s, v, t)) \div p
    BY <1>6, <1>8, <2>1
  <2>3. lev[v] <= lev[t] => m \in Nat
    BY <1>4, <2>1
  <2>4. ThroughIn(w, Dom, N, s, v, t) = IF lev[v] <= lev[t] THEN c * m ELSE 0
    BY <1>7, <2>1
  <2>5. f[t] = IF lev[v] <= lev[t] THEN m * q[t] ELSE 0
    BY <1>5, <2>1
  <2> HIDE DEF p, m
  <2>6. CASE lev[v] <= lev[t]
    <3>1. m \in Nat /\ c \in Nat
      BY <1>3, <2>3, <2>6
    <3>2. (q[t] * p) * (c * m) = ((m * q[t]) * c) * p
      BY <2>1, <3>1, ProductsSwap
    <3>3. (m * q[t]) * c \in Nat
      BY <2>1, <3>1, ProductsSwap
    <3>4. (((m * q[t]) * c) * p) \div p = (m * q[t]) * c
      BY <2>1, <3>3, MultipleDiv
    <3>5. g[t] = ((q[t] * p) * (c * m)) \div p
      BY <2>1, <2>2, <2>4, <2>6
    <3>6. h[t] = (m * q[t]) * c
      BY <1>9, <2>1, <2>5, <2>6
    <3> QED BY <3>2, <3>4, <3>5, <3>6
  <2>7. CASE ~(lev[v] <= lev[t])
    <3>1. Unit * 0 = 0 * p /\ 0 * c = 0
      BY <1>3, <2>1
    <3>2. (0 * p) \div p = 0
      BY <2>1, MultipleDiv
    <3>3. g[t] = (Unit * 0) \div p
      BY <2>2, <2>4, <2>7
    <3>4. h[t] = 0
      BY <1>9, <2>1, <2>5, <2>7, <3>1
    <3> QED BY <3>1, <3>2, <3>3, <3>4
  <2> QED BY <2>6, <2>7
<1>11. ASSUME NEW t \in Dom \ U PROVE h[t] = 0
  <2>1. f[t] = 0
    <3>1. q[t] = 0
      OBVIOUS
    <3>2. CASE t \in Rch /\ lev[v] <= lev[t]
      <4>1. w[lev[t] - lev[v]][v][t] \in Nat
        BY <1>4, <3>2
      <4>2. \A a \in Nat : a * 0 = 0
        OBVIOUS
      <4> QED BY <1>5, <3>1, <3>2, <4>1, <4>2
    <3> QED BY <1>5, <3>2
  <2> QED BY <1>3, <1>9, <2>1
<1>12. NatOn(h, Dom)
  <2> SUFFICES ASSUME NEW t \in Dom PROVE h[t] \in Nat
    BY DEF NatOn
  <2>1. f[t] \in Nat
    BY <1>4 DEF NatOn
  <2>2. \A a, b \in Nat : a * b \in Nat
    OBVIOUS
  <2>3. f[t] * c \in Nat
    BY <1>3, <2>1, <2>2, Zenon
  <2> QED BY <1>9, <2>3
<1>13. SumOver(h, Dom) = SumOver(g, U)
  BY <1>0, <1>1, <1>10, <1>11, <1>12, SumsRestrict
<1>14. SumOver(h, Dom) = SumOver(f, Dom) * c
  BY <1>1, <1>3, <1>4, <1>9, SumsTimes
<1>15. SumOver(f, Dom) * c = SumOver(g, U)
  BY <1>13, <1>14
<1> QED BY <1>15 DEF Yield, f, c, g, Rch

-----------------------------------------------------------------------------
(* What the two programs need to know of a graph: the nodes Rch that are   *)
(* reached from s, with their levels lev and path counts sg; and values    *)
(* rho that nodes of worth q pass back to the level before.                *)
LevelSet(Rch, lev, j) == {v \in Rch : lev[v] = j}
Incoming(G, Dom, S, sg, d) == [x \in Dom |-> IF <<x, d>> \in G /\ x \in S THEN sg[x] ELSE 0]
Outgoing(G, Dom, S, rho, v) == [x \in Dom |-> IF <<v, x>> \in G /\ x \in S THEN rho[x] ELSE 0]

Ranked(G, Dom, s, Rch, lev, sg) ==
  /\ IsFiniteSet(Dom) /\ Rch \subseteq Dom /\ s \in Rch /\ lev[s] = 0 /\ sg[s] = 1
  /\ Cardinality(Dom) \in Nat
  /\ \A v \in Rch : /\ lev[v] \in Nat /\ lev[v] < Cardinality(Dom) /\ sg[v] \in Nat /\ sg[v] > 0
                    /\ lev[v] = 0 => v = s
                    /\ \A j \in 0 .. lev[v] : LevelSet(Rch, lev, j) # {}
  /\ \A v \in Rch, x \in Dom : <<v, x>> \in G => x \in Rch /\ lev[x] <= lev[v] + 1
  /\ \A r \in Nat, d \in Dom : r < Cardinality(Dom) /\ (d \in Rch => r < lev[d]) =>
       /\ d \in Rch /\ lev[d] = r + 1 => sg[d] = SumOver(Incoming(G, Dom, LevelSet(Rch, lev, r), sg, d), Dom)
       /\ ~(d \in Rch /\ lev[d] = r + 1) => SumOver(Incoming(G, Dom, LevelSet(Rch, lev, r), sg, d), Dom) = 0

Passed(G, Dom, Rch, lev, q, rho) ==
  /\ NatOn(q, Rch) /\ NatOn(rho, Rch)
  /\ \A v \in Rch :
       rho[v] = q[v] + SumOver(Outgoing(G, Dom, LevelSet(Rch, lev, lev[v] + 1), rho, v), Dom)

CountsOf(w, Dom, s, lev) == [v \in Dom |-> w[lev[v]][s][v]]
SharesOf(w, Dom, Rch, lev, q) == [v \in Dom |-> Yield(w, Dom, Rch, lev, q, v)]

\* A node of a level has one of every level before it, so there are no more levels than nodes.
LEMMA LevelsAreFew ==
  ASSUME NEW w, NEW G, NEW Dom, NEW N, NEW s, NEW lev, Leveled(w, G, Dom, N, s, lev),
         N = Cardinality(Dom), NEW v \in ReachedIn(w, Dom, N, s)
  PROVE  /\ lev[v] < N
         /\ \A j \in 0 .. lev[v] : LevelSet(ReachedIn(w, Dom, N, s), lev, j) # {}
<1> DEFINE Rch == ReachedIn(w, Dom, N, s)
           k == lev[v]
           Good == {j \in Nat : j <= k => \E x \in Rch : lev[x] = k - j}
<1>1. /\ IsFiniteSet(Dom) /\ N \in Nat /\ s \in Dom /\ Counted(w, G, Dom, N)
      /\ \A x \in Rch : x \in Dom /\ lev[x] \in 0 .. N /\ w[lev[x]][s][x] > 0
      /\ \A j \in 0 .. N, x \in Dom : w[j][s][x] > 0 => x \in Rch
      /\ \A x \in Rch, j \in 0 .. N : w[j][s][x] > 0 => lev[x] <= j
      /\ v \in Rch /\ k \in 0 .. N
  BY DEF Leveled, Away
<1>2. \A x \in Rch, y \in Rch : <<x, y>> \in G => lev[y] <= lev[x] + 1
  BY <1>1, EdgeOn
<1> HIDE DEF Rch, k
<1>3. 0 \in Good
  BY <1>1 DEF k
<1>4. ASSUME NEW j \in Nat, j \in Good PROVE j + 1 \in Good
  <2> SUFFICES ASSUME j + 1 <= k PROVE \E x \in Rch : lev[x] = k - (j + 1)
    OBVIOUS
  <2>1. PICK y \in Rch : lev[y] = k - j
    BY <1>1, <1>4
  <2> DEFINE l == k - (j + 1)
  <2>2. l \in 0 .. N - 1 /\ l \in 0 .. N /\ lev[y] = l + 1 /\ y \in Dom
    BY <1>1, <2>1
  <2> HIDE DEF l
  <2>3. Lengthens(w, G, Dom, l, s, y)
    BY <1>1, <2>2, LastEdge
  <2>4. w[l + 1][s][y] > 0
    BY <1>1, <2>2
  <2>5. PICK x \in Dom : <<x, y>> \in G /\ w[l][s][x] > 0
    BY <2>3, <2>4 DEF Lengthens
  <2>6. x \in Rch /\ lev[x] <= l
    BY <1>1, <2>2, <2>5
  <2>7. lev[x] \in 0 .. N /\ l + 1 <= lev[x] + 1
    BY <1>1, <1>2, <2>2, <2>5, <2>6
  <2>8. lev[x] = l
    BY <2>2, <2>6, <2>7
  <2> QED BY <2>6, <2>8 DEF l
<1> HIDE DEF Good
<1>5. Nat \subseteq Good
  BY <1>3, <1>4, SetInduction
<1>6. ASSUME NEW j \in 0 .. k PROVE \E x \in Rch : lev[x] = j
  <2>1. k - j \in Nat /\ k - j <= k /\ k - (k - j) = j
    BY <1>1
  <2> QED BY <1>5, <2>1 DEF Good
<1>7. \A j \in 0 .. k : LevelSet(Rch, lev, j) # {}
  BY <1>6 DEF LevelSet
<1>8. k < N
  <2> DEFINE Few == {x \in Rch : lev[x] <= k}
             f == [x \in Few |-> lev[x]]
  <2>1. Few \subseteq Dom /\ IsFiniteSet(Few) /\ Cardinality(Few) <= N /\ Cardinality(Few) \in Nat
    <3>1. Few \subseteq Dom
      BY <1>1
    <3> QED BY <1>1, <3>1, FS_Subset, FS_CardinalityType
  <2>2. f \in Surjection(Few, 0 .. k)
    <3>1. f \in [Few -> 0 .. k]
      BY <1>1
    <3>2. \A j \in 0 .. k : \E x \in Few : f[x] = j
      <4> TAKE j \in 0 .. k
      <4>1. PICK x \in Rch : lev[x] = j
        BY <1>6
      <4>2. x \in Few /\ f[x] = j
        BY <1>1, <4>1
      <4> QED BY <4>2
    <3> QED BY <3>1, <3>2 DEF Surjection
  <2> HIDE DEF f, Few
  <2>3. Cardinality(0 .. k) <= Cardinality(Few)
    BY <2>1, <2>2, FS_Surjection
  <2>4. Cardinality(0 .. k) = k + 1
    BY <1>1, FS_Interval
  <2> QED BY <1>1, <2>1, <2>3, <2>4
<1> QED BY <1>7, <1>8 DEF Rch, k

LEMMA TablesRank ==
  ASSUME NEW w, NEW G, NEW Dom, NEW N, NEW s, NEW lev, Leveled(w, G, Dom, N, s, lev), N = Cardinality(Dom)
  PROVE  Ranked(G, Dom, s, ReachedIn(w, Dom, N, s), lev, CountsOf(w, Dom, s, lev))
<1> DEFINE Rch == ReachedIn(w, Dom, N, s)
           sg == CountsOf(w, Dom, s, lev)
<1>1. /\ IsFiniteSet(Dom) /\ N \in Nat /\ s \in Dom /\ Counted(w, G, Dom, N)
      /\ \A x \in Rch : x \in Dom /\ lev[x] \in 0 .. N /\ Away(w, s, lev[x], x)
      /\ \A j \in 0 .. N, x \in Dom : w[j][s][x] > 0 => x \in Rch
      /\ \A x \in Rch, j \in 0 .. N : w[j][s][x] > 0 => lev[x] <= j
      /\ \A x \in Rch, j \in 0 .. N : Away(w, s, j, x) => lev[x] = j
  BY DEF Leveled
<1>2. \A j \in 0 .. N, u \in Dom, v \in Dom : w[j][u][v] \in Nat
  BY DEF Leveled
<1>3. \A u, v \in Dom : w[0][u][v] = IF u = v THEN 1 ELSE 0
  BY <1>1 DEF Counted
<1>4. \A v \in Dom : sg[v] = w[lev[v]][s][v]
  BY DEF CountsOf
<1>5. \A v \in Rch : lev[v] < N /\ \A j \in 0 .. lev[v] : LevelSet(Rch, lev, j) # {}
  BY LevelsAreFew
<1>6. \A v \in Rch, x \in Dom : <<v, x>> \in G => (lev[v] < N => x \in Rch) /\ (x \in Rch => lev[x] <= lev[v] + 1)
  BY EdgeOn
<1>7. \A r \in 0 .. N - 1, d \in Dom : (\A j \in 0 .. r : w[j][s][d] = 0) =>
        w[r + 1][s][d] = SumOver(FromLevel(w, G, Dom, s, r, d), Dom)
  BY NextCounts
<1> HIDE DEF Rch, sg
<1>8. s \in Rch /\ lev[s] = 0 /\ sg[s] = 1
  <2>1. 0 \in 0 .. N /\ w[0][s][s] = 1
    BY <1>1, <1>3
  <2>2. s \in Rch /\ lev[s] <= 0
    BY <1>1, <2>1
  <2>3. lev[s] = 0
    BY <1>1, <2>2
  <2> QED BY <1>1, <1>4, <2>1, <2>2, <2>3
<1>9. ASSUME NEW v \in Rch
      PROVE  /\ lev[v] \in Nat /\ sg[v] \in Nat /\ sg[v] > 0 /\ (lev[v] = 0 => v = s) /\ v \in Dom
  <2>1. v \in Dom /\ lev[v] \in 0 .. N /\ w[lev[v]][s][v] > 0
    BY <1>1 DEF Away
  <2>2. w[lev[v]][s][v] \in Nat
    BY <1>1, <1>2, <2>1
  <2>3. lev[v] = 0 => v = s
    BY <1>1, <1>3, <2>1
  <2> QED BY <1>1, <1>4, <2>1, <2>2, <2>3
<1>10. ASSUME NEW r \in Nat, NEW d \in Dom, r < N, d \in Rch => r < lev[d]
       PROVE  /\ d \in Rch /\ lev[d] = r + 1 =>
                   sg[d] = SumOver(Incoming(G, Dom, LevelSet(Rch, lev, r), sg, d), Dom)
              /\ ~(d \in Rch /\ lev[d] = r + 1) =>
                   SumOver(Incoming(G, Dom, LevelSet(Rch, lev, r), sg, d), Dom) = 0
  <2> DEFINE f == Incoming(G, Dom, LevelSet(Rch, lev, r), sg, d)
             g == FromLevel(w, G, Dom, s, r, d)
  <2>0. r \in 0 .. N - 1 /\ r \in 0 .. N /\ r + 1 \in 0 .. N
    BY <1>1, <1>10
  <2>1. ASSUME NEW j \in 0 .. r PROVE w[j][s][d] = 0
    <3>1. j \in 0 .. N /\ w[j][s][d] \in Nat
      BY <1>1, <1>2, <2>0
    <3>2. ~(w[j][s][d] > 0)
      <4> SUFFICES ASSUME w[j][s][d] > 0 PROVE FALSE
        OBVIOUS
      <4>1. d \in Rch /\ lev[d] <= j /\ lev[d] \in 0 .. N
        BY <1>1, <3>1
      <4> QED BY <1>10, <2>0, <4>1
    <3> QED BY <3>1, <3>2
  <2>2. w[r + 1][s][d] = SumOver(g, Dom)
    BY <1>7, <2>0, <2>1
  <2>3. \A x \in Dom : /\ f[x] = IF <<x, d>> \in G /\ x \in LevelSet(Rch, lev, r) THEN sg[x] ELSE 0
                       /\ g[x] = IF <<x, d>> \in G /\ Away(w, s, r, x) THEN w[r][s][x] ELSE 0
    BY DEF Incoming, FromLevel
  <2> HIDE DEF f, g
  <2>4. ASSUME NEW x \in Dom PROVE f[x] = g[x] /\ g[x] \in Nat
    <3>1. w[r][s][x] \in Nat
      BY <1>1, <1>2, <2>0
    <3>2. x \in LevelSet(Rch, lev, r) <=> Away(w, s, r, x)
      <4>1. ASSUME Away(w, s, r, x) PROVE x \in Rch /\ lev[x] = r
        <5>1. x \in Rch
          BY <1>1, <2>0, <4>1 DEF Away
        <5> QED BY <1>1, <2>0, <4>1, <5>1
      <4>2. ASSUME x \in Rch, lev[x] = r PROVE Away(w, s, r, x)
        BY <1>1, <4>2
      <4> QED BY <4>1, <4>2 DEF LevelSet
    <3>3. x \in LevelSet(Rch, lev, r) => sg[x] = w[r][s][x]
      BY <1>4 DEF LevelSet
    <3>4. f[x] = g[x]
      BY <2>3, <3>2, <3>3
    <3>5. g[x] = 0 \/ g[x] = w[r][s][x]
      BY <2>3
    <3> QED BY <3>1, <3>4, <3>5
  <2>5. SumOver(f, Dom) = w[r + 1][s][d]
    <3>1. NatOn(f, Dom)
      BY <2>4 DEF NatOn
    <3>2. SumOver(f, Dom) = SumOver(g, Dom)
      BY <1>1, <2>4, <3>1, SumsAgree
    <3> QED BY <2>2, <3>2
  <2>6. w[r + 1][s][d] \in Nat
    BY <1>1, <1>2, <2>0
  <2>7. d \in Rch /\ lev[d] = r + 1 => sg[d] = w[r + 1][s][d]
    BY <1>4
  <2>8. w[r + 1][s][d] > 0 => d \in Rch /\ lev[d] = r + 1
    <3> SUFFICES ASSUME w[r + 1][s][d] > 0 PROVE d \in Rch /\ lev[d] = r + 1
      OBVIOUS
    <3>1. d \in Rch /\ lev[d] <= r + 1 /\ lev[d] \in 0 .. N
      BY <1>1, <2>0
    <3> QED BY <1>10, <2>0, <3>1
  <2>9. ~(d \in Rch /\ lev[d] = r + 1) => SumOver(f, Dom) = 0
    BY <2>5, <2>6, <2>8
  <2> QED BY <2>5, <2>7, <2>9 DEF f
<1>11. \A v \in Rch, x \in Dom : <<v, x>> \in G => x \in Rch /\ lev[x] <= lev[v] + 1
  <2> TAKE v \in Rch, x \in Dom
  <2>1. lev[v] < N
    BY <1>5
  <2> QED BY <1>6, <2>1
<1>12. Rch \subseteq Dom
  BY <1>9
<1>13. Ranked(G, Dom, s, Rch, lev, sg)
  <2>1. \A v \in Rch : /\ lev[v] \in Nat /\ lev[v] < Cardinality(Dom) /\ sg[v] \in Nat /\ sg[v] > 0
                       /\ lev[v] = 0 => v = s
                       /\ \A j \in 0 .. lev[v] : LevelSet(Rch, lev, j) # {}
    BY <1>5, <1>9
  <2> QED BY <1>1, <1>8, <1>10, <1>11, <1>12, <2>1 DEF Ranked
<1> QED BY <1>13 DEF Rch, sg

LEMMA SharesPass ==
  ASSUME NEW w, NEW G, NEW Dom, NEW N, NEW s, NEW lev, Leveled(w, G, Dom, N, s, lev), NEW q, NatOn(q, Dom)
  PROVE  LET Rch == ReachedIn(w, Dom, N, s)
         IN  Passed(G, Dom, Rch, lev, q, SharesOf(w, Dom, Rch, lev, q))
<1> DEFINE Rch == ReachedIn(w, Dom, N, s)
           rho == SharesOf(w, Dom, Rch, lev, q)
           On(v) == OnShares(w, G, Dom, Rch, lev, q, v, NextLevel(Rch, lev, v))
           Out(v) == Outgoing(G, Dom, LevelSet(Rch, lev, lev[v] + 1), rho, v)
<1>1. \A v \in Rch : v \in Dom /\ Yield(w, Dom, Rch, lev, q, v) \in Nat
  BY SharesAreNat DEF Leveled
<1>2. \A v \in Rch : NatOn(On(v), Dom) /\ Yield(w, Dom, Rch, lev, q, v) = q[v] + SumOver(On(v), Dom)
  BY ShareStep
<1>3. \A v \in Dom : rho[v] = Yield(w, Dom, Rch, lev, q, v)
  BY DEF SharesOf
<1>4. IsFiniteSet(Dom)
  BY DEF Leveled
<1> HIDE DEF Rch, rho
<1>5. ASSUME NEW v \in Rch PROVE rho[v] = q[v] + SumOver(Out(v), Dom)
  <2>1. \A x \in Dom : On(v)[x] = Out(v)[x]
    BY <1>3 DEF OnShares, Outgoing, NextLevel, LevelSet
  <2> HIDE DEF On, Out
  <2>2. SumOver(On(v), Dom) = SumOver(Out(v), Dom)
    BY <1>2, <1>4, <2>1, SumsAgree
  <2> QED BY <1>1, <1>2, <1>3, <2>2
<1>6. NatOn(q, Rch) /\ NatOn(rho, Rch)
  BY <1>1, <1>3 DEF NatOn
<1>7. Passed(G, Dom, Rch, lev, q, rho)
  BY <1>5, <1>6 DEF Passed
<1> QED BY <1>7 DEF Rch, rho

-----------------------------------------------------------------------------
(* BC, for every finite directed graph and every order of the CASes.       *)

CountsBC(G) == CountIn(G, BTVerts, Cardinality(BTVerts))

LEMMA WalksAre == ASSUME NEW G PROVE BT!Walks(G) = CountsBC(G)
BY DEF BT!Walks, CountsBC, CountIn, Longer, Empties, SumOver, BT!SumFunctionOnSet, BT!FoldFunctionOnSet,
       BT!MapThenFoldSet, MapThenFoldSet, MapThenSumSet, BT!Cardinality, Cardinality

\* What the proof takes from the walks: the reached vertices Rch, their levels lev and
\* path counts sg, and what a vertex is worth, q = Scale \div sg, and passes back, rho.
TablesBC(G, Rch, lev, sg, q, rho) ==
  /\ G \subseteq BTVerts \X BTVerts
  /\ Ranked(G, BTVerts, start, Rch, lev, sg) /\ Passed(G, BTVerts, Rch, lev, q, rho)
  /\ \A v \in Rch : q[v] = Scale \div sg[v]

\* What the edges of the call under way that have answered add to d.
Flight == todo \cup DOMAIN regs
Answered(Dom, val, d) == [x \in Dom |-> IF <<x, d>> \in GA /\ x \in Frontier /\ <<x, d>> \notin Flight
                                        THEN val[x] ELSE 0]
CallOn(Dom, val) ==
  /\ IsFiniteSet(Dom) /\ GA \subseteq Dom \X Dom /\ Frontier \subseteq Dom /\ NatOn(val, Frontier)
  /\ Flight \subseteq BT!OutOf(Frontier) /\ todo \cap DOMAIN regs = {}
  /\ \A e \in DOMAIN regs : ~Touched[e[2]]

\* A call over the frontier, whose values are val: the sum of every node of T that is not
\* visited is what the answered edges add up to.
CallBC(Dom, val, T) ==
  /\ CallOn(Dom, val) /\ T \subseteq Dom
  /\ \A x \in Frontier : Touched[x] /\ BT!Sum[x] = val[x]
  /\ BT!Sum \in [Dom -> Nat]
  /\ \A d \in T : ~Touched[d] => BT!Sum[d] = SumOver(Answered(Dom, val, d), Dom)
OutBC(Dom, val) == /\ out = {d \in Dom : ~Touched[d] /\ BT!Sum[d] > 0}
                   /\ \A x \in Frontier : val[x] > 0

\* The locals of an update that is between its read and its CAS.
NewSumsBC(val) == \A e \in DOMAIN regs : regs[e].at = "cas" => regs[e].newV = regs[e].oldV + val[e[1]]

\* What the steps of a call leave alone.
SameBC == /\ Frontier' = Frontier /\ Touched' = Touched /\ GA' = GA /\ stage' = stage
          /\ turn' = turn /\ Levels' = Levels

\* An edge that has answered adds its value once.
LEMMA AnswerAdds ==
  ASSUME NEW Dom, NEW val, CallOn(Dom, val), NEW e \in Flight,
         Flight' = Flight \ {e}, GA' = GA, Frontier' = Frontier, NEW d \in Dom
  PROVE  /\ NatOn(Answered(Dom, val, d), Dom) /\ NatOn(Answered(Dom, val, d)', Dom)
         /\ SumOver(Answered(Dom, val, d), Dom) \in Nat
         /\ SumOver(Answered(Dom, val, d)', Dom) =
              SumOver(Answered(Dom, val, d), Dom) + IF e[2] = d THEN val[e[1]] ELSE 0
<1> DEFINE f == Answered(Dom, val, d)
           g == Answered(Dom, val, d)'
<1>1. /\ \A x \in Dom : f[x] = IF <<x, d>> \in GA /\ x \in Frontier /\ <<x, d>> \notin Flight
                                 THEN val[x] ELSE 0
      /\ \A x \in Dom : g[x] = IF <<x, d>> \in GA /\ x \in Frontier /\ <<x, d>> \notin Flight \ {e}
                                 THEN val[x] ELSE 0
  BY DEF Answered
<1>2. /\ e \in GA /\ e[1] \in Frontier /\ e[1] \in Dom /\ e = <<e[1], e[2]>> /\ val[e[1]] \in Nat
      /\ \A x \in Frontier : val[x] \in Nat
      /\ IsFiniteSet(Dom)
  BY DEF CallOn, BT!OutOf, NatOn
<1>3. \A x \in Dom : <<x, d>> = e <=> x = e[1] /\ d = e[2]
  BY <1>2
<1> HIDE DEF f, g
<1>4. \A x \in Dom : <<x, d>> \in Flight \ {e} <=> <<x, d>> \in Flight /\ ~(x = e[1] /\ d = e[2])
  BY <1>3
<1>5. NatOn(f, Dom) /\ NatOn(g, Dom)
  <2> SUFFICES ASSUME NEW x \in Dom PROVE f[x] \in Nat /\ g[x] \in Nat
    BY DEF NatOn
  <2>1. (f[x] = 0 \/ (x \in Frontier /\ f[x] = val[x])) /\ (g[x] = 0 \/ (x \in Frontier /\ g[x] = val[x]))
    BY <1>1
  <2> QED BY <1>2, <2>1
<1>6. SumOver(f, Dom) \in Nat
  BY <1>2, <1>5, SumBounds
<1>7. CASE e[2] = d
  <2>1. f[e[1]] = 0 /\ g[e[1]] = val[e[1]]
    BY <1>1, <1>2, <1>4, <1>7
  <2>2. \A x \in Dom : x # e[1] => g[x] = f[x]
    BY <1>1, <1>4
  <2>3. ChangesAt(Dom, f, g, e[1])
    BY <1>2, <1>5, <2>2 DEF ChangesAt, NatOn
  <2>4. SumOver(g, Dom) = SumOver(f, Dom) - f[e[1]] + g[e[1]]
    BY <2>3, SumChangesAt
  <2> QED BY <1>2, <1>5, <1>6, <1>7, <2>1, <2>4 DEF f, g
<1>8. CASE e[2] # d
  <2>1. \A x \in Dom : f[x] = g[x]
    BY <1>1, <1>4, <1>8
  <2>2. SumOver(f, Dom) = SumOver(g, Dom)
    BY <1>2, <1>5, <2>1, SumsAgree
  <2> QED BY <1>5, <1>6, <1>8, <2>2 DEF f, g
<1> QED BY <1>7, <1>8

\* cond: an edge is passed over, or its update begins.
LEMMA TestBC ==
  ASSUME NEW Dom, NEW val, NEW T, CallBC(Dom, val, T), NEW e \in todo, BT!Test(e)
  PROVE  /\ CallBC(Dom, val, T)' /\ SameBC /\ NumPaths' = NumPaths /\ Dependencies' = Dependencies
         /\ OutBC(Dom, val) => OutBC(Dom, val)'
         /\ NewSumsBC(val) => NewSumsBC(val)'
<1>1. /\ CallOn(Dom, val) /\ T \subseteq Dom
      /\ todo \cap DOMAIN regs = {} /\ (\A y \in DOMAIN regs : ~Touched[y[2]])
      /\ \A d \in T : ~Touched[d] => BT!Sum[d] = SumOver(Answered(Dom, val, d), Dom)
  BY DEF CallBC, CallOn
<1>2. SameBC /\ NumPaths' = NumPaths /\ Dependencies' = Dependencies
  BY DEF BT!Test, BT!mainVars, BT!bcVars, SameBC
<1>3. BT!Sum' = BT!Sum /\ BT!OutOf(Frontier)' = BT!OutOf(Frontier)
  BY <1>2 DEF BT!Sum, BT!OutOf, SameBC
<1>4. CASE ~Touched[e[2]]
  <2>1. todo' = todo \ {e} /\ out' = out
        /\ regs' = [x \in DOMAIN regs \cup {e} |-> IF x = e THEN [at |-> "read"] ELSE regs[x]]
    BY <1>4 DEF BT!Test, BT!Enter
  <2>2. Flight' = Flight /\ todo' \cap DOMAIN regs' = {}
    BY <1>1, <2>1 DEF Flight
  <2>3. \A d \in T : Answered(Dom, val, d)' = Answered(Dom, val, d)
    BY <1>2, <2>2 DEF Answered, SameBC
  <2>4. \A y \in DOMAIN regs' : ~Touched[y[2]]
    BY <1>1, <1>4, <2>1
  <2>5. CallOn(Dom, val)'
    BY <1>1, <1>2, <1>3, <2>2, <2>4 DEF CallOn, SameBC
  <2>6. CallBC(Dom, val, T)'
    BY <1>1, <1>2, <1>3, <2>3, <2>5 DEF CallBC, SameBC
  <2>7. OutBC(Dom, val) => OutBC(Dom, val)'
    BY <1>2, <1>3, <2>1 DEF OutBC, SameBC
  <2>8. NewSumsBC(val) => NewSumsBC(val)'
    BY <2>1 DEF NewSumsBC
  <2> QED BY <1>2, <2>6, <2>7, <2>8
<1>5. CASE Touched[e[2]]
  <2>1. todo' = todo \ {e} /\ out' = out /\ regs' = regs
    BY <1>5 DEF BT!Test, BT!Pass
  <2>2. Flight' = Flight \ {e} /\ todo' \cap DOMAIN regs' = {} /\ e \in Flight
    BY <1>1, <2>1 DEF Flight
  <2>3. ASSUME NEW d \in T, ~Touched[d] PROVE BT!Sum[d] = SumOver(Answered(Dom, val, d)', Dom)
    <3>1. e[2] # d /\ d \in Dom
      BY <1>1, <1>5, <2>3
    <3>2. /\ SumOver(Answered(Dom, val, d), Dom) \in Nat
          /\ SumOver(Answered(Dom, val, d)', Dom) =
               SumOver(Answered(Dom, val, d), Dom) + IF e[2] = d THEN val[e[1]] ELSE 0
      BY <1>1, <1>2, <2>2, <3>1, AnswerAdds DEF SameBC
    <3> QED BY <1>1, <2>3, <3>1, <3>2
  <2>4. CallOn(Dom, val)'
    BY <1>1, <1>2, <1>3, <2>1, <2>2 DEF CallOn, SameBC
  <2>5. CallBC(Dom, val, T)'
    BY <1>1, <1>2, <1>3, <2>3, <2>4 DEF CallBC, SameBC
  <2>6. OutBC(Dom, val) => OutBC(Dom, val)'
    BY <1>2, <1>3, <2>1 DEF OutBC, SameBC
  <2> QED BY <1>2, <2>1, <2>5, <2>6 DEF NewSumsBC
<1> QED BY <1>4, <1>5 DEF BT!Test

\* A read, or a CAS that fails, changes nothing but the locals.
LEMMA LocalBC ==
  ASSUME NEW Dom, NEW val, NEW T, CallBC(Dom, val, T), NEW e \in DOMAIN regs, NEW m, BT!Local(e, m),
         SameBC, NumPaths' = NumPaths, Dependencies' = Dependencies
  PROVE  CallBC(Dom, val, T)' /\ (OutBC(Dom, val) => OutBC(Dom, val)')
<1>1. /\ CallOn(Dom, val) /\ T \subseteq Dom
      /\ todo \cap DOMAIN regs = {} /\ (\A y \in DOMAIN regs : ~Touched[y[2]])
      /\ \A d \in T : ~Touched[d] => BT!Sum[d] = SumOver(Answered(Dom, val, d), Dom)
  BY DEF CallBC, CallOn
<1>2. BT!Sum' = BT!Sum /\ BT!OutOf(Frontier)' = BT!OutOf(Frontier)
  BY DEF BT!Sum, BT!OutOf, SameBC
<1>3. todo' = todo /\ out' = out /\ DOMAIN regs' = DOMAIN regs
  BY DEF BT!Local
<1>4. Flight' = Flight
  BY <1>3 DEF Flight
<1>5. \A d \in T : Answered(Dom, val, d)' = Answered(Dom, val, d)
  BY <1>4 DEF Answered, SameBC
<1>6. CallOn(Dom, val)'
  BY <1>1, <1>2, <1>3, <1>4 DEF CallOn, SameBC
<1>7. CallBC(Dom, val, T)'
  BY <1>1, <1>2, <1>5, <1>6 DEF CallBC, SameBC
<1>8. OutBC(Dom, val) => OutBC(Dom, val)'
  BY <1>2, <1>3 DEF OutBC, SameBC
<1> QED BY <1>7, <1>8

\* A CAS that succeeds adds the value of its source, which no step of the call changes.
LEMMA AddBC ==
  ASSUME NEW Dom, NEW val, NEW T, CallBC(Dom, val, T), NEW e \in DOMAIN regs, SameBC,
         BT!Sum' = [BT!Sum EXCEPT ![e[2]] = BT!Sum[e[2]] + val[e[1]]],
         BT!Answer(e, BT!Sum[e[2]] = 0)
  PROVE  /\ CallBC(Dom, val, T)'
         /\ \A v \in Dom : Touched[v] => BT!Sum'[v] = BT!Sum[v]
         /\ OutBC(Dom, val) => OutBC(Dom, val)'
<1>1. /\ CallOn(Dom, val) /\ T \subseteq Dom
      /\ todo \cap DOMAIN regs = {} /\ (\A y \in DOMAIN regs : ~Touched[y[2]])
      /\ \A x \in Frontier : Touched[x] /\ BT!Sum[x] = val[x]
      /\ BT!Sum \in [Dom -> Nat]
      /\ \A d \in T : ~Touched[d] => BT!Sum[d] = SumOver(Answered(Dom, val, d), Dom)
  BY DEF CallBC, CallOn
<1>2. BT!OutOf(Frontier)' = BT!OutOf(Frontier)
  BY DEF BT!OutOf, SameBC
<1>3. /\ e[1] \in Frontier /\ e[1] \in Dom /\ e[2] \in Dom /\ ~Touched[e[2]] /\ e \in Flight
      /\ BT!Sum[e[2]] \in Nat /\ val[e[1]] \in Nat
  BY <1>1 DEF Flight, BT!OutOf, CallOn, NatOn
<1>4. /\ regs' = [x \in DOMAIN regs \ {e} |-> regs[x]] /\ todo' = todo
      /\ out' = IF BT!Sum[e[2]] = 0 THEN out \cup {e[2]} ELSE out
  BY DEF BT!Answer
<1>5. /\ \A v \in Dom : v # e[2] => BT!Sum'[v] = BT!Sum[v]
      /\ BT!Sum'[e[2]] = BT!Sum[e[2]] + val[e[1]]
      /\ BT!Sum' \in [Dom -> Nat]
  BY <1>1, <1>3
<1>6. Flight' = Flight \ {e} /\ todo' \cap DOMAIN regs' = {} /\ DOMAIN regs' = DOMAIN regs \ {e}
  BY <1>1, <1>4 DEF Flight
<1>7. ASSUME NEW d \in T, ~Touched[d] PROVE BT!Sum'[d] = SumOver(Answered(Dom, val, d)', Dom)
  <2>1. /\ d \in Dom /\ SumOver(Answered(Dom, val, d), Dom) \in Nat
        /\ SumOver(Answered(Dom, val, d)', Dom) =
             SumOver(Answered(Dom, val, d), Dom) + IF e[2] = d THEN val[e[1]] ELSE 0
    BY <1>1, <1>3, <1>6, AnswerAdds DEF SameBC
  <2>2. SumOver(Answered(Dom, val, d), Dom) = BT!Sum[d]
    BY <1>1, <1>7
  <2>3. CASE e[2] = d
    BY <1>5, <2>1, <2>2, <2>3
  <2>4. CASE e[2] # d
    BY <1>5, <2>1, <2>2, <2>4
  <2> QED BY <2>3, <2>4
<1>8. \A v \in Dom : Touched[v] => BT!Sum'[v] = BT!Sum[v]
  BY <1>3, <1>5
<1>9. \A x \in Frontier : Touched[x] /\ BT!Sum'[x] = val[x]
  BY <1>1, <1>8 DEF CallOn
<1>10. CallOn(Dom, val)'
  BY <1>1, <1>2, <1>4, <1>6 DEF CallOn, SameBC
<1>11. CallBC(Dom, val, T)'
  BY <1>1, <1>5, <1>7, <1>9, <1>10 DEF CallBC, SameBC
<1>12. ASSUME OutBC(Dom, val) PROVE OutBC(Dom, val)'
  <2>1. out = {d \in Dom : ~Touched[d] /\ BT!Sum[d] > 0} /\ val[e[1]] > 0
    BY <1>3, <1>12 DEF OutBC
  <2>2. BT!Sum'[e[2]] > 0
    BY <1>3, <1>5, <2>1
  <2>3. BT!Sum[e[2]] = 0 \/ BT!Sum[e[2]] > 0
    BY <1>3
  <2>4. ASSUME NEW d \in Dom PROVE d \in out' <=> ~Touched[d] /\ BT!Sum'[d] > 0
    <3>1. CASE d = e[2]
      BY <1>3, <1>4, <2>1, <2>2, <2>3, <3>1
    <3>2. CASE d # e[2]
      BY <1>4, <1>5, <2>1, <3>2
    <3> QED BY <3>1, <3>2
  <2>5. out' \subseteq Dom
    BY <1>3, <1>4, <2>1
  <2>6. out' = {d \in Dom : ~Touched[d] /\ BT!Sum'[d] > 0}
    BY <2>4, <2>5
  <2> QED BY <1>12, <2>6 DEF OutBC, SameBC
<1> QED BY <1>8, <1>11, <1>12

\* The steps of a call of BC.
CallSteps == \/ \E e \in todo : BT!Test(e)
             \/ \E e \in DOMAIN regs : BT!ReadSum(e) \/ BT!SwapSum(e)

LEMMA ReadSumBC ==
  ASSUME NEW val, NEW T, CallBC(BTVerts, val, T), NewSumsBC(val), NEW e \in DOMAIN regs, BT!ReadSum(e)
  PROVE  /\ CallBC(BTVerts, val, T)' /\ SameBC /\ NumPaths' = NumPaths /\ Dependencies' = Dependencies
         /\ OutBC(BTVerts, val) => OutBC(BTVerts, val)'
         /\ NewSumsBC(val)'
<1> DEFINE m == [at |-> "cas", oldV |-> BT!Sum[e[2]], newV |-> BT!Sum[e[2]] + BT!Sum[e[1]]]
<1>1. SameBC /\ NumPaths' = NumPaths /\ Dependencies' = Dependencies /\ BT!Local(e, m)
  BY DEF BT!ReadSum, BT!mainVars, BT!bcVars, SameBC
<1>2. CallBC(BTVerts, val, T)' /\ (OutBC(BTVerts, val) => OutBC(BTVerts, val)')
  <2> HIDE DEF m
  <2> QED BY <1>1, LocalBC
<1>3. BT!Sum[e[1]] = val[e[1]]
  BY DEF CallBC, CallOn, Flight, BT!OutOf
<1>4. regs' = [regs EXCEPT ![e] = m]
  BY <1>1 DEF BT!Local
<1>5. ASSUME NEW y \in DOMAIN regs', regs'[y].at = "cas" PROVE regs'[y].newV = regs'[y].oldV + val[y[1]]
  <2>1. CASE y = e
    BY <1>3, <1>4, <2>1
  <2>2. CASE y # e
    <3>1. y \in DOMAIN regs /\ regs'[y] = regs[y]
      BY <1>4, <2>2
    <3> QED BY <1>5, <3>1 DEF NewSumsBC
  <2> QED BY <2>1, <2>2
<1> QED BY <1>1, <1>2, <1>5 DEF NewSumsBC

LEMMA SwapSumBC ==
  ASSUME NEW val, NEW T, CallBC(BTVerts, val, T), NewSumsBC(val), NEW e \in DOMAIN regs, BT!SwapSum(e)
  PROVE  /\ CallBC(BTVerts, val, T)' /\ SameBC
         /\ \A v \in BTVerts : Touched[v] => BT!Sum'[v] = BT!Sum[v]
         /\ stage # "forth" => NumPaths' = NumPaths
         /\ stage = "forth" => Dependencies' = Dependencies
         /\ OutBC(BTVerts, val) => OutBC(BTVerts, val)'
         /\ NewSumsBC(val)'
<1>1. SameBC /\ (stage # "forth" => NumPaths' = NumPaths) /\ (stage = "forth" => Dependencies' = Dependencies)
  BY DEF BT!SwapSum, BT!Store, BT!mainVars, SameBC
<1>2. CASE BT!Sum[e[2]] = regs[e].oldV
  <2>1. /\ BT!Sum' = [BT!Sum EXCEPT ![e[2]] = regs[e].newV] /\ BT!Answer(e, BT!Sum[e[2]] = 0)
        /\ regs[e].newV = BT!Sum[e[2]] + val[e[1]]
    BY <1>1, <1>2 DEF BT!SwapSum, BT!Store, BT!Sum, SameBC, NewSumsBC
  <2>2. /\ CallBC(BTVerts, val, T)' /\ (\A v \in BTVerts : Touched[v] => BT!Sum'[v] = BT!Sum[v])
        /\ (OutBC(BTVerts, val) => OutBC(BTVerts, val)')
    BY <1>1, <2>1, AddBC
  <2>3. NewSumsBC(val)'
    BY <2>1 DEF NewSumsBC, BT!Answer
  <2> QED BY <1>1, <2>2, <2>3
<1>3. CASE BT!Sum[e[2]] # regs[e].oldV
  <2>1. NumPaths' = NumPaths /\ Dependencies' = Dependencies /\ BT!Local(e, [at |-> "read"])
    BY <1>3 DEF BT!SwapSum
  <2>2. CallBC(BTVerts, val, T)' /\ (OutBC(BTVerts, val) => OutBC(BTVerts, val)')
    BY <1>1, <2>1, LocalBC
  <2>3. NewSumsBC(val)'
    BY <2>1 DEF NewSumsBC, BT!Local
  <2>4. BT!Sum' = BT!Sum
    BY <1>1, <2>1 DEF BT!Sum, SameBC
  <2> QED BY <1>1, <2>2, <2>3, <2>4
<1> QED BY <1>2, <1>3

LEMMA CallStepBC ==
  ASSUME NEW val, NEW T, CallBC(BTVerts, val, T), NewSumsBC(val), CallSteps
  PROVE  /\ CallBC(BTVerts, val, T)' /\ SameBC
         /\ \A v \in BTVerts : Touched[v] => BT!Sum'[v] = BT!Sum[v]
         /\ stage # "forth" => NumPaths' = NumPaths
         /\ stage = "forth" => Dependencies' = Dependencies
         /\ OutBC(BTVerts, val) => OutBC(BTVerts, val)'
         /\ NewSumsBC(val)'
<1>1. ASSUME SameBC, NumPaths' = NumPaths, Dependencies' = Dependencies PROVE BT!Sum' = BT!Sum
  BY <1>1 DEF BT!Sum, SameBC
<1>2. ASSUME NEW e \in todo, BT!Test(e)
      PROVE  /\ CallBC(BTVerts, val, T)' /\ SameBC /\ NumPaths' = NumPaths /\ Dependencies' = Dependencies
             /\ OutBC(BTVerts, val) => OutBC(BTVerts, val)'
             /\ NewSumsBC(val)'
  BY <1>2, TestBC
<1>3. ASSUME NEW e \in DOMAIN regs, BT!ReadSum(e)
      PROVE  /\ CallBC(BTVerts, val, T)' /\ SameBC /\ NumPaths' = NumPaths /\ Dependencies' = Dependencies
             /\ OutBC(BTVerts, val) => OutBC(BTVerts, val)'
             /\ NewSumsBC(val)'
  BY <1>3, ReadSumBC
<1>4. ASSUME NEW e \in DOMAIN regs, BT!SwapSum(e)
      PROVE  /\ CallBC(BTVerts, val, T)' /\ SameBC
             /\ \A v \in BTVerts : Touched[v] => BT!Sum'[v] = BT!Sum[v]
             /\ stage # "forth" => NumPaths' = NumPaths
             /\ stage = "forth" => Dependencies' = Dependencies
             /\ OutBC(BTVerts, val) => OutBC(BTVerts, val)'
             /\ NewSumsBC(val)'
  BY <1>4, SwapSumBC
<1> QED BY <1>1, <1>2, <1>3, <1>4 DEF CallSteps

-----------------------------------------------------------------------------
\* The invariant, for one graph G.  Forward, the levels up to r are visited, counted and
\* kept; the call from level r adds to those not visited yet.
ForthBC(Dom, G, Rch, lev, sg, r) ==
  /\ r \in Nat /\ GA = G /\ Frontier = LevelSet(Rch, lev, r)
  /\ \A v \in Dom : Touched[v] <=> v \in Rch /\ lev[v] <= r
  /\ Levels \in Seq(SUBSET Dom) /\ Len(Levels) = r + 1
  /\ \A j \in 0 .. r : Levels[j + 1] = LevelSet(Rch, lev, j)
  /\ Dependencies = [v \in Dom |-> 0] /\ NumPaths \in [Dom -> Nat]
  /\ \A v \in Dom : Touched[v] => NumPaths[v] = sg[v]
RestBC(Dom) == \A v \in Dom : ~Touched[v] => NumPaths[v] = 0

\* Backward, the levels from r on have what they pass back.
BackBC(G, Rch, lev, sg, rho, r) ==
  /\ r \in Nat /\ GA = {<<e[2], e[1]>> : e \in G} /\ Frontier = LevelSet(Rch, lev, r)
  /\ \A v \in BTVerts : Touched[v] <=> v \in Rch /\ lev[v] >= r
  /\ Levels \in Seq(SUBSET BTVerts) /\ Len(Levels) > r
  /\ \A j \in 0 .. r : Levels[j + 1] = LevelSet(Rch, lev, j)
  /\ NumPaths = [v \in BTVerts |-> IF v \in Rch THEN sg[v] ELSE 0]
  /\ Dependencies \in [BTVerts -> Nat]
  /\ \A v \in Rch : Touched[v] => Dependencies[v] = rho[v]

FinalBC(G, Rch, sg, q, rho) ==
  /\ GA = {<<e[2], e[1]>> : e \in G}
  /\ Dependencies = [v \in BTVerts |-> IF v \notin Rch THEN NaN ELSE (rho[v] - q[v]) * sg[v]]

PhasesBC(G, Rch, lev, sg, q, rho) ==
  /\ stage \in {"loop", "forth", "back", "backmap", "done"}
  /\ stage = "loop" => /\ ForthBC(BTVerts, G, Rch, lev, sg, turn)
                       /\ RestBC(BTVerts)
                       /\ BT!Returned
  /\ stage = "forth" => /\ turn \in Nat /\ turn > 0 /\ Frontier # {}
                        /\ ForthBC(BTVerts, G, Rch, lev, sg, turn - 1)
                        /\ CallBC(BTVerts, sg, BTVerts) /\ OutBC(BTVerts, sg) /\ NewSumsBC(sg)
  /\ stage = "back" => /\ BackBC(G, Rch, lev, sg, rho, turn)
                       /\ \A v \in Rch : ~Touched[v] => Dependencies[v] = 0
                       /\ BT!Returned
  /\ stage = "backmap" => /\ BackBC(G, Rch, lev, sg, rho, turn) /\ turn > 0
                          /\ CallBC(BTVerts, rho, Rch) /\ NewSumsBC(rho)
  /\ stage = "done" => FinalBC(G, Rch, sg, q, rho) /\ BT!Returned

LEMMA TablesAreBC ==
  ASSUME NEW G, NEW Rch, NEW lev, NEW sg, NEW q, NEW rho, TablesBC(G, Rch, lev, sg, q, rho)
  PROVE  /\ G \subseteq BTVerts \X BTVerts /\ IsFiniteSet(BTVerts) /\ Rch \subseteq BTVerts
         /\ Cardinality(BTVerts) \in Nat /\ start \in Rch /\ lev[start] = 0 /\ sg[start] = 1
         /\ \A v \in Rch : lev[v] \in Nat /\ lev[v] < Cardinality(BTVerts) /\ sg[v] \in Nat /\ sg[v] > 0
         /\ \A v \in Rch : q[v] \in Nat /\ rho[v] \in Nat /\ q[v] = Scale \div sg[v]
<1>1. G \subseteq BTVerts \X BTVerts /\ Ranked(G, BTVerts, start, Rch, lev, sg) /\ Passed(G, BTVerts, Rch, lev, q, rho)
      /\ \A v \in Rch : q[v] = Scale \div sg[v]
  BY DEF TablesBC
<1>2. \A v \in Rch : q[v] \in Nat /\ rho[v] \in Nat
  BY <1>1 DEF Passed, NatOn
<1> QED BY <1>1, <1>2 DEF Ranked

\* A call begins with nothing added.
LEMMA BeginBC ==
  ASSUME NEW Dom, IsFiniteSet(Dom), NEW val, NEW T, T \subseteq Dom,
         GA \subseteq Dom \X Dom, GA' = GA, Frontier' = Frontier, Touched' = Touched,
         Frontier \subseteq Dom, NatOn(val, Frontier),
         \A x \in Frontier : Touched[x] /\ BT!Sum'[x] = val[x],
         BT!Sum' \in [Dom -> Nat], \A d \in T : ~Touched[d] => BT!Sum'[d] = 0,
         todo' = BT!OutOf(Frontier), regs' = <<>>
  PROVE  CallBC(Dom, val, T)' /\ NewSumsBC(val)'
<1>1. Flight' = BT!OutOf(Frontier) /\ DOMAIN regs' = {} /\ BT!OutOf(Frontier)' = BT!OutOf(Frontier)
  BY DEF Flight, BT!OutOf
<1>2. ASSUME NEW d \in T, ~Touched[d] PROVE BT!Sum'[d] = SumOver(Answered(Dom, val, d)', Dom)
  <2> DEFINE f == Answered(Dom, val, d)'
  <2>1. \A x \in Dom : f[x] = 0
    BY <1>1 DEF Answered, BT!OutOf
  <2> HIDE DEF f
  <2>2. SumOver(f, Dom) = 0
    BY <2>1, SumOfZeros
  <2> QED BY <1>2, <2>2 DEF f
<1>3. CallOn(Dom, val)'
  BY <1>1 DEF CallOn
<1> QED BY <1>1, <1>2, <1>3 DEF CallBC, NewSumsBC

\* Nobody of a later level without one of each level before it.
LEMMA NobodyLater ==
  ASSUME NEW G, NEW Dom, NEW s, NEW Rch, NEW lev, NEW sg, Ranked(G, Dom, s, Rch, lev, sg),
         NEW r \in Nat, LevelSet(Rch, lev, r) = {}
  PROVE  \A v \in Rch : lev[v] < r
<1> SUFFICES ASSUME NEW v \in Rch PROVE lev[v] < r
  OBVIOUS
<1>1. lev[v] \in Nat /\ \A j \in 0 .. lev[v] : LevelSet(Rch, lev, j) # {}
  BY DEF Ranked
<1>2. r \notin 0 .. lev[v]
  BY <1>1
<1> QED BY <1>1, <1>2

\* A call of the first phase begins, and ends with the next level.
LEMMA CountLevel ==
  ASSUME NEW Dom, NEW G, NEW s, NEW Rch, NEW lev, NEW sg, G \subseteq Dom \X Dom, Ranked(G, Dom, s, Rch, lev, sg),
         ForthBC(Dom, G, Rch, lev, sg, turn), RestBC(Dom),
         stage' = "forth", turn' = turn + 1, todo' = BT!OutOf(Frontier), regs' = <<>>, out' = {},
         GA' = GA, Frontier' = Frontier, NumPaths' = NumPaths, Touched' = Touched,
         Levels' = Levels, Dependencies' = Dependencies
  PROVE  /\ turn' \in Nat /\ turn' > 0 /\ ForthBC(Dom, G, Rch, lev, sg, turn - 1)'
         /\ CallBC(Dom, sg, Dom)' /\ OutBC(Dom, sg)' /\ NewSumsBC(sg)'
<1>1. IsFiniteSet(Dom) /\ Rch \subseteq Dom /\ \A v \in Rch : sg[v] \in Nat /\ sg[v] > 0
  BY DEF Ranked
<1>2. turn \in Nat /\ turn' \in Nat /\ turn' > 0 /\ turn' - 1 = turn
  BY DEF ForthBC
<1>3. ForthBC(Dom, G, Rch, lev, sg, turn - 1)'
  BY <1>2 DEF ForthBC
<1>4. BT!Sum' = NumPaths /\ NumPaths \in [Dom -> Nat] /\ GA = G
  BY DEF BT!Sum, ForthBC
<1>5. \A x \in Frontier : x \in Rch /\ x \in Dom /\ Touched[x] /\ NumPaths[x] = sg[x]
  <2> TAKE x \in Frontier
  <2>1. x \in Rch /\ lev[x] = turn /\ x \in Dom
    BY <1>1 DEF ForthBC, LevelSet
  <2>2. Touched[x]
    BY <1>2, <2>1 DEF ForthBC
  <2> QED BY <2>1, <2>2 DEF ForthBC
<1>6. CallBC(Dom, sg, Dom)' /\ NewSumsBC(sg)'
  <2>1. Frontier \subseteq Dom /\ NatOn(sg, Frontier)
    BY <1>1, <1>5 DEF NatOn
  <2>2. \A d \in Dom : ~Touched[d] => BT!Sum'[d] = 0
    BY <1>4 DEF RestBC
  <2>3. \A x \in Frontier : Touched[x] /\ BT!Sum'[x] = sg[x]
    BY <1>4, <1>5
  <2>4. GA \subseteq Dom \X Dom /\ BT!Sum' \in [Dom -> Nat]
    BY <1>4
  <2> QED BY <1>1, <2>1, <2>2, <2>3, <2>4, BeginBC
<1>7. OutBC(Dom, sg)'
  <2>1. \A d \in Dom : ~(~Touched[d] /\ BT!Sum'[d] > 0)
    BY <1>4 DEF RestBC
  <2>2. \A x \in Frontier : sg[x] > 0
    BY <1>1, <1>5
  <2> QED BY <2>1, <2>2 DEF OutBC
<1> QED BY <1>2, <1>3, <1>6, <1>7

LEMMA ForthIs ==
  ASSUME NEW Dom, NEW G, NEW Rch, NEW lev, NEW sg, NEW k \in Nat, turn' = k, GA' = G,
         Frontier' = LevelSet(Rch, lev, k), \A v \in Dom : Touched'[v] <=> v \in Rch /\ lev[v] <= k,
         Levels' \in Seq(SUBSET Dom), Len(Levels') = k + 1, \A j \in 0 .. k : Levels'[j + 1] = LevelSet(Rch, lev, j),
         Dependencies' = [v \in Dom |-> 0], NumPaths' \in [Dom -> Nat],
         \A v \in Dom : Touched'[v] => NumPaths'[v] = sg[v]
  PROVE  ForthBC(Dom, G, Rch, lev, sg, turn)'
BY DEF ForthBC

\* What the end of a call of the first phase does.
TakeLevel(Dom) ==
  /\ Touched' = [v \in Dom |-> Touched[v] \/ v \in out] /\ Levels' = Append(Levels, out) /\ Frontier' = out
  /\ GA' = GA /\ turn' = turn /\ NumPaths' = NumPaths /\ Dependencies' = Dependencies

LEMMA NextLevelBC ==
  ASSUME NEW Dom, NEW G, NEW s, NEW Rch, NEW lev, NEW sg, G \subseteq Dom \X Dom, Ranked(G, Dom, s, Rch, lev, sg),
         stage = "forth", turn \in Nat, turn > 0, Frontier # {}, ForthBC(Dom, G, Rch, lev, sg, turn - 1),
         CallBC(Dom, sg, Dom), OutBC(Dom, sg), BT!Returned, TakeLevel(Dom)
  PROVE  ForthBC(Dom, G, Rch, lev, sg, turn)' /\ RestBC(Dom)'
<1> DEFINE r == turn - 1
<1>1. /\ stage = "forth" /\ BT!Returned
      /\ Touched' = [v \in Dom |-> Touched[v] \/ v \in out]
      /\ Levels' = Append(Levels, out) /\ Frontier' = out
      /\ GA' = GA /\ turn' = turn /\ NumPaths' = NumPaths /\ Dependencies' = Dependencies
  BY DEF TakeLevel
<1>2. /\ turn \in Nat /\ turn > 0 /\ Frontier # {} /\ ForthBC(Dom, G, Rch, lev, sg, r)
      /\ CallBC(Dom, sg, Dom) /\ OutBC(Dom, sg)
  OBVIOUS
<1>3. /\ G \subseteq Dom \X Dom /\ IsFiniteSet(Dom) /\ Rch \subseteq Dom /\ Cardinality(Dom) \in Nat
      /\ \A v \in Rch : lev[v] \in Nat /\ lev[v] < Cardinality(Dom) /\ sg[v] \in Nat /\ sg[v] > 0
  BY DEF Ranked
<1>4. BT!Sum = NumPaths /\ todo = {} /\ regs = <<>> /\ Flight = {}
  BY <1>1 DEF BT!Sum, BT!Returned, Flight
<1>5. r \in Nat /\ turn = r + 1 /\ GA = G /\ Frontier = LevelSet(Rch, lev, r)
      /\ \A v \in Dom : Touched[v] <=> v \in Rch /\ lev[v] <= r
  BY <1>2 DEF ForthBC
<1> HIDE DEF r
<1>6. r < Cardinality(Dom)
  BY <1>2, <1>3, <1>5 DEF LevelSet
<1>7. ASSUME NEW d \in Dom, ~Touched[d]
      PROVE  /\ d \in Rch /\ lev[d] = r + 1 => NumPaths[d] = sg[d]
             /\ ~(d \in Rch /\ lev[d] = r + 1) => NumPaths[d] = 0
  <2>1. NumPaths[d] = SumOver(Answered(Dom, sg, d), Dom)
    BY <1>2, <1>4, <1>7 DEF CallBC
  <2>2. Answered(Dom, sg, d) = Incoming(G, Dom, LevelSet(Rch, lev, r), sg, d)
    BY <1>4, <1>5 DEF Answered, Incoming
  <2>3. d \in Rch => r < lev[d]
    BY <1>3, <1>5, <1>7
  <2>5. /\ d \in Rch /\ lev[d] = r + 1 =>
             sg[d] = SumOver(Incoming(G, Dom, LevelSet(Rch, lev, r), sg, d), Dom)
        /\ ~(d \in Rch /\ lev[d] = r + 1) =>
             SumOver(Incoming(G, Dom, LevelSet(Rch, lev, r), sg, d), Dom) = 0
    BY <1>5, <1>6, <2>3 DEF Ranked
  <2> QED BY <2>1, <2>2, <2>5
<1>8. out = LevelSet(Rch, lev, r + 1) /\ out \subseteq Dom
  <2>1. out = {d \in Dom : ~Touched[d] /\ NumPaths[d] > 0}
    BY <1>2, <1>4 DEF OutBC
  <2>2. ASSUME NEW d \in out PROVE d \in Rch /\ lev[d] = r + 1
    BY <1>7, <2>1
  <2>3. ASSUME NEW d \in Rch, lev[d] = r + 1 PROVE d \in out
    <3>1. d \in Dom /\ ~Touched[d]
      BY <1>3, <1>5, <2>3
    <3> QED BY <1>3, <1>7, <2>1, <2>3, <3>1
  <2> QED BY <2>1, <2>2, <2>3 DEF LevelSet
<1>9. \A v \in Dom : Touched'[v] <=> v \in Rch /\ lev[v] <= r + 1
  <2> TAKE v \in Dom
  <2>1. Touched'[v] <=> Touched[v] \/ (v \in Rch /\ lev[v] = r + 1)
    BY <1>1, <1>8 DEF LevelSet
  <2>2. v \in Rch => lev[v] \in Nat
    BY <1>3
  <2> QED BY <1>5, <2>1, <2>2
<1>10. Levels' \in Seq(SUBSET Dom) /\ Len(Levels') = (r + 1) + 1
       /\ \A j \in 0 .. r + 1 : Levels'[j + 1] = LevelSet(Rch, lev, j)
  <2>1. /\ Levels \in Seq(SUBSET Dom) /\ Len(Levels) = r + 1
        /\ \A j \in 0 .. r : Levels[j + 1] = LevelSet(Rch, lev, j)
    BY <1>2 DEF ForthBC
  <2>2. Levels' \in Seq(SUBSET Dom) /\ Len(Levels') = (r + 1) + 1 /\ Levels'[(r + 1) + 1] = out
        /\ \A i \in 1 .. r + 1 : Levels'[i] = Levels[i]
    BY <1>1, <1>5, <1>8, <2>1
  <2>3. ASSUME NEW j \in 0 .. r + 1 PROVE Levels'[j + 1] = LevelSet(Rch, lev, j)
    <3>1. CASE j = r + 1
      BY <1>8, <2>2, <3>1
    <3>2. CASE j # r + 1
      <4>1. j \in 0 .. r /\ j + 1 \in 1 .. r + 1
        BY <1>5, <3>2
      <4> QED BY <2>1, <2>2, <4>1
    <3> QED BY <3>1, <3>2
  <2> QED BY <2>2, <2>3
<1>11. \A v \in Dom : /\ Touched'[v] => NumPaths[v] = sg[v]
                      /\ ~Touched'[v] => NumPaths[v] = 0
  <2> TAKE v \in Dom
  <2>1. CASE Touched[v]
    <3>1. NumPaths[v] = sg[v]
      BY <1>2, <2>1 DEF ForthBC
    <3>2. Touched'[v]
      BY <1>1, <2>1
    <3> QED BY <3>1, <3>2
  <2>2. CASE ~Touched[v]
    BY <1>1, <1>7, <1>8, <2>2 DEF LevelSet
  <2> QED BY <2>1, <2>2
<1>14. NumPaths' = NumPaths /\ Dependencies' = Dependencies
  BY <1>1
<1>12. ForthBC(Dom, G, Rch, lev, sg, turn)'
  <2>1. Dependencies = [v \in Dom |-> 0] /\ NumPaths \in [Dom -> Nat]
    BY <1>2 DEF ForthBC
  <2>2. r + 1 \in Nat /\ turn' = r + 1
    BY <1>1, <1>5
  <2>3. GA' = G /\ Frontier' = LevelSet(Rch, lev, r + 1)
    BY <1>1, <1>5, <1>8
  <2>4. /\ Dependencies' = [v \in Dom |-> 0] /\ NumPaths' \in [Dom -> Nat]
        /\ \A v \in Dom : Touched'[v] => NumPaths'[v] = sg[v]
    BY <1>11, <1>14, <2>1
  <2> QED BY <1>9, <1>10, <2>2, <2>3, <2>4, ForthIs
<1>13. RestBC(Dom)'
  <2>1. \A v \in Dom : ~Touched'[v] => NumPaths'[v] = 0
    BY <1>11, <1>14
  <2> QED BY <2>1 DEF RestBC
<1> QED BY <1>12, <1>13

LEMMA ForwardBC ==
  ASSUME NEW G, NEW Rch, NEW lev, NEW sg, NEW q, NEW rho, TablesBC(G, Rch, lev, sg, q, rho),
         PhasesBC(G, Rch, lev, sg, q, rho), BT!Forward
  PROVE  PhasesBC(G, Rch, lev, sg, q, rho)'
<1>1. /\ stage = "loop" /\ Frontier # {} /\ stage' = "forth" /\ turn' = turn + 1
      /\ todo' = BT!OutOf(Frontier) /\ regs' = <<>> /\ out' = {}
      /\ GA' = GA /\ Frontier' = Frontier /\ NumPaths' = NumPaths /\ Touched' = Touched
      /\ Levels' = Levels /\ Dependencies' = Dependencies
  BY DEF BT!Forward, BT!Begin
<1>2. ForthBC(BTVerts, G, Rch, lev, sg, turn) /\ RestBC(BTVerts)
  BY <1>1 DEF PhasesBC
<1>3. G \subseteq BTVerts \X BTVerts /\ Ranked(G, BTVerts, start, Rch, lev, sg)
  BY DEF TablesBC
<1>4. /\ turn' \in Nat /\ turn' > 0 /\ ForthBC(BTVerts, G, Rch, lev, sg, turn - 1)'
      /\ CallBC(BTVerts, sg, BTVerts)' /\ OutBC(BTVerts, sg)' /\ NewSumsBC(sg)'
  BY <1>1, <1>2, <1>3, CountLevel
<1> QED BY <1>1, <1>4 DEF PhasesBC

LEMMA EndForwardBC ==
  ASSUME NEW G, NEW Rch, NEW lev, NEW sg, NEW q, NEW rho, TablesBC(G, Rch, lev, sg, q, rho),
         PhasesBC(G, Rch, lev, sg, q, rho), BT!EndForward
  PROVE  PhasesBC(G, Rch, lev, sg, q, rho)'
<1>1. /\ stage = "forth" /\ BT!Returned /\ stage' = "loop"
      /\ Touched' = [v \in BTVerts |-> Touched[v] \/ v \in out]
      /\ Levels' = Append(Levels, out) /\ Frontier' = out
      /\ GA' = GA /\ turn' = turn /\ NumPaths' = NumPaths /\ Dependencies' = Dependencies
      /\ todo' = todo /\ regs' = regs
  BY DEF BT!EndForward, BT!callVars
<1>2. /\ turn \in Nat /\ turn > 0 /\ Frontier # {} /\ ForthBC(BTVerts, G, Rch, lev, sg, turn - 1)
      /\ CallBC(BTVerts, sg, BTVerts) /\ OutBC(BTVerts, sg)
  BY <1>1 DEF PhasesBC
<1>3. G \subseteq BTVerts \X BTVerts /\ Ranked(G, BTVerts, start, Rch, lev, sg)
  BY DEF TablesBC
<1>4. ForthBC(BTVerts, G, Rch, lev, sg, turn)' /\ RestBC(BTVerts)'
  <2>1. TakeLevel(BTVerts)
    BY <1>1 DEF TakeLevel
  <2> QED BY <1>1, <1>2, <1>3, <2>1, NextLevelBC
<1>5. BT!Returned'
  BY <1>1 DEF BT!Returned
<1> QED BY <1>1, <1>4, <1>5 DEF PhasesBC

\* Where the program turns: nothing is reached that is not counted.
LEMMA TurnRoundBC ==
  ASSUME NEW G, NEW Rch, NEW lev, NEW sg, NEW q, NEW rho, TablesBC(G, Rch, lev, sg, q, rho),
         PhasesBC(G, Rch, lev, sg, q, rho), BT!TurnRound
  PROVE  PhasesBC(G, Rch, lev, sg, q, rho)'
<1> DEFINE r == turn - 1
<1>1. /\ stage = "loop" /\ Frontier = {} /\ stage' = "back" /\ turn' = r
      /\ Frontier' = Levels[turn]
      /\ Touched' = [v \in BTVerts |-> [x \in BTVerts |-> FALSE][v] \/ v \in Levels[turn]]
      /\ Dependencies' = [v \in BTVerts |-> IF v \in Levels[turn] THEN Dependencies[v] + BT!Inv(v)
                                            ELSE Dependencies[v]]
      /\ GA' = {<<e[2], e[1]>> : e \in GA}
      /\ todo' = todo /\ regs' = regs /\ NumPaths' = NumPaths /\ Levels' = Levels
  BY DEF BT!TurnRound, BT!Visit, BT!callVars
<1>2. ForthBC(BTVerts, G, Rch, lev, sg, turn) /\ BT!Returned /\ \A v \in BTVerts : ~Touched[v] => NumPaths[v] = 0
  BY <1>1 DEF PhasesBC, RestBC
<1>3. /\ IsFiniteSet(BTVerts) /\ Rch \subseteq BTVerts /\ start \in Rch /\ lev[start] = 0
      /\ \A v \in Rch : lev[v] \in Nat /\ sg[v] \in Nat /\ sg[v] > 0
      /\ \A v \in Rch : q[v] \in Nat /\ rho[v] \in Nat /\ q[v] = Scale \div sg[v]
  BY TablesAreBC
<1>4. /\ turn \in Nat /\ GA = G /\ LevelSet(Rch, lev, turn) = {}
      /\ \A v \in BTVerts : Touched[v] <=> v \in Rch /\ lev[v] <= turn
      /\ Levels \in Seq(SUBSET BTVerts) /\ Len(Levels) = turn + 1
      /\ \A j \in 0 .. turn : Levels[j + 1] = LevelSet(Rch, lev, j)
      /\ Dependencies = [v \in BTVerts |-> 0] /\ NumPaths \in [BTVerts -> Nat]
      /\ \A v \in BTVerts : Touched[v] => NumPaths[v] = sg[v]
  BY <1>1, <1>2 DEF ForthBC
<1>5. Ranked(G, BTVerts, start, Rch, lev, sg) /\ Passed(G, BTVerts, Rch, lev, q, rho)
  BY DEF TablesBC
<1>6. \A v \in Rch : lev[v] < turn
  BY <1>4, <1>5, NobodyLater
<1>7. r \in Nat /\ turn = r + 1
  BY <1>3, <1>4, <1>6
<1> HIDE DEF r
<1>8. Levels[turn] = LevelSet(Rch, lev, r) /\ Len(Levels) > r
      /\ \A j \in 0 .. r : Levels[j + 1] = LevelSet(Rch, lev, j)
  BY <1>4, <1>7
<1>9. NumPaths = [v \in BTVerts |-> IF v \in Rch THEN sg[v] ELSE 0]
  <2>1. \A v \in BTVerts : NumPaths[v] = IF v \in Rch THEN sg[v] ELSE 0
    BY <1>2, <1>3, <1>4, <1>6
  <2> QED BY <1>4, <2>1
<1>10. \A v \in BTVerts : Touched'[v] <=> v \in Rch /\ lev[v] >= r
  <2> TAKE v \in BTVerts
  <2>1. Touched'[v] <=> v \in Rch /\ lev[v] = r
    BY <1>1, <1>8 DEF LevelSet
  <2>2. v \in Rch => lev[v] < r + 1 /\ lev[v] \in Nat
    BY <1>3, <1>6, <1>7
  <2> QED BY <1>7, <2>1, <2>2
<1>11. ASSUME NEW v \in Rch, lev[v] = r PROVE BT!Inv(v) = rho[v]
  <2>1. BT!Inv(v) = q[v]
    BY <1>3, <1>9 DEF BT!Inv
  <2>2. LevelSet(Rch, lev, lev[v] + 1) = {}
    BY <1>4, <1>7, <1>11
  <2> DEFINE f == Outgoing(G, BTVerts, LevelSet(Rch, lev, lev[v] + 1), rho, v)
  <2>3. \A x \in BTVerts : f[x] = 0
    BY <2>2 DEF Outgoing
  <2>4. rho[v] = q[v] + SumOver(f, BTVerts)
    BY <1>5 DEF Passed
  <2> HIDE DEF f
  <2>5. SumOver(f, BTVerts) = 0
    BY <1>3, <2>3, SumOfZeros
  <2> QED BY <1>3, <2>1, <2>4, <2>5
<1>12. \A v \in BTVerts : Dependencies'[v] = IF v \in Rch /\ lev[v] = r THEN rho[v] ELSE 0
  <2> TAKE v \in BTVerts
  <2>1. CASE v \in Rch /\ lev[v] = r
    <3>1. Dependencies'[v] = 0 + BT!Inv(v)
      BY <1>1, <1>4, <1>8, <2>1 DEF LevelSet
    <3> QED BY <1>3, <1>11, <2>1, <3>1
  <2>2. CASE ~(v \in Rch /\ lev[v] = r)
    BY <1>1, <1>4, <1>8, <2>2 DEF LevelSet
  <2> QED BY <2>1, <2>2
<1>13. Dependencies' \in [BTVerts -> Nat]
  <2>1. \A v \in BTVerts : Dependencies'[v] \in Nat
    BY <1>3, <1>12
  <2>2. Dependencies' = [v \in BTVerts |-> Dependencies'[v]]
    BY <1>1
  <2> QED BY <2>1, <2>2
<1>14. \A v \in Rch : /\ Touched'[v] => Dependencies'[v] = rho[v]
                      /\ ~Touched'[v] => Dependencies'[v] = 0
  <2> TAKE v \in Rch
  <2>1. v \in BTVerts /\ lev[v] < r + 1 /\ lev[v] \in Nat
    BY <1>3, <1>6, <1>7
  <2> QED BY <1>7, <1>10, <1>12, <2>1
<1>15. BackBC(G, Rch, lev, sg, rho, turn)'
  BY <1>1, <1>4, <1>7, <1>8, <1>9, <1>10, <1>13, <1>14 DEF BackBC
<1>16. BT!Returned'
  BY <1>1, <1>2 DEF BT!Returned
<1> QED BY <1>1, <1>14, <1>15, <1>16 DEF PhasesBC

LEMMA BackwardBC ==
  ASSUME NEW G, NEW Rch, NEW lev, NEW sg, NEW q, NEW rho, TablesBC(G, Rch, lev, sg, q, rho),
         PhasesBC(G, Rch, lev, sg, q, rho), BT!Backward
  PROVE  PhasesBC(G, Rch, lev, sg, q, rho)'
<1>1. /\ stage = "back" /\ turn > 0 /\ stage' = "backmap"
      /\ todo' = BT!OutOf(Frontier) /\ regs' = <<>>
      /\ GA' = GA /\ Frontier' = Frontier /\ NumPaths' = NumPaths /\ Touched' = Touched
      /\ Levels' = Levels /\ Dependencies' = Dependencies /\ turn' = turn
  BY DEF BT!Backward, BT!Begin, BT!bcVars
<1>2. BackBC(G, Rch, lev, sg, rho, turn) /\ \A v \in Rch : ~Touched[v] => Dependencies[v] = 0
  BY <1>1 DEF PhasesBC
<1>3. /\ G \subseteq BTVerts \X BTVerts /\ IsFiniteSet(BTVerts) /\ Rch \subseteq BTVerts
      /\ \A v \in Rch : lev[v] \in Nat /\ rho[v] \in Nat
  BY TablesAreBC
<1>4. BackBC(G, Rch, lev, sg, rho, turn)'
  BY <1>1, <1>2 DEF BackBC
<1>5. BT!Sum' = Dependencies /\ Dependencies \in [BTVerts -> Nat] /\ GA \subseteq BTVerts \X BTVerts
  BY <1>1, <1>2, <1>3 DEF BT!Sum, BackBC
<1>6. \A x \in Frontier : x \in Rch /\ x \in BTVerts /\ Touched[x] /\ Dependencies[x] = rho[x]
  <2> TAKE x \in Frontier
  <2>1. x \in Rch /\ lev[x] = turn /\ x \in BTVerts /\ lev[x] \in Nat
    BY <1>2, <1>3 DEF BackBC, LevelSet
  <2>2. Touched[x]
    BY <1>2, <2>1 DEF BackBC
  <2> QED BY <1>2, <2>1, <2>2 DEF BackBC
<1>7. CallBC(BTVerts, rho, Rch)' /\ NewSumsBC(rho)'
  <2>1. Frontier \subseteq BTVerts /\ NatOn(rho, Frontier)
    BY <1>3, <1>6 DEF NatOn
  <2>2. \A d \in Rch : ~Touched[d] => BT!Sum'[d] = 0
    BY <1>2, <1>5
  <2>3. \A x \in Frontier : Touched[x] /\ BT!Sum'[x] = rho[x]
    BY <1>5, <1>6
  <2> QED BY <1>1, <1>3, <1>5, <2>1, <2>2, <2>3, BeginBC
<1> QED BY <1>1, <1>4, <1>7 DEF PhasesBC

\* When the call has returned, the level before has all that is passed to it, and gets
\* what it is worth itself.
LEMMA EndBackwardBC ==
  ASSUME NEW G, NEW Rch, NEW lev, NEW sg, NEW q, NEW rho, TablesBC(G, Rch, lev, sg, q, rho),
         PhasesBC(G, Rch, lev, sg, q, rho), BT!EndBackward
  PROVE  PhasesBC(G, Rch, lev, sg, q, rho)'
<1> DEFINE r == turn - 1
<1>1. /\ stage = "backmap" /\ BT!Returned /\ stage' = "back" /\ turn' = r
      /\ Frontier' = Levels[turn]
      /\ Touched' = [v \in BTVerts |-> Touched[v] \/ v \in Levels[turn]]
      /\ Dependencies' = [v \in BTVerts |-> IF v \in Levels[turn] THEN Dependencies[v] + BT!Inv(v)
                                            ELSE Dependencies[v]]
      /\ GA' = GA /\ todo' = todo /\ regs' = regs /\ NumPaths' = NumPaths /\ Levels' = Levels
  BY DEF BT!EndBackward, BT!Visit, BT!callVars
<1>2. BackBC(G, Rch, lev, sg, rho, turn) /\ turn > 0 /\ CallBC(BTVerts, rho, Rch)
  BY <1>1 DEF PhasesBC
<1>3. /\ IsFiniteSet(BTVerts) /\ Rch \subseteq BTVerts /\ G \subseteq BTVerts \X BTVerts
      /\ \A v \in Rch : lev[v] \in Nat /\ sg[v] \in Nat /\ sg[v] > 0
      /\ \A v \in Rch : q[v] \in Nat /\ rho[v] \in Nat /\ q[v] = Scale \div sg[v]
  BY TablesAreBC
<1>4. /\ turn \in Nat /\ GA = {<<e[2], e[1]>> : e \in G} /\ Frontier = LevelSet(Rch, lev, turn)
      /\ \A v \in BTVerts : Touched[v] <=> v \in Rch /\ lev[v] >= turn
      /\ Levels \in Seq(SUBSET BTVerts) /\ Len(Levels) > turn
      /\ \A j \in 0 .. turn : Levels[j + 1] = LevelSet(Rch, lev, j)
      /\ NumPaths = [v \in BTVerts |-> IF v \in Rch THEN sg[v] ELSE 0]
      /\ Dependencies \in [BTVerts -> Nat]
      /\ \A v \in Rch : Touched[v] => Dependencies[v] = rho[v]
  BY <1>2 DEF BackBC
<1>5. Ranked(G, BTVerts, start, Rch, lev, sg) /\ Passed(G, BTVerts, Rch, lev, q, rho)
  BY DEF TablesBC
<1>6. BT!Sum = Dependencies /\ todo = {} /\ regs = <<>> /\ Flight = {}
  BY <1>1 DEF BT!Sum, BT!Returned, Flight
<1>7. r \in Nat /\ turn = r + 1
  BY <1>2, <1>4
<1> HIDE DEF r
<1>8. Levels[turn] = LevelSet(Rch, lev, r) /\ Len(Levels) > r
      /\ \A j \in 0 .. r : Levels[j + 1] = LevelSet(Rch, lev, j)
  BY <1>4, <1>7
<1>9. \A v \in BTVerts : Touched'[v] <=> v \in Rch /\ lev[v] >= r
  <2> TAKE v \in BTVerts
  <2>1. Touched'[v] <=> Touched[v] \/ (v \in Rch /\ lev[v] = r)
    BY <1>1, <1>8 DEF LevelSet
  <2>2. v \in Rch => lev[v] \in Nat
    BY <1>3
  <2> QED BY <1>4, <1>7, <2>1, <2>2
<1>10. \A x \in BTVerts, v \in BTVerts : <<x, v>> \in GA <=> <<v, x>> \in G
  <2> TAKE x \in BTVerts, v \in BTVerts
  <2>1. ASSUME <<x, v>> \in GA PROVE <<v, x>> \in G
    <3>1. PICK e \in G : <<x, v>> = <<e[2], e[1]>>
      BY <1>4, <2>1
    <3>2. e = <<e[1], e[2]>>
      BY <1>3
    <3> QED BY <3>1, <3>2
  <2>2. ASSUME <<v, x>> \in G PROVE <<x, v>> \in GA
    BY <1>4, <2>2
  <2> QED BY <2>1, <2>2
<1>11. ASSUME NEW v \in Rch, ~Touched[v]
       PROVE  Dependencies[v] = SumOver(Outgoing(G, BTVerts, LevelSet(Rch, lev, turn), rho, v), BTVerts)
  <2>1. Dependencies[v] = SumOver(Answered(BTVerts, rho, v), BTVerts)
    BY <1>2, <1>6, <1>11 DEF CallBC
  <2>2. Answered(BTVerts, rho, v) = Outgoing(G, BTVerts, LevelSet(Rch, lev, turn), rho, v)
    BY <1>3, <1>4, <1>6, <1>10 DEF Answered, Outgoing
  <2> QED BY <2>1, <2>2
<1>12. ASSUME NEW v \in Rch, lev[v] = r PROVE Dependencies[v] + BT!Inv(v) = rho[v]
  <2>1. BT!Inv(v) = q[v]
    BY <1>3, <1>4 DEF BT!Inv
  <2>2. ~Touched[v]
    BY <1>3, <1>4, <1>7, <1>12
  <2>3. Dependencies[v] = SumOver(Outgoing(G, BTVerts, LevelSet(Rch, lev, lev[v] + 1), rho, v), BTVerts)
    BY <1>7, <1>11, <1>12, <2>2
  <2>4. rho[v] = q[v] + SumOver(Outgoing(G, BTVerts, LevelSet(Rch, lev, lev[v] + 1), rho, v), BTVerts)
    BY <1>5 DEF Passed
  <2>5. Dependencies[v] \in Nat
    BY <1>3, <1>4
  <2> QED BY <1>3, <2>1, <2>3, <2>4, <2>5
<1>13. ASSUME NEW v \in Rch, lev[v] < r PROVE Dependencies[v] = 0
  <2> DEFINE f == Outgoing(G, BTVerts, LevelSet(Rch, lev, turn), rho, v)
  <2>1. lev[v] \in Nat /\ lev[v] < turn /\ v \in BTVerts
    BY <1>3, <1>7, <1>13
  <2>2. ~Touched[v]
    BY <1>4, <2>1
  <2>3. \A x \in BTVerts : <<v, x>> \in G => lev[x] # turn
    <3> SUFFICES ASSUME NEW x \in BTVerts, <<v, x>> \in G, lev[x] = turn PROVE FALSE
      OBVIOUS
    <3>1. x \in Rch /\ lev[x] <= lev[v] + 1
      BY <1>5 DEF Ranked
    <3> QED BY <1>7, <1>13, <2>1, <3>1
  <2>4. \A x \in BTVerts : f[x] = 0
    BY <2>3 DEF Outgoing, LevelSet
  <2>5. Dependencies[v] = SumOver(f, BTVerts)
    BY <1>11, <2>2
  <2> HIDE DEF f
  <2>6. SumOver(f, BTVerts) = 0
    BY <1>3, <2>4, SumOfZeros
  <2> QED BY <2>5, <2>6
<1>14. \A v \in Rch : /\ Touched'[v] => Dependencies'[v] = rho[v]
                      /\ ~Touched'[v] => Dependencies'[v] = 0
  <2> TAKE v \in Rch
  <2>1. v \in BTVerts /\ lev[v] \in Nat
    BY <1>3
  <2>2. CASE lev[v] = r
    <3>1. Dependencies'[v] = Dependencies[v] + BT!Inv(v) /\ Touched'[v]
      BY <1>1, <1>7, <1>8, <1>9, <2>1, <2>2 DEF LevelSet
    <3> QED BY <1>12, <2>2, <3>1
  <2>3. CASE lev[v] # r
    <3>1. Dependencies'[v] = Dependencies[v]
      BY <1>1, <1>8, <2>1, <2>3 DEF LevelSet
    <3>2. CASE lev[v] > r
      <4>1. Touched'[v] /\ Touched[v]
        BY <1>4, <1>7, <1>9, <2>1, <3>2
      <4> QED BY <1>4, <3>1, <4>1
    <3>3. CASE lev[v] < r
      <4>1. ~Touched'[v]
        BY <1>7, <1>9, <2>1, <3>3
      <4> QED BY <1>13, <3>1, <3>3, <4>1
    <3> QED BY <1>7, <2>1, <2>3, <3>2, <3>3
  <2> QED BY <2>2, <2>3
<1>15. Dependencies' \in [BTVerts -> Nat]
  <2>1. ASSUME NEW v \in BTVerts PROVE Dependencies'[v] \in Nat
    <3>1. CASE v \in Rch
      BY <1>3, <1>14, <3>1
    <3>2. CASE v \notin Rch
      <4>1. Dependencies'[v] = Dependencies[v]
        BY <1>1, <1>8, <3>2 DEF LevelSet
      <4> QED BY <1>4, <4>1
    <3> QED BY <3>1, <3>2
  <2>2. Dependencies' = [v \in BTVerts |-> Dependencies'[v]]
    BY <1>1
  <2> QED BY <2>1, <2>2
<1>16. BackBC(G, Rch, lev, sg, rho, turn)'
  BY <1>1, <1>4, <1>7, <1>8, <1>9, <1>14, <1>15 DEF BackBC
<1>17. BT!Returned'
  BY <1>1 DEF BT!Returned
<1> QED BY <1>1, <1>14, <1>16, <1>17 DEF PhasesBC

LEMMA FinishBC ==
  ASSUME NEW G, NEW Rch, NEW lev, NEW sg, NEW q, NEW rho, TablesBC(G, Rch, lev, sg, q, rho),
         PhasesBC(G, Rch, lev, sg, q, rho), BT!Finish
  PROVE  PhasesBC(G, Rch, lev, sg, q, rho)'
<1>1. /\ stage = "back" /\ turn = 0 /\ stage' = "done"
      /\ Dependencies' = [v \in BTVerts |-> IF NumPaths[v] = 0 THEN NaN
                                            ELSE (Dependencies[v] - BT!Inv(v)) * NumPaths[v]]
      /\ GA' = GA /\ todo' = todo /\ regs' = regs
  BY DEF BT!Finish, BT!callVars
<1>2. BackBC(G, Rch, lev, sg, rho, turn) /\ BT!Returned
  BY <1>1 DEF PhasesBC
<1>3. /\ Rch \subseteq BTVerts /\ \A v \in Rch : lev[v] \in Nat /\ sg[v] \in Nat /\ sg[v] > 0
      /\ \A v \in Rch : q[v] = Scale \div sg[v]
  BY TablesAreBC
<1>4. NumPaths = [v \in BTVerts |-> IF v \in Rch THEN sg[v] ELSE 0] /\ GA = {<<e[2], e[1]>> : e \in G}
  BY <1>2 DEF BackBC
<1>5. ASSUME NEW v \in Rch PROVE Dependencies[v] = rho[v] /\ BT!Inv(v) = q[v] /\ NumPaths[v] = sg[v] /\ NumPaths[v] # 0
  <2>1. Touched[v]
    BY <1>1, <1>2, <1>3 DEF BackBC
  <2>2. Dependencies[v] = rho[v]
    BY <1>2, <2>1 DEF BackBC
  <2> QED BY <1>3, <1>4, <2>2 DEF BT!Inv
<1>6. \A v \in BTVerts : v \notin Rch => NumPaths[v] = 0
  BY <1>4
<1>7. \A v \in BTVerts : Dependencies'[v] = IF v \notin Rch THEN NaN ELSE (rho[v] - q[v]) * sg[v]
  BY <1>1, <1>5, <1>6
<1>8. Dependencies' = [v \in BTVerts |-> IF v \notin Rch THEN NaN ELSE (rho[v] - q[v]) * sg[v]]
  BY <1>1, <1>7
<1>9. FinalBC(G, Rch, sg, q, rho)'
  BY <1>1, <1>4, <1>8 DEF FinalBC
<1>10. BT!Returned'
  BY <1>1, <1>2 DEF BT!Returned
<1> QED BY <1>1, <1>9, <1>10 DEF PhasesBC

LEMMA InCallBC ==
  ASSUME NEW G, NEW Rch, NEW lev, NEW sg, NEW q, NEW rho, TablesBC(G, Rch, lev, sg, q, rho),
         PhasesBC(G, Rch, lev, sg, q, rho), CallSteps
  PROVE  PhasesBC(G, Rch, lev, sg, q, rho)'
<1>1. stage \in {"forth", "backmap"}
  BY DEF PhasesBC, CallSteps, BT!Returned
<1>2. IsFiniteSet(BTVerts) /\ Rch \subseteq BTVerts
  BY TablesAreBC
<1>3. CASE stage = "forth"
  <2>1. /\ turn \in Nat /\ turn > 0 /\ Frontier # {} /\ ForthBC(BTVerts, G, Rch, lev, sg, turn - 1)
        /\ CallBC(BTVerts, sg, BTVerts) /\ OutBC(BTVerts, sg) /\ NewSumsBC(sg)
    BY <1>3 DEF PhasesBC
  <2>2. /\ CallBC(BTVerts, sg, BTVerts)' /\ SameBC /\ \A v \in BTVerts : Touched[v] => BT!Sum'[v] = BT!Sum[v]
        /\ Dependencies' = Dependencies /\ OutBC(BTVerts, sg)' /\ NewSumsBC(sg)'
    BY <1>3, <2>1, CallStepBC
  <2>3. BT!Sum = NumPaths /\ BT!Sum' = NumPaths' /\ BT!Sum' \in [BTVerts -> Nat]
    BY <1>3, <2>2 DEF BT!Sum, SameBC, CallBC
  <2>4. ForthBC(BTVerts, G, Rch, lev, sg, turn - 1)'
    BY <2>1, <2>2, <2>3 DEF ForthBC, SameBC
  <2> QED BY <1>3, <2>1, <2>2, <2>4 DEF PhasesBC, SameBC
<1>4. CASE stage = "backmap"
  <2>1. BackBC(G, Rch, lev, sg, rho, turn) /\ turn > 0 /\ CallBC(BTVerts, rho, Rch) /\ NewSumsBC(rho)
    BY <1>4 DEF PhasesBC
  <2>2. /\ CallBC(BTVerts, rho, Rch)' /\ SameBC /\ \A v \in BTVerts : Touched[v] => BT!Sum'[v] = BT!Sum[v]
        /\ NumPaths' = NumPaths /\ NewSumsBC(rho)'
    BY <1>4, <2>1, CallStepBC
  <2>3. BT!Sum = Dependencies /\ BT!Sum' = Dependencies' /\ BT!Sum' \in [BTVerts -> Nat]
    BY <1>4, <2>2 DEF BT!Sum, SameBC, CallBC
  <2>4. BackBC(G, Rch, lev, sg, rho, turn)'
    BY <1>2, <2>1, <2>2, <2>3 DEF BackBC, SameBC
  <2> QED BY <1>4, <2>1, <2>2, <2>4 DEF PhasesBC, SameBC
<1> QED BY <1>1, <1>3, <1>4

LEMMA StepBC ==
  ASSUME NEW G, NEW Rch, NEW lev, NEW sg, NEW q, NEW rho, TablesBC(G, Rch, lev, sg, q, rho),
         PhasesBC(G, Rch, lev, sg, q, rho), [BT!Next]_BT!vars
  PROVE  PhasesBC(G, Rch, lev, sg, q, rho)'
<1>1. CASE UNCHANGED BT!vars
  <2>1. /\ GA' = GA /\ stage' = stage /\ Frontier' = Frontier /\ todo' = todo /\ regs' = regs /\ out' = out
        /\ turn' = turn /\ NumPaths' = NumPaths /\ Touched' = Touched /\ Levels' = Levels
        /\ Dependencies' = Dependencies
    BY <1>1 DEF BT!vars, BT!mainVars, BT!callVars, BT!bcVars
  <2>2. /\ ForthBC(BTVerts, G, Rch, lev, sg, turn)' <=> ForthBC(BTVerts, G, Rch, lev, sg, turn)
        /\ ForthBC(BTVerts, G, Rch, lev, sg, turn - 1)' <=> ForthBC(BTVerts, G, Rch, lev, sg, turn - 1)
    BY <2>1 DEF ForthBC
  <2>3. BackBC(G, Rch, lev, sg, rho, turn)' <=> BackBC(G, Rch, lev, sg, rho, turn)
    BY <2>1 DEF BackBC
  <2>4. BT!Sum' = BT!Sum /\ Flight' = Flight /\ BT!OutOf(Frontier)' = BT!OutOf(Frontier)
    BY <2>1 DEF BT!Sum, Flight, BT!OutOf
  <2>5. \A d \in BTVerts : Answered(BTVerts, sg, d)' = Answered(BTVerts, sg, d) /\ Answered(BTVerts, rho, d)' = Answered(BTVerts, rho, d)
    BY <2>1, <2>4 DEF Answered
  <2>6. /\ CallOn(BTVerts, sg) => CallOn(BTVerts, sg)'
        /\ CallOn(BTVerts, rho) => CallOn(BTVerts, rho)'
    BY <2>1, <2>4 DEF CallOn
  <2>7. CallBC(BTVerts, sg, BTVerts) => CallBC(BTVerts, sg, BTVerts)'
    BY <2>1, <2>4, <2>5, <2>6 DEF CallBC
  <2>8. CallBC(BTVerts, rho, Rch) => CallBC(BTVerts, rho, Rch)'
    BY <2>1, <2>4, <2>5, <2>6 DEF CallBC
  <2>9. OutBC(BTVerts, sg) => OutBC(BTVerts, sg)'
    BY <2>1, <2>4 DEF OutBC
  <2>12. NewSumsBC(sg)' = NewSumsBC(sg) /\ NewSumsBC(rho)' = NewSumsBC(rho) /\ RestBC(BTVerts)' = RestBC(BTVerts)
    BY <2>1 DEF NewSumsBC, RestBC
  <2>10. FinalBC(G, Rch, sg, q, rho) => FinalBC(G, Rch, sg, q, rho)'
    BY <2>1 DEF FinalBC
  <2>11. BT!Returned => BT!Returned'
    BY <2>1 DEF BT!Returned
  <2> QED BY <2>1, <2>2, <2>3, <2>7, <2>8, <2>9, <2>10, <2>11, <2>12 DEF PhasesBC
<1>2. CASE BT!Next
  <2>1. BT!Forward \/ BT!EndForward \/ BT!TurnRound \/ BT!Backward \/ BT!EndBackward \/ BT!Finish \/ CallSteps
    BY <1>2 DEF BT!Next, CallSteps
  <2> QED BY <2>1, ForwardBC, EndForwardBC, TurnRoundBC, BackwardBC, EndBackwardBC, FinishBC, InCallBC
<1> QED BY <1>1, <1>2

\* The tables of a graph.
NV == Cardinality(BTVerts)
RchBC(G) == ReachedIn(CountsBC(G), BTVerts, NV, start)
LevBC(G) == LevelsFrom(CountsBC(G), BTVerts, NV, start)
SgBC(G) == CountsOf(CountsBC(G), BTVerts, start, LevBC(G))
QBC(G) == [v \in BTVerts |-> IF v \in RchBC(G) THEN Scale \div SgBC(G)[v] ELSE 0]
RhoBC(G) == SharesOf(CountsBC(G), BTVerts, RchBC(G), LevBC(G), QBC(G))
InvBC == \E G \in BTGraphs : PhasesBC(G, RchBC(G), LevBC(G), SgBC(G), QBC(G), RhoBC(G))

LEMMA FiniteSetsBC == BT!Cardinality(BTVerts) = NV /\ (BT!IsFiniteSet(BTVerts) <=> IsFiniteSet(BTVerts))
BY DEF BT!Cardinality, BT!IsFiniteSet, Cardinality, IsFiniteSet, NV

LEMMA OperatorsBC ==
  ASSUME NEW w
  PROVE  /\ \A u : BT!Reached(w, u) = ReachedIn(w, BTVerts, NV, u)
         /\ \A u, v : BT!Dist(w, u, v) = DistIn(w, NV, u, v)
         /\ \A u, v : BT!Paths(w, u, v) = PathsIn(w, BTVerts, NV, u, v)
         /\ \A v, t : BT!Through(w, v, t) = ThroughIn(w, BTVerts, NV, start, v, t)
<1>1. \A u : BT!Reached(w, u) = ReachedIn(w, BTVerts, NV, u)
  BY FiniteSetsBC DEF BT!Reached, ReachedIn
<1>2. \A u, v : BT!Dist(w, u, v) = DistIn(w, NV, u, v)
  BY FiniteSetsBC DEF BT!Dist, DistIn, Away
<1>3. \A u, v : BT!Paths(w, u, v) = PathsIn(w, BTVerts, NV, u, v)
  BY <1>1, <1>2 DEF BT!Paths, PathsIn
<1>4. \A v, t : BT!Through(w, v, t) = ThroughIn(w, BTVerts, NV, start, v, t)
  BY <1>1, <1>2, <1>3 DEF BT!Through, ThroughIn
<1> QED BY <1>1, <1>2, <1>3, <1>4

LEMMA LeveledBC ==
  ASSUME BT!InputsOK, NEW G \in BTGraphs
  PROVE  /\ Leveled(CountsBC(G), G, BTVerts, NV, start, LevBC(G)) /\ IsFiniteSet(BTVerts)
         /\ NV \in Nat /\ start \in BTVerts /\ G \subseteq BTVerts \X BTVerts /\ Scale \in Nat
<1>1. IsFiniteSet(BTVerts) /\ start \in BTVerts /\ G \subseteq BTVerts \X BTVerts /\ Scale \in Nat
  BY FiniteSetsBC DEF BT!InputsOK
<1>2. NV \in Nat
  BY <1>1, FS_CardinalityType DEF NV
<1>3. Counted(CountsBC(G), G, BTVerts, NV)
  BY <1>1, <1>2, CountsAreCounted DEF CountsBC, NV
<1> QED BY <1>1, <1>2, <1>3, LevelsAreLeveled DEF LevBC

\* Scale is what a vertex is worth times its paths.
LEMMA WorthBC ==
  ASSUME BT!InputsOK, NEW G \in BTGraphs
  PROVE  /\ NatOn(QBC(G), BTVerts)
         /\ \A v \in RchBC(G) : /\ v \in BTVerts /\ SgBC(G)[v] = PathsIn(CountsBC(G), BTVerts, NV, start, v)
                                /\ SgBC(G)[v] = CountsBC(G)[LevBC(G)[v]][start][v]
                                /\ QBC(G)[v] = Scale \div SgBC(G)[v] /\ QBC(G)[v] \in Nat
                                /\ Scale = QBC(G)[v] * PathsIn(CountsBC(G), BTVerts, NV, start, v)
<1> DEFINE w == CountsBC(G)
           lev == LevBC(G)
           Rch == RchBC(G)
           sg == SgBC(G)
           q == QBC(G)
<1>1. Leveled(w, G, BTVerts, NV, start, lev) /\ NV \in Nat /\ start \in BTVerts
  BY LeveledBC
<1>2. \A v \in Rch : /\ v \in BTVerts /\ lev[v] \in 0 .. NV /\ w[lev[v]][start][v] > 0
                     /\ lev[v] = DistIn(w, NV, start, v)
  BY <1>1 DEF Leveled, Away, RchBC
<1>3. \A j \in 0 .. NV, u \in BTVerts, v \in BTVerts : w[j][u][v] \in Nat
  BY <1>1 DEF Leveled
<1>4. \A v \in BTVerts : sg[v] = w[lev[v]][start][v]
  BY DEF SgBC, CountsOf
<1>5. \A v \in BTVerts : q[v] = IF v \in Rch THEN Scale \div sg[v] ELSE 0
  BY DEF QBC
<1>6. \A v \in Rch : PathsIn(w, BTVerts, NV, start, v) = w[lev[v]][start][v]
  BY <1>2 DEF PathsIn, RchBC
<1>7. \A v \in Rch : \E p \in 1 .. Scale : Scale = p * PathsIn(w, BTVerts, NV, start, v)
  <2>1. \A v \in BT!Reached(BT!Walks(G), start) :
          \E p \in 1 .. Scale : Scale = p * BT!Paths(BT!Walks(G), start, v)
    BY DEF BT!InputsOK
  <2>2. BT!Walks(G) = w
    BY WalksAre
  <2>3. BT!Reached(w, start) = Rch /\ \A v : BT!Paths(w, start, v) = PathsIn(w, BTVerts, NV, start, v)
    BY OperatorsBC DEF RchBC
  <2> HIDE DEF w
  <2> QED BY <2>1, <2>2, <2>3
<1>8. Scale \in Nat
  BY LeveledBC
<1> HIDE DEF w, lev, Rch, sg, q
<1>9. ASSUME NEW v \in Rch
      PROVE  /\ v \in BTVerts /\ sg[v] = PathsIn(w, BTVerts, NV, start, v) /\ sg[v] = w[lev[v]][start][v]
             /\ q[v] = Scale \div sg[v] /\ q[v] \in Nat /\ Scale = q[v] * PathsIn(w, BTVerts, NV, start, v)
  <2>1. v \in BTVerts /\ lev[v] \in 0 .. NV /\ w[lev[v]][start][v] > 0
    BY <1>2
  <2>2. sg[v] = PathsIn(w, BTVerts, NV, start, v) /\ sg[v] \in Nat /\ sg[v] # 0 /\ sg[v] = w[lev[v]][start][v]
    BY <1>1, <1>3, <1>4, <1>6, <2>1
  <2>3. PICK p \in 1 .. Scale : Scale = p * sg[v]
    BY <1>7, <2>2
  <2>4. p \in Nat
    BY <1>8
  <2>5. (p * sg[v]) \div sg[v] = p
    BY <2>2, <2>4, MultipleDiv
  <2>6. q[v] = p
    BY <1>5, <2>1, <2>3, <2>5
  <2> QED BY <2>1, <2>2, <2>3, <2>4, <2>6, <1>5
<1>10. NatOn(q, BTVerts)
  <2> SUFFICES ASSUME NEW v \in BTVerts PROVE q[v] \in Nat
    BY DEF NatOn
  <2>1. CASE v \in Rch
    BY <1>9, <2>1
  <2>2. CASE v \notin Rch
    BY <1>5, <2>2
  <2> QED BY <2>1, <2>2
<1> QED BY <1>9, <1>10 DEF w, lev, Rch, sg, q

LEMMA TablesExistBC ==
  ASSUME BT!InputsOK, NEW G \in BTGraphs
  PROVE  TablesBC(G, RchBC(G), LevBC(G), SgBC(G), QBC(G), RhoBC(G))
<1>1. Leveled(CountsBC(G), G, BTVerts, NV, start, LevBC(G)) /\ NatOn(QBC(G), BTVerts) /\ G \subseteq BTVerts \X BTVerts
      /\ \A v \in RchBC(G) : QBC(G)[v] = Scale \div SgBC(G)[v]
  BY LeveledBC, WorthBC
<1>2. Ranked(G, BTVerts, start, RchBC(G), LevBC(G), SgBC(G))
  BY <1>1, TablesRank DEF NV, RchBC, SgBC
<1>3. Passed(G, BTVerts, RchBC(G), LevBC(G), QBC(G), RhoBC(G))
  BY <1>1, SharesPass DEF RchBC, RhoBC
<1> QED BY <1>1, <1>2, <1>3 DEF TablesBC

\* What is left at the end is the sum of the shares.
LEMMA FinalIs ==
  ASSUME BT!InputsOK, NEW G \in BTGraphs, NEW v \in RchBC(G)
  PROVE  (RhoBC(G)[v] - QBC(G)[v]) * SgBC(G)[v] =
           SumOver(PathShares(CountsBC(G), BTVerts, NV, start, v, Scale, RchBC(G) \ {v}), RchBC(G) \ {v})
<1> DEFINE w == CountsBC(G)
           lev == LevBC(G)
           Rch == RchBC(G)
           q == QBC(G)
           p == [t \in BTVerts |-> IF t = v THEN 0 ELSE q[t]]
           U == Rch \ {v}
<1>1. Leveled(w, G, BTVerts, NV, start, lev) /\ Scale \in Nat
  BY LeveledBC
<1>2. NatOn(q, BTVerts)
  BY WorthBC
<1>3. \A t \in Rch : /\ t \in BTVerts /\ SgBC(G)[t] = w[lev[t]][start][t]
                     /\ Scale = q[t] * PathsIn(w, BTVerts, NV, start, t)
  BY WorthBC
<1>4. p[v] = 0 /\ \A t \in BTVerts : t # v => p[t] = q[t]
  BY <1>3
<1>5. NatOn(p, BTVerts)
  BY <1>2 DEF NatOn
<1>6. \A t \in BTVerts : t \notin Rch => q[t] = 0
  BY DEF QBC
<1>7. RhoBC(G)[v] = Yield(w, BTVerts, Rch, lev, q, v)
  BY <1>3 DEF RhoBC, SharesOf
<1> HIDE DEF p, w, lev, q
<1>8. Yield(w, BTVerts, Rch, lev, p, v) = Yield(w, BTVerts, Rch, lev, q, v) - q[v]
  BY <1>1, <1>2, <1>4, <1>5, ShareWithoutOwn DEF RchBC, w
<1>9. /\ U \in SUBSET ReachedIn(w, BTVerts, NV, start)
      /\ \A t \in U : Scale = p[t] * PathsIn(w, BTVerts, NV, start, t)
      /\ \A t \in BTVerts \ U : p[t] = 0
  <2>1. U \in SUBSET ReachedIn(w, BTVerts, NV, start)
    BY DEF RchBC, w
  <2>2. \A t \in U : Scale = p[t] * PathsIn(w, BTVerts, NV, start, t)
    BY <1>3, <1>4
  <2>3. \A t \in BTVerts \ U : p[t] = 0
    BY <1>4, <1>6
  <2> QED BY <2>1, <2>2, <2>3
<1>10. Yield(w, BTVerts, Rch, lev, p, v) * w[lev[v]][start][v] = SumOver(PathShares(w, BTVerts, NV, start, v, Scale, U), U)
  <2>1. v \in ReachedIn(w, BTVerts, NV, start) /\ Rch = ReachedIn(w, BTVerts, NV, start)
    BY DEF RchBC, w
  <2> HIDE DEF U, Rch
  <2> QED BY <1>1, <1>5, <1>9, <2>1, SharesOfPaths
<1> QED BY <1>3, <1>7, <1>8, <1>10 DEF w, q

LEMMA SumFunctionIs == \A f : BT!SumFunction(f) = SumOver(f, DOMAIN f)
BY DEF BT!SumFunction, BT!SumFunctionOnSet, BT!FoldFunctionOnSet, BT!MapThenFoldSet, MapThenFoldSet, MapThenSumSet, SumOver

LEMMA ExactBC ==
  ASSUME BT!InputsOK, InvBC
  PROVE  BT!DependenciesAreExact
<1>1. PICK G \in BTGraphs : PhasesBC(G, RchBC(G), LevBC(G), SgBC(G), QBC(G), RhoBC(G))
  BY DEF InvBC
<1> DEFINE w == CountsBC(G)
           Rch == RchBC(G)
           lev == LevBC(G)
           sg == SgBC(G)
<1>2. /\ G \subseteq BTVerts \X BTVerts
      /\ \A v \in Rch : /\ v \in BTVerts /\ sg[v] = PathsIn(w, BTVerts, NV, start, v)
                        /\ lev[v] = DistIn(w, NV, start, v) /\ lev[v] \in Nat
  <2>1. Leveled(w, G, BTVerts, NV, start, lev)
    BY LeveledBC
  <2>2. \A v \in Rch : lev[v] = DistIn(w, NV, start, v) /\ lev[v] \in Nat
    BY <2>1 DEF Leveled, RchBC
  <2> QED BY <2>2, LeveledBC, WorthBC
<1>3. BT!Graph = G
  <2>1. CASE stage \in {"loop", "forth"}
    BY <1>1, <2>1 DEF BT!Graph, PhasesBC, ForthBC
  <2>2. CASE stage \notin {"loop", "forth"}
    <3>1. GA = {<<e[2], e[1]>> : e \in G}
      BY <1>1, <2>2 DEF PhasesBC, BackBC, FinalBC
    <3>2. \A e \in G : e = <<e[1], e[2]>>
      BY <1>2
    <3>3. \A x : x \in {<<e[2], e[1]>> : e \in GA} <=> x \in G
      <4> TAKE x
      <4>1. ASSUME x \in {<<e[2], e[1]>> : e \in GA} PROVE x \in G
        <5>1. PICK e \in GA : x = <<e[2], e[1]>>
          BY <4>1
        <5>2. PICK y \in G : e = <<y[2], y[1]>>
          BY <3>1
        <5>3. x = <<y[1], y[2]>>
          BY <5>1, <5>2
        <5> QED BY <3>2, <5>3
      <4>2. ASSUME x \in G PROVE x \in {<<e[2], e[1]>> : e \in GA}
        <5>1. <<x[2], x[1]>> \in GA /\ x = <<x[1], x[2]>>
          BY <3>1, <3>2, <4>2
        <5> QED BY <5>1
      <4> QED BY <4>1, <4>2
    <3>4. {<<e[2], e[1]>> : e \in GA} = G
      BY <3>3
    <3> QED BY <2>2, <3>4 DEF BT!Graph
  <2> QED BY <2>1, <2>2
<1>4. BT!Walks(BT!Graph) = w
  BY <1>3, WalksAre
<1>5. /\ BT!Reached(w, start) = Rch
      /\ \A t : /\ BT!Dist(w, start, t) = DistIn(w, NV, start, t)
                /\ BT!Paths(w, start, t) = PathsIn(w, BTVerts, NV, start, t)
      /\ \A u, t : BT!Through(w, u, t) = ThroughIn(w, BTVerts, NV, start, u, t)
  BY OperatorsBC DEF RchBC
<1>6. ASSUME stage = "loop", NEW v \in BTVerts
      PROVE  /\ Touched[v] => NumPaths[v] = BT!Paths(w, start, v)
             /\ v \in Frontier <=> v \in BT!Reached(w, start) /\ BT!Dist(w, start, v) = turn
  <2>1. ForthBC(BTVerts, G, Rch, lev, sg, turn)
    BY <1>1, <1>6 DEF PhasesBC
  <2>2. Touched[v] => v \in Rch /\ NumPaths[v] = sg[v]
    BY <2>1 DEF ForthBC
  <2>3. v \in Frontier <=> v \in Rch /\ lev[v] = turn
    BY <2>1 DEF ForthBC, LevelSet
  <2> QED BY <1>2, <1>5, <2>2, <2>3
<1>7. ASSUME BT!Done, NEW v \in BTVerts
      PROVE  Dependencies[v] = IF v \notin BT!Reached(w, start) THEN NaN
               ELSE BT!SumFunction([t \in BT!Reached(w, start) \ {v} |->
                                      (Scale * BT!Through(w, v, t)) \div BT!Paths(w, start, t)])
  <2>1. Dependencies[v] = IF v \notin Rch THEN NaN ELSE (RhoBC(G)[v] - QBC(G)[v]) * sg[v]
    BY <1>1, <1>7 DEF BT!Done, PhasesBC, FinalBC
  <2>2. CASE v \notin Rch
    BY <1>5, <2>1, <2>2
  <2>3. CASE v \in Rch
    <3> DEFINE f == PathShares(w, BTVerts, NV, start, v, Scale, Rch \ {v})
               g == [t \in BT!Reached(w, start) \ {v} |->
                       (Scale * BT!Through(w, v, t)) \div BT!Paths(w, start, t)]
    <3>1. Dependencies[v] = SumOver(f, Rch \ {v})
      BY <2>1, <2>3, FinalIs
    <3>2. f = g /\ DOMAIN f = Rch \ {v}
      BY <1>5 DEF PathShares
    <3> HIDE DEF f, g
    <3>3. BT!SumFunction(g) = SumOver(f, Rch \ {v})
      BY <3>2, SumFunctionIs
    <3> QED BY <1>5, <2>3, <3>1, <3>3 DEF g
  <2> QED BY <2>2, <2>3
<1>8. BT!PathsAndShares(w)
  BY <1>6, <1>7 DEF BT!PathsAndShares
<1> QED BY <1>4, <1>8 DEF BT!DependenciesAreExact

LEMMA StartsBC ==
  ASSUME BT!InputsOK, BT!Init
  PROVE  InvBC
<1>1. /\ GA \in BTGraphs /\ stage = "loop" /\ todo = {} /\ regs = <<>> /\ Frontier = {start} /\ turn = 0
      /\ NumPaths = [v \in BTVerts |-> IF v = start THEN 1 ELSE 0]
      /\ Touched = [v \in BTVerts |-> v = start] /\ Levels = << {start} >>
      /\ Dependencies = [v \in BTVerts |-> 0]
  BY DEF BT!Init, BT!NoCall
<1> DEFINE Rch == RchBC(GA)
           lev == LevBC(GA)
           sg == SgBC(GA)
<1>2. TablesBC(GA, Rch, lev, sg, QBC(GA), RhoBC(GA))
  BY <1>1, TablesExistBC
<1>3. Ranked(GA, BTVerts, start, Rch, lev, sg)
  BY <1>2 DEF TablesBC
<1> HIDE DEF Rch, lev, sg
<1>4. /\ Rch \subseteq BTVerts /\ start \in Rch /\ lev[start] = 0 /\ sg[start] = 1 /\ start \in BTVerts
      /\ \A v \in Rch : lev[v] \in Nat /\ (lev[v] = 0 => v = start)
  BY <1>3 DEF Ranked
<1>5. LevelSet(Rch, lev, 0) = {start}
  BY <1>4 DEF LevelSet
<1>6. \A v \in BTVerts : Touched[v] <=> v \in Rch /\ lev[v] <= 0
  <2> TAKE v \in BTVerts
  <2>1. Touched[v] <=> v = start
    BY <1>1
  <2>2. v \in Rch => (lev[v] <= 0 <=> lev[v] = 0)
    BY <1>4
  <2> QED BY <1>4, <2>1, <2>2
<1>7. ForthBC(BTVerts, GA, Rch, lev, sg, turn)
  <2>1. Levels \in Seq(SUBSET BTVerts) /\ Len(Levels) = 0 + 1 /\ Levels[0 + 1] = {start}
    BY <1>1, <1>4
  <2>2. NumPaths \in [BTVerts -> Nat] /\ \A v \in BTVerts : Touched[v] => NumPaths[v] = sg[v]
    BY <1>1, <1>4
  <2>3. \A j \in 0 .. 0 : Levels[j + 1] = LevelSet(Rch, lev, j)
    <3>1. \A j \in 0 .. 0 : j = 0
      OBVIOUS
    <3> QED BY <1>5, <2>1, <3>1
  <2> QED BY <1>1, <1>5, <1>6, <2>1, <2>2, <2>3 DEF ForthBC
<1>8. PhasesBC(GA, Rch, lev, sg, QBC(GA), RhoBC(GA))
  <2>1. \A v \in BTVerts : ~Touched[v] => NumPaths[v] = 0
    BY <1>1
  <2> QED BY <1>1, <1>7, <2>1 DEF PhasesBC, RestBC, BT!Returned
<1> QED BY <1>1, <1>8 DEF InvBC, Rch, lev, sg

\* Betweenness of BC: for every finite directed graph, every start and every order of the
\* steps, path counts and frontier of every round are those of the shortest paths, and the
\* dependencies at the end those of the definition.
THEOREM DependenciesAreAlwaysExact ==
  ASSUME BT!InputsOK
  PROVE  BT!Spec => []BT!DependenciesAreExact
<1>1. BT!Init => InvBC
  BY StartsBC
<1>2. InvBC /\ [BT!Next]_BT!vars => InvBC'
  <2> SUFFICES ASSUME InvBC, [BT!Next]_BT!vars PROVE InvBC'
    OBVIOUS
  <2>1. PICK G \in BTGraphs : PhasesBC(G, RchBC(G), LevBC(G), SgBC(G), QBC(G), RhoBC(G))
    BY DEF InvBC
  <2>2. PhasesBC(G, RchBC(G), LevBC(G), SgBC(G), QBC(G), RhoBC(G))'
    BY <2>1, TablesExistBC, StepBC
  <2> QED BY <2>2 DEF InvBC
<1>3. InvBC => BT!DependenciesAreExact
  BY ExactBC
<1> QED BY <1>1, <1>2, <1>3, PTL DEF BT!Spec

-----------------------------------------------------------------------------
(* HyperBC, whose levels are vertices and hyperedges by turns.             *)

HNodes == HBVerts \cup HBHyperedges
Even(k) == k % 2 = 0

\* As for BC; what a vertex is worth is q = Scale \div sg, but for the start and for
\* hyperedges, which are worth nothing.
TablesHB(G, Rch, lev, sg, q, rho) ==
  /\ G \subseteq (HBVerts \X HBHyperedges) \cup (HBHyperedges \X HBVerts) /\ HBVerts \cap HBHyperedges = {}
  /\ Ranked(G, HNodes, start, Rch, lev, sg) /\ Passed(G, HNodes, Rch, lev, q, rho)
  /\ start \in HBVerts /\ Scale \in Nat
  /\ \A v \in Rch : /\ v \in HBVerts /\ v # start => Scale = q[v] * sg[v]
                    /\ v \notin HBVerts \/ v = start => q[v] = 0

\* What a dependency is multiplied with: the paths of a vertex.
Times(sg) == [x \in HNodes |-> IF x \in HBVerts THEN sg[x] ELSE 1]

LEMMA EvenOdd == \A k \in Nat : /\ Even(k + 1) <=> ~Even(k)
                                /\ k > 0 => (Even(k - 1) <=> ~Even(k))
                                /\ Even(k) /\ k > 0 => k >= 2
                                /\ k >= 2 => (Even(k - 2) <=> Even(k))
BY DEF Even

\* The levels alternate.
LEMMA LevelsAlternate ==
  ASSUME NEW G, NEW Rch, NEW lev, NEW sg, NEW q, NEW rho, TablesHB(G, Rch, lev, sg, q, rho)
  PROVE  \A v \in Rch : v \in HBVerts <=> Even(lev[v])
<1> DEFINE Good == {j \in Nat : \A v \in Rch : lev[v] = j => (v \in HBVerts <=> Even(j))}
<1>1. G \subseteq (HBVerts \X HBHyperedges) \cup (HBHyperedges \X HBVerts) /\ HBVerts \cap HBHyperedges = {}
      /\ start \in HBVerts /\ Ranked(G, HNodes, start, Rch, lev, sg)
  BY DEF TablesHB
<1>2. /\ IsFiniteSet(HNodes) /\ Rch \subseteq HNodes
      /\ \A v \in Rch : /\ lev[v] \in Nat /\ lev[v] < Cardinality(HNodes) /\ sg[v] \in Nat /\ sg[v] > 0
                        /\ lev[v] = 0 => v = start
  BY <1>1 DEF Ranked
<1>3. 0 \in Good
  BY <1>1, <1>2 DEF Even
<1>4. ASSUME NEW j \in Nat, j \in Good PROVE j + 1 \in Good
  <2> SUFFICES ASSUME NEW v \in Rch, lev[v] = j + 1 PROVE v \in HBVerts <=> Even(j + 1)
    OBVIOUS
  <2> DEFINE f == Incoming(G, HNodes, LevelSet(Rch, lev, j), sg, v)
  <2>1. v \in HNodes /\ j < Cardinality(HNodes) /\ j < lev[v]
    BY <1>1, <1>2 DEF Ranked
  <2>2. sg[v] = SumOver(f, HNodes)
    BY <1>1, <2>1 DEF Ranked
  <2>3. \A x \in HNodes : f[x] = IF <<x, v>> \in G /\ x \in LevelSet(Rch, lev, j) THEN sg[x] ELSE 0
    BY DEF Incoming
  <2> HIDE DEF f
  <2>4. NatOn(f, HNodes)
    <3> SUFFICES ASSUME NEW x \in HNodes PROVE f[x] \in Nat
      BY DEF NatOn
    <3>1. f[x] = 0 \/ (x \in Rch /\ f[x] = sg[x])
      BY <2>3 DEF LevelSet
    <3> QED BY <1>2, <3>1
  <2>5. PICK x \in HNodes : f[x] > 0
    BY <1>2, <2>2, <2>4, SumBounds
  <2>6. <<x, v>> \in G /\ x \in Rch /\ lev[x] = j
    BY <2>3, <2>5 DEF LevelSet
  <2>7. x \in HBVerts <=> v \notin HBVerts
    BY <1>1, <2>6
  <2> QED BY <1>4, <2>6, <2>7, EvenOdd
<1> HIDE DEF Good
<1>5. Nat \subseteq Good
  BY <1>3, <1>4, SetInduction
<1> QED BY <1>2, <1>5 DEF Good

LEMMA TablesAreHB ==
  ASSUME NEW G, NEW Rch, NEW lev, NEW sg, NEW q, NEW rho, TablesHB(G, Rch, lev, sg, q, rho)
  PROVE  /\ G \subseteq HNodes \X HNodes /\ IsFiniteSet(HNodes) /\ Rch \subseteq HNodes
         /\ start \in Rch /\ lev[start] = 0 /\ sg[start] = 1 /\ start \in HBVerts /\ Scale \in Nat
         /\ \A v \in Rch : lev[v] \in Nat /\ sg[v] \in Nat /\ sg[v] > 0
         /\ \A v \in Rch : q[v] \in Nat /\ rho[v] \in Nat /\ Times(sg)[v] \in Nat
         /\ \A v \in Rch : v \in HBVerts <=> Even(lev[v])
         /\ \A e \in G : e = <<e[1], e[2]>> /\ e[1] \in HNodes /\ e[2] \in HNodes
                         /\ (e[1] \in HBVerts <=> e[2] \notin HBVerts)
<1>1. /\ G \subseteq (HBVerts \X HBHyperedges) \cup (HBHyperedges \X HBVerts) /\ HBVerts \cap HBHyperedges = {}
      /\ Ranked(G, HNodes, start, Rch, lev, sg) /\ Passed(G, HNodes, Rch, lev, q, rho)
      /\ start \in HBVerts /\ Scale \in Nat
  BY DEF TablesHB
<1>2. \A v \in Rch : q[v] \in Nat /\ rho[v] \in Nat
  BY <1>1 DEF Passed, NatOn
<1>3. /\ IsFiniteSet(HNodes) /\ Rch \subseteq HNodes /\ start \in Rch /\ lev[start] = 0 /\ sg[start] = 1
      /\ \A v \in Rch : lev[v] \in Nat /\ sg[v] \in Nat /\ sg[v] > 0
  BY <1>1 DEF Ranked
<1>4. \A v \in Rch : Times(sg)[v] \in Nat
  <2> TAKE v \in Rch
  <2>1. Times(sg)[v] = sg[v] \/ Times(sg)[v] = 1
    BY <1>3 DEF Times
  <2> QED BY <1>3, <2>1
<1>5. \A v \in Rch : v \in HBVerts <=> Even(lev[v])
  BY LevelsAlternate
<1>6. G \subseteq HNodes \X HNodes
      /\ \A e \in G : e = <<e[1], e[2]>> /\ e[1] \in HNodes /\ e[2] \in HNodes
                      /\ (e[1] \in HBVerts <=> e[2] \notin HBVerts)
  BY <1>1 DEF HNodes
<1> QED BY <1>1, <1>2, <1>3, <1>4, <1>5, <1>6

\* A call of the second phase from level k: what lies before it has what the answered
\* edges add up to, times its paths.
BackCallHB(Rch, lev, sg, rho, k) ==
  /\ CallOn(HNodes, rho) /\ (\A e \in DOMAIN regs : regs[e].at = "read")
  /\ Frontier = LevelSet(Rch, lev, k) /\ Dependencies \in [HNodes -> Nat]
  /\ \A v \in Rch : (v \in HBVerts /\ lev[v] >= k) \/ lev[v] = k =>
       Touched[v] /\ Dependencies[v] = Times(sg)[v] * rho[v]
  /\ \A v \in Rch : lev[v] < k =>
       ~Touched[v] /\ Dependencies[v] = Times(sg)[v] * SumOver(Answered(HNodes, rho, v), HNodes)

\* What holds between the turn and the end.
TurnedHB(G, Rch, lev, sg, r) ==
  /\ r \in Nat /\ Even(r) /\ GA = {<<e[2], e[1]>> : e \in G}
  /\ NumPaths = [v \in HNodes |-> IF v \in Rch THEN sg[v] ELSE 0]
  /\ Levels \in Seq(SUBSET HNodes) /\ Len(Levels) > r
  /\ \A j \in 0 .. r : Levels[j + 1] = LevelSet(Rch, lev, j)

StepsHB == \/ \E e \in todo : HB!Test(e)
           \/ \E e \in DOMAIN regs : HB!ReadSum(e) \/ HB!SwapSum(e) \/ HB!AddShare(e)

LEMMA EdgesTurned ==
  ASSUME NEW G, NEW Rch, NEW lev, NEW sg, NEW q, NEW rho, TablesHB(G, Rch, lev, sg, q, rho),
         GA = {<<e[2], e[1]>> : e \in G}
  PROVE  /\ GA \subseteq HNodes \X HNodes
         /\ \A x \in HNodes, v \in HNodes : <<x, v>> \in GA <=> <<v, x>> \in G
         /\ \A e \in GA : <<e[2], e[1]>> \in G /\ (e[1] \in HBVerts <=> e[2] \notin HBVerts)
<1>1. \A e \in G : e = <<e[1], e[2]>> /\ e[1] \in HNodes /\ e[2] \in HNodes
                   /\ (e[1] \in HBVerts <=> e[2] \notin HBVerts)
  BY TablesAreHB
<1>2. GA \subseteq HNodes \X HNodes
  BY <1>1
<1>3. ASSUME NEW y \in GA PROVE <<y[2], y[1]>> \in G /\ (y[1] \in HBVerts <=> y[2] \notin HBVerts)
  <2>1. PICK e \in G : y = <<e[2], e[1]>>
    OBVIOUS
  <2>2. y[2] = e[1] /\ y[1] = e[2] /\ e = <<e[1], e[2]>>
    BY <1>1, <2>1
  <2>3. <<y[2], y[1]>> = e
    BY <2>2
  <2> QED BY <1>1, <2>2, <2>3
<1>4. ASSUME NEW x \in HNodes, NEW v \in HNodes PROVE <<x, v>> \in GA <=> <<v, x>> \in G
  <2>1. ASSUME <<x, v>> \in GA PROVE <<v, x>> \in G
    BY <1>3, <2>1
  <2>2. ASSUME <<v, x>> \in G PROVE <<x, v>> \in GA
    BY <2>2
  <2> QED BY <2>1, <2>2
<1> QED BY <1>2, <1>3, <1>4

LEMMA BackTestHB ==
  ASSUME NEW Rch, NEW lev, NEW sg, NEW rho, NEW k, Rch \subseteq HNodes,
         BackCallHB(Rch, lev, sg, rho, k), NEW e \in todo, HB!Test(e)
  PROVE  BackCallHB(Rch, lev, sg, rho, k)'
<1>1. /\ CallOn(HNodes, rho) /\ (\A y \in DOMAIN regs : regs[y].at = "read")
      /\ todo \cap DOMAIN regs = {} /\ (\A y \in DOMAIN regs : ~Touched[y[2]])
      /\ \A v \in Rch : lev[v] < k => ~Touched[v]
           /\ Dependencies[v] = Times(sg)[v] * SumOver(Answered(HNodes, rho, v), HNodes)
  BY DEF BackCallHB, CallOn
<1>2. SameBC /\ NumPaths' = NumPaths /\ Dependencies' = Dependencies
  BY DEF HB!Test, HB!mainVars, HB!bcVars, SameBC
<1>3. BT!OutOf(Frontier)' = BT!OutOf(Frontier)
  BY <1>2 DEF BT!OutOf, SameBC
<1>4. CASE ~Touched[e[2]]
  <2>1. todo' = todo \ {e}
        /\ regs' = [x \in DOMAIN regs \cup {e} |-> IF x = e THEN [at |-> "read"] ELSE regs[x]]
    BY <1>4 DEF HB!Test, HB!Enter
  <2>2. Flight' = Flight /\ todo' \cap DOMAIN regs' = {}
    BY <1>1, <2>1 DEF Flight
  <2>3. \A v \in Rch : Answered(HNodes, rho, v)' = Answered(HNodes, rho, v)
    BY <1>2, <2>2 DEF Answered, SameBC
  <2>4. \A y \in DOMAIN regs' : ~Touched[y[2]] /\ regs'[y].at = "read"
    BY <1>1, <1>4, <2>1
  <2>5. CallOn(HNodes, rho)'
    BY <1>1, <1>2, <1>3, <2>2, <2>4 DEF CallOn, SameBC
  <2> QED BY <1>2, <2>3, <2>4, <2>5 DEF BackCallHB, SameBC
<1>5. CASE Touched[e[2]]
  <2>1. todo' = todo \ {e} /\ regs' = regs
    BY <1>5 DEF HB!Test, HB!Pass
  <2>2. Flight' = Flight \ {e} /\ todo' \cap DOMAIN regs' = {} /\ e \in Flight
    BY <1>1, <2>1 DEF Flight
  <2>3. ASSUME NEW v \in Rch, lev[v] < k
        PROVE  SumOver(Answered(HNodes, rho, v)', HNodes) = SumOver(Answered(HNodes, rho, v), HNodes)
    <3>1. e[2] # v /\ v \in HNodes
      BY <1>1, <1>5, <2>3
    <3>2. /\ SumOver(Answered(HNodes, rho, v), HNodes) \in Nat
          /\ SumOver(Answered(HNodes, rho, v)', HNodes) =
               SumOver(Answered(HNodes, rho, v), HNodes) + IF e[2] = v THEN rho[e[1]] ELSE 0
      BY <1>1, <1>2, <2>2, <3>1, AnswerAdds DEF SameBC
    <3> QED BY <3>1, <3>2
  <2>4. CallOn(HNodes, rho)'
    BY <1>1, <1>2, <1>3, <2>1, <2>2 DEF CallOn, SameBC
  <2>5. \A v \in Rch : lev[v] < k => Dependencies'[v] = Times(sg)[v] * SumOver(Answered(HNodes, rho, v)', HNodes)
    BY <1>1, <1>2, <2>3
  <2> QED BY <1>1, <1>2, <2>1, <2>4, <2>5 DEF BackCallHB, SameBC
<1> QED BY <1>4, <1>5 DEF HB!Test

LEMMA Adding ==
  ASSUME NEW a \in Nat, NEW b \in Nat, NEW c \in Nat
  PROVE  /\ a * b + a * c = a * (b + c) /\ a * b \in Nat /\ a * b = b * a /\ 1 * b = b /\ a * 0 = 0
         /\ b <= c => a * (c - b) + b * a = a * c
OBVIOUS

\* A share that is added.
LEMMA AddShareHB ==
  ASSUME NEW G, NEW Rch, NEW lev, NEW sg, NEW q, NEW rho, NEW k, TablesHB(G, Rch, lev, sg, q, rho),
         TurnedHB(G, Rch, lev, sg, turn), BackCallHB(Rch, lev, sg, rho, k), k \in Nat,
         stage \in {"toH", "toV"}, stage = "toH" <=> Even(k), NEW e \in DOMAIN regs, HB!AddShare(e)
  PROVE  BackCallHB(Rch, lev, sg, rho, k)'
<1> DEFINE share == IF stage = "toH" THEN Dependencies[e[1]] \div NumPaths[e[1]]
                    ELSE Dependencies[e[1]] * NumPaths[e[2]]
           s == e[1]
           d == e[2]
<1>1. /\ CallOn(HNodes, rho) /\ (\A y \in DOMAIN regs : regs[y].at = "read")
      /\ todo \cap DOMAIN regs = {} /\ (\A y \in DOMAIN regs : ~Touched[y[2]])
      /\ Frontier = LevelSet(Rch, lev, k) /\ Dependencies \in [HNodes -> Nat]
      /\ \A v \in Rch : (v \in HBVerts /\ lev[v] >= k) \/ lev[v] = k =>
           Touched[v] /\ Dependencies[v] = Times(sg)[v] * rho[v]
      /\ \A v \in Rch : lev[v] < k => ~Touched[v]
           /\ Dependencies[v] = Times(sg)[v] * SumOver(Answered(HNodes, rho, v), HNodes)
  BY DEF BackCallHB, CallOn
<1>2. SameBC /\ NumPaths' = NumPaths /\ Dependencies' = [Dependencies EXCEPT ![d] = Dependencies[d] + share]
      /\ regs' = [x \in DOMAIN regs \ {e} |-> regs[x]] /\ todo' = todo
  BY DEF HB!AddShare, HB!Answer, HB!mainVars, SameBC
<1>3. BT!OutOf(Frontier)' = BT!OutOf(Frontier)
  BY <1>2 DEF BT!OutOf, SameBC
<1>4. /\ IsFiniteSet(HNodes) /\ Rch \subseteq HNodes
      /\ \A v \in Rch : lev[v] \in Nat /\ sg[v] \in Nat /\ sg[v] > 0 /\ rho[v] \in Nat /\ Times(sg)[v] \in Nat
      /\ \A v \in Rch : v \in HBVerts <=> Even(lev[v])
  BY TablesAreHB
<1>5. GA = {<<y[2], y[1]>> : y \in G} /\ NumPaths = [v \in HNodes |-> IF v \in Rch THEN sg[v] ELSE 0]
  BY DEF TurnedHB
<1>6. e \in GA /\ e \in Flight /\ s \in Frontier /\ s \in HNodes /\ d \in HNodes /\ ~Touched[d]
  BY <1>1 DEF Flight, BT!OutOf, CallOn
<1>7. s \in HBVerts <=> d \notin HBVerts
  BY <1>5, <1>6, EdgesTurned
<1>8. s \in Rch /\ lev[s] = k /\ Dependencies[s] = Times(sg)[s] * rho[s] /\ (s \in HBVerts <=> Even(k))
      /\ rho[s] \in Nat
  <2>1. s \in Rch /\ lev[s] = k
    BY <1>1, <1>6 DEF LevelSet
  <2> QED BY <1>1, <1>4, <2>1
<1>9. \A x \in HNodes : Times(sg)[x] = IF x \in HBVerts THEN sg[x] ELSE 1
  BY DEF Times
<1> HIDE DEF s, d
<1>10. share \in Nat /\ (d \in Rch => share = Times(sg)[d] * rho[s])
  <2>1. CASE stage = "toH"
    <3>1. s \in HBVerts /\ d \notin HBVerts
      BY <1>7, <1>8, <2>1
    <3>2. Dependencies[s] = sg[s] * rho[s] /\ NumPaths[s] = sg[s] /\ sg[s] \in Nat /\ sg[s] # 0
      BY <1>4, <1>5, <1>6, <1>8, <1>9, <3>1
    <3>3. (rho[s] * sg[s]) \div sg[s] = rho[s] /\ rho[s] * sg[s] = sg[s] * rho[s] /\ 1 * rho[s] = rho[s]
      BY <1>8, <3>2, MultipleDiv, Adding
    <3>4. share = rho[s]
      BY <2>1, <3>2, <3>3 DEF s
    <3>5. Times(sg)[d] = 1
      BY <1>6, <1>9, <3>1
    <3> QED BY <1>8, <3>3, <3>4, <3>5
  <2>2. CASE stage # "toH"
    <3>1. s \notin HBVerts /\ d \in HBVerts
      BY <1>7, <1>8, <2>2
    <3>2. Dependencies[s] = rho[s]
      BY <1>6, <1>8, <1>9, <3>1
    <3>3. share = rho[s] * NumPaths[d]
      BY <2>2, <3>2 DEF s, d
    <3>4. NumPaths[d] = (IF d \in Rch THEN sg[d] ELSE 0) /\ (d \in Rch => NumPaths[d] \in Nat)
      BY <1>4, <1>5, <1>6
    <3>5. NumPaths[d] \in Nat
      BY <3>4
    <3>6. rho[s] * NumPaths[d] \in Nat /\ rho[s] * NumPaths[d] = NumPaths[d] * rho[s]
      BY <1>8, <3>5, Adding
    <3> QED BY <1>6, <1>9, <3>1, <3>3, <3>4, <3>6
  <2> QED BY <2>1, <2>2
<1> HIDE DEF share
<1>11. Flight' = Flight \ {e} /\ todo' \cap DOMAIN regs' = {} /\ DOMAIN regs' = DOMAIN regs \ {e}
  BY <1>1, <1>2 DEF Flight
<1>12. Dependencies' \in [HNodes -> Nat] /\ (\A v \in HNodes : v # d => Dependencies'[v] = Dependencies[v])
       /\ Dependencies'[d] = Dependencies[d] + share
  BY <1>1, <1>2, <1>6, <1>10
<1>13. ASSUME NEW v \in Rch, lev[v] < k
       PROVE  Dependencies'[v] = Times(sg)[v] * SumOver(Answered(HNodes, rho, v)', HNodes)
  <2> DEFINE old == SumOver(Answered(HNodes, rho, v), HNodes)
             new == SumOver(Answered(HNodes, rho, v)', HNodes)
  <2>1. v \in HNodes /\ old \in Nat /\ new = old + IF d = v THEN rho[s] ELSE 0
    BY <1>1, <1>2, <1>4, <1>6, <1>11, AnswerAdds DEF SameBC, s, d
  <2>2. Dependencies[v] = Times(sg)[v] * old /\ Times(sg)[v] \in Nat
    BY <1>1, <1>4, <1>13
  <2> HIDE DEF old, new
  <2>3. CASE d = v
    <3>1. Dependencies'[v] = Times(sg)[v] * old + Times(sg)[v] * rho[s]
      BY <1>10, <1>12, <2>2, <2>3
    <3>2. Times(sg)[v] * old + Times(sg)[v] * rho[s] = Times(sg)[v] * (old + rho[s])
      BY <1>8, <2>1, <2>2, Adding
    <3> QED BY <2>1, <2>3, <3>1, <3>2 DEF new
  <2>4. CASE d # v
    <3>1. new = old
      BY <2>1, <2>4
    <3>2. Dependencies'[v] = Dependencies[v]
      BY <1>12, <2>1, <2>4
    <3> QED BY <2>2, <3>1, <3>2 DEF new
  <2> QED BY <2>3, <2>4
<1>14. \A v \in Rch : (v \in HBVerts /\ lev[v] >= k) \/ lev[v] = k =>
         Touched[v] /\ Dependencies'[v] = Times(sg)[v] * rho[v]
  BY <1>1, <1>4, <1>6, <1>12
<1>15. CallOn(HNodes, rho)'
  BY <1>1, <1>2, <1>3, <1>11 DEF CallOn, SameBC
<1>16. \A y \in DOMAIN regs' : regs'[y].at = "read"
  BY <1>1, <1>2
<1> QED BY <1>1, <1>2, <1>12, <1>13, <1>14, <1>15, <1>16 DEF BackCallHB, SameBC

\* When a call of the second phase has returned, the level before it has all but its worth,
\* and what lies before that has nothing.
LEMMA ReturnedHB ==
  ASSUME NEW G, NEW Rch, NEW lev, NEW sg, NEW q, NEW rho, NEW k \in Nat, TablesHB(G, Rch, lev, sg, q, rho),
         TurnedHB(G, Rch, lev, sg, turn), BackCallHB(Rch, lev, sg, rho, k), BT!Returned
  PROVE  \A v \in Rch : /\ lev[v] + 1 = k => Dependencies[v] = Times(sg)[v] * (rho[v] - q[v]) /\ q[v] <= rho[v]
                        /\ lev[v] + 1 < k => Dependencies[v] = 0
<1>1. /\ CallOn(HNodes, rho) /\ Frontier = LevelSet(Rch, lev, k)
      /\ \A v \in Rch : lev[v] < k => ~Touched[v]
           /\ Dependencies[v] = Times(sg)[v] * SumOver(Answered(HNodes, rho, v), HNodes)
  BY DEF BackCallHB
<1>2. /\ IsFiniteSet(HNodes) /\ Rch \subseteq HNodes
      /\ \A v \in Rch : lev[v] \in Nat /\ q[v] \in Nat /\ rho[v] \in Nat /\ Times(sg)[v] \in Nat
  BY TablesAreHB
<1>3. Ranked(G, HNodes, start, Rch, lev, sg) /\ Passed(G, HNodes, Rch, lev, q, rho)
  BY DEF TablesHB
<1>4. \A x \in HNodes, v \in HNodes : <<x, v>> \in GA <=> <<v, x>> \in G
  BY EdgesTurned DEF TurnedHB
<1>5. Flight = {}
  BY DEF BT!Returned, Flight
<1>6. ASSUME NEW v \in Rch, lev[v] < k
      PROVE  Dependencies[v] = Times(sg)[v] * SumOver(Outgoing(G, HNodes, LevelSet(Rch, lev, k), rho, v), HNodes)
  <2>1. Answered(HNodes, rho, v) = Outgoing(G, HNodes, LevelSet(Rch, lev, k), rho, v)
    BY <1>1, <1>2, <1>4, <1>5 DEF Answered, Outgoing
  <2> QED BY <1>1, <1>6, <2>1
<1>7. ASSUME NEW v \in Rch, lev[v] + 1 = k
      PROVE  Dependencies[v] = Times(sg)[v] * (rho[v] - q[v]) /\ q[v] <= rho[v]
  <2> DEFINE f == Outgoing(G, HNodes, LevelSet(Rch, lev, k), rho, v)
  <2>1. rho[v] = q[v] + SumOver(f, HNodes)
    BY <1>3, <1>7 DEF Passed
  <2>2. Dependencies[v] = Times(sg)[v] * SumOver(f, HNodes)
    BY <1>2, <1>6, <1>7
  <2>3. NatOn(f, HNodes)
    <3> SUFFICES ASSUME NEW x \in HNodes PROVE f[x] \in Nat
      BY DEF NatOn
    <3>1. f[x] = 0 \/ (x \in Rch /\ f[x] = rho[x])
      BY DEF Outgoing, LevelSet
    <3> QED BY <1>2, <3>1
  <2> HIDE DEF f
  <2>4. SumOver(f, HNodes) \in Nat
    BY <1>2, <2>3, SumBounds
  <2>5. rho[v] - q[v] = SumOver(f, HNodes) /\ q[v] <= rho[v]
    BY <1>2, <2>1, <2>4
  <2> QED BY <2>2, <2>5
<1>8. ASSUME NEW v \in Rch, lev[v] + 1 < k PROVE Dependencies[v] = 0
  <2> DEFINE f == Outgoing(G, HNodes, LevelSet(Rch, lev, k), rho, v)
  <2>1. \A x \in HNodes : <<v, x>> \in G => lev[x] # k
    <3> SUFFICES ASSUME NEW x \in HNodes, <<v, x>> \in G, lev[x] = k PROVE FALSE
      OBVIOUS
    <3>1. x \in Rch /\ lev[x] <= lev[v] + 1
      BY <1>3 DEF Ranked
    <3> QED BY <1>2, <1>8, <3>1
  <2>2. \A x \in HNodes : f[x] = 0
    BY <2>1 DEF Outgoing, LevelSet
  <2>3. Dependencies[v] = Times(sg)[v] * SumOver(f, HNodes)
    BY <1>2, <1>6, <1>8
  <2> HIDE DEF f
  <2>4. SumOver(f, HNodes) = 0
    BY <1>2, <2>2, SumOfZeros
  <2> QED BY <1>2, <2>3, <2>4
<1> QED BY <1>7, <1>8

\* Such a call begins.
LEMMA BackBeginsHB ==
  ASSUME NEW G, NEW Rch, NEW lev, NEW sg, NEW q, NEW rho, NEW k \in Nat, TablesHB(G, Rch, lev, sg, q, rho),
         GA' = GA, GA = {<<e[2], e[1]>> : e \in G},
         Frontier' = LevelSet(Rch, lev, k), todo' = {e \in GA : e[1] \in LevelSet(Rch, lev, k)}, regs' = <<>>,
         Dependencies' \in [HNodes -> Nat],
         \A v \in Rch : (v \in HBVerts /\ lev[v] >= k) \/ lev[v] = k =>
           Touched'[v] /\ Dependencies'[v] = Times(sg)[v] * rho[v],
         \A v \in Rch : lev[v] < k => ~Touched'[v] /\ Dependencies'[v] = 0
  PROVE  BackCallHB(Rch, lev, sg, rho, k)'
<1>1. /\ IsFiniteSet(HNodes) /\ Rch \subseteq HNodes /\ \A v \in Rch : rho[v] \in Nat /\ Times(sg)[v] \in Nat
  BY TablesAreHB
<1>2. GA \subseteq HNodes \X HNodes
  BY EdgesTurned
<1>3. Flight' = {e \in GA : e[1] \in LevelSet(Rch, lev, k)} /\ DOMAIN regs' = {}
      /\ BT!OutOf(Frontier)' = {e \in GA : e[1] \in LevelSet(Rch, lev, k)}
  BY DEF Flight, BT!OutOf
<1>4. CallOn(HNodes, rho)'
  <2>1. Frontier' \subseteq HNodes /\ NatOn(rho, Frontier)'
    BY <1>1 DEF LevelSet, NatOn
  <2> QED BY <1>1, <1>2, <1>3, <2>1 DEF CallOn
<1>5. ASSUME NEW v \in Rch, lev[v] < k
      PROVE  Dependencies'[v] = Times(sg)[v] * SumOver(Answered(HNodes, rho, v)', HNodes)
  <2> DEFINE f == Answered(HNodes, rho, v)'
  <2>1. \A x \in HNodes : f[x] = 0
    BY <1>3 DEF Answered
  <2> HIDE DEF f
  <2>2. SumOver(f, HNodes) = 0
    BY <1>1, <2>1, SumOfZeros
  <2> QED BY <1>1, <1>5, <2>2 DEF f
<1> QED BY <1>3, <1>4, <1>5 DEF BackCallHB

PhasesHB(G, Rch, lev, sg, q, rho) ==
  /\ stage \in {"loop", "forth", "turn", "back", "toH", "toV"}
  /\ stage \in {"loop", "turn"} => /\ ForthBC(HNodes, G, Rch, lev, sg, turn) /\ RestBC(HNodes)
                                   /\ BT!Returned
  /\ stage = "loop" => Frontier # {}
  /\ stage = "turn" => Frontier = {} /\ turn > 0
  /\ stage = "forth" => /\ turn \in Nat /\ turn > 0 /\ Frontier # {}
                        /\ ForthBC(HNodes, G, Rch, lev, sg, turn - 1)
                        /\ CallBC(HNodes, sg, HNodes) /\ OutBC(HNodes, sg)
  /\ stage \in {"back", "toH", "toV"} => TurnedHB(G, Rch, lev, sg, turn)
  /\ stage = "back" =>
       /\ BT!Returned /\ Dependencies \in [HNodes -> Nat]
       /\ \A v \in Rch : /\ v \in HBVerts /\ lev[v] > turn =>
                              Touched[v] /\ Dependencies[v] = Times(sg)[v] * rho[v]
                         /\ lev[v] = turn =>
                              Dependencies[v] = Times(sg)[v] * (rho[v] - q[v]) /\ q[v] <= rho[v]
                         /\ lev[v] < turn => Dependencies[v] = 0
                         /\ lev[v] <= turn => ~Touched[v]
  /\ stage = "toH" => turn > 0 /\ BackCallHB(Rch, lev, sg, rho, turn)
  /\ stage = "toV" => turn > 0 /\ BackCallHB(Rch, lev, sg, rho, turn - 1)

LEMMA ForwardHB ==
  ASSUME NEW G, NEW Rch, NEW lev, NEW sg, NEW q, NEW rho, TablesHB(G, Rch, lev, sg, q, rho),
         PhasesHB(G, Rch, lev, sg, q, rho), HB!Forward
  PROVE  PhasesHB(G, Rch, lev, sg, q, rho)'
<1>1. /\ stage = "loop" /\ stage' = "forth" /\ turn' = turn + 1
      /\ todo' = BT!OutOf(Frontier) /\ regs' = <<>> /\ out' = {}
      /\ GA' = GA /\ Frontier' = Frontier /\ NumPaths' = NumPaths /\ Touched' = Touched
      /\ Levels' = Levels /\ Dependencies' = Dependencies
  BY DEF HB!Forward, HB!Begin, HB!OutOf, BT!OutOf
<1>2. ForthBC(HNodes, G, Rch, lev, sg, turn) /\ RestBC(HNodes) /\ Frontier # {}
  BY <1>1 DEF PhasesHB
<1>3. G \subseteq HNodes \X HNodes /\ Ranked(G, HNodes, start, Rch, lev, sg)
  BY TablesAreHB DEF TablesHB
<1>4. /\ turn' \in Nat /\ turn' > 0 /\ ForthBC(HNodes, G, Rch, lev, sg, turn - 1)'
      /\ CallBC(HNodes, sg, HNodes)' /\ OutBC(HNodes, sg)'
  BY <1>1, <1>2, <1>3, CountLevel
<1> QED BY <1>1, <1>2, <1>4 DEF PhasesHB

LEMMA EndForwardHB ==
  ASSUME NEW G, NEW Rch, NEW lev, NEW sg, NEW q, NEW rho, TablesHB(G, Rch, lev, sg, q, rho),
         PhasesHB(G, Rch, lev, sg, q, rho), HB!EndForward
  PROVE  PhasesHB(G, Rch, lev, sg, q, rho)'
<1>1. /\ stage = "forth" /\ BT!Returned /\ stage' = (IF out = {} THEN "turn" ELSE "loop")
      /\ Touched' = [v \in HNodes |-> Touched[v] \/ v \in out]
      /\ Levels' = Append(Levels, out) /\ Frontier' = out
      /\ GA' = GA /\ turn' = turn /\ NumPaths' = NumPaths /\ Dependencies' = Dependencies
      /\ todo' = todo /\ regs' = regs
  BY DEF HB!EndForward, HB!callVars, HB!Returned, BT!Returned, HB!Nodes, HNodes
<1>2. /\ turn \in Nat /\ turn > 0 /\ Frontier # {} /\ ForthBC(HNodes, G, Rch, lev, sg, turn - 1)
      /\ CallBC(HNodes, sg, HNodes) /\ OutBC(HNodes, sg)
  BY <1>1 DEF PhasesHB
<1>3. G \subseteq HNodes \X HNodes /\ Ranked(G, HNodes, start, Rch, lev, sg)
  BY TablesAreHB DEF TablesHB
<1>4. ForthBC(HNodes, G, Rch, lev, sg, turn)' /\ RestBC(HNodes)'
  <2>1. TakeLevel(HNodes)
    BY <1>1 DEF TakeLevel
  <2> QED BY <1>1, <1>2, <1>3, <2>1, NextLevelBC
<1>5. BT!Returned'
  BY <1>1 DEF BT!Returned
<1>6. stage' \in {"loop", "turn"} /\ (stage' = "loop" => Frontier' # {}) /\ (stage' = "turn" => Frontier' = {})
      /\ turn' > 0
  BY <1>1, <1>2
<1> QED BY <1>4, <1>5, <1>6 DEF PhasesHB

LEMMA Between ==
  ASSUME NEW i \in Nat, NEW j \in Nat, NEW k \in Nat, i < j, j < k
  PROVE  i + 1 # k /\ (i + 2 = k => j = i + 1)
OBVIOUS

\* After the turn: the last level of vertices, which nothing that counts lies behind.
LEMMA TurnRoundHB ==
  ASSUME NEW G, NEW Rch, NEW lev, NEW sg, NEW q, NEW rho, TablesHB(G, Rch, lev, sg, q, rho),
         PhasesHB(G, Rch, lev, sg, q, rho), HB!TurnRound
  PROVE  PhasesHB(G, Rch, lev, sg, q, rho)'
<1>1. /\ stage = "turn" /\ stage' = "back" /\ turn' = (IF Even(turn) THEN turn - 2 ELSE turn - 1)
      /\ Touched' = [v \in HNodes |-> FALSE] /\ GA' = {<<e[2], e[1]>> : e \in GA}
      /\ todo' = todo /\ regs' = regs /\ NumPaths' = NumPaths /\ Levels' = Levels /\ Dependencies' = Dependencies
  BY DEF HB!TurnRound, HB!callVars, HB!Nodes, HNodes, Even
<1>2. ForthBC(HNodes, G, Rch, lev, sg, turn) /\ RestBC(HNodes) /\ BT!Returned /\ Frontier = {} /\ turn > 0
  BY <1>1 DEF PhasesHB
<1>3. /\ IsFiniteSet(HNodes) /\ Rch \subseteq HNodes
      /\ \A v \in Rch : lev[v] \in Nat /\ q[v] \in Nat /\ rho[v] \in Nat /\ Times(sg)[v] \in Nat
      /\ \A v \in Rch : v \in HBVerts <=> Even(lev[v])
  BY TablesAreHB
<1>4. /\ turn \in Nat /\ GA = G /\ LevelSet(Rch, lev, turn) = {}
      /\ \A v \in HNodes : Touched[v] <=> v \in Rch /\ lev[v] <= turn
      /\ Levels \in Seq(SUBSET HNodes) /\ Len(Levels) = turn + 1
      /\ \A j \in 0 .. turn : Levels[j + 1] = LevelSet(Rch, lev, j)
      /\ Dependencies = [v \in HNodes |-> 0] /\ NumPaths \in [HNodes -> Nat]
      /\ \A v \in HNodes : Touched[v] => NumPaths[v] = sg[v]
  BY <1>2 DEF ForthBC
<1>5. Ranked(G, HNodes, start, Rch, lev, sg) /\ Passed(G, HNodes, Rch, lev, q, rho)
      /\ \A v \in Rch : v \notin HBVerts => q[v] = 0
  BY DEF TablesHB
<1>6. \A v \in Rch : lev[v] < turn
  BY <1>4, <1>5, NobodyLater
<1>7. /\ turn' \in Nat /\ Even(turn') /\ turn' < turn
      /\ turn' + 1 = turn \/ (turn' + 2 = turn /\ ~Even(turn' + 1))
  <2>1. turn \in Nat /\ turn > 0
    BY <1>2, <1>4
  <2>2. CASE Even(turn)
    <3>1. turn' = turn - 2 /\ turn >= 2 /\ Even(turn - 2)
      BY <1>1, <2>1, <2>2, EvenOdd
    <3>2. turn' \in Nat /\ turn' < turn /\ turn' + 2 = turn
      BY <2>1, <3>1
    <3> QED BY <3>1, <3>2, EvenOdd
  <2>3. CASE ~Even(turn)
    <3>1. turn' = turn - 1 /\ Even(turn - 1)
      BY <1>1, <2>1, <2>3, EvenOdd
    <3> QED BY <2>1, <3>1
  <2> QED BY <2>2, <2>3
<1>8. NumPaths = [v \in HNodes |-> IF v \in Rch THEN sg[v] ELSE 0]
  <2>1. \A v \in HNodes : NumPaths[v] = IF v \in Rch THEN sg[v] ELSE 0
    BY <1>2, <1>3, <1>4, <1>6 DEF RestBC
  <2> QED BY <1>4, <2>1
<1>9. ASSUME NEW v \in Rch, lev[v] + 1 = turn PROVE rho[v] = q[v]
  <2> DEFINE f == Outgoing(G, HNodes, LevelSet(Rch, lev, lev[v] + 1), rho, v)
  <2>1. \A x \in HNodes : f[x] = 0
    BY <1>4, <1>9 DEF Outgoing
  <2>2. rho[v] = q[v] + SumOver(f, HNodes)
    BY <1>5 DEF Passed
  <2> HIDE DEF f
  <2>3. SumOver(f, HNodes) = 0
    BY <1>3, <2>1, SumOfZeros
  <2> QED BY <1>3, <2>2, <2>3
<1>10. ASSUME NEW v \in Rch, lev[v] = turn' PROVE rho[v] = q[v]
  <2>1. CASE turn' + 1 = turn
    BY <1>9, <1>10, <2>1
  <2>2. CASE turn' + 2 = turn /\ ~Even(turn' + 1)
    <3> DEFINE f == Outgoing(G, HNodes, LevelSet(Rch, lev, lev[v] + 1), rho, v)
    <3>1. ASSUME NEW x \in Rch, lev[x] = turn' + 1 PROVE rho[x] = 0
      <4>1. lev[x] + 1 = turn /\ x \notin HBVerts
        BY <1>3, <1>7, <2>2, <3>1
      <4> QED BY <1>5, <1>9, <4>1
    <3>2. \A x \in HNodes : f[x] = 0
      BY <1>10, <3>1 DEF Outgoing, LevelSet
    <3>3. rho[v] = q[v] + SumOver(f, HNodes)
      BY <1>5 DEF Passed
    <3> HIDE DEF f
    <3>4. SumOver(f, HNodes) = 0
      BY <1>3, <3>2, SumOfZeros
    <3> QED BY <1>3, <3>3, <3>4
  <2> QED BY <1>7, <2>1, <2>2
<1>11. TurnedHB(G, Rch, lev, sg, turn)'
  <2>1. Len(Levels') > turn' /\ \A j \in 0 .. turn' : Levels'[j + 1] = LevelSet(Rch, lev, j)
    BY <1>1, <1>4, <1>7
  <2> QED BY <1>1, <1>4, <1>7, <1>8, <2>1 DEF TurnedHB
<1>12. Dependencies' \in [HNodes -> Nat] /\ \A v \in Rch : Dependencies'[v] = 0 /\ ~Touched'[v]
  BY <1>1, <1>3, <1>4
<1>13. ASSUME NEW v \in Rch
       PROVE  /\ v \in HBVerts /\ lev[v] > turn' => FALSE
              /\ lev[v] = turn' => Dependencies'[v] = Times(sg)[v] * (rho[v] - q[v]) /\ q[v] <= rho[v]
  <2>1. ~(v \in HBVerts /\ lev[v] > turn')
    <3> SUFFICES ASSUME v \in HBVerts, lev[v] > turn' PROVE FALSE
      OBVIOUS
    <3>1. Even(lev[v]) /\ lev[v] < turn /\ lev[v] \in Nat
      BY <1>3, <1>6
    <3>2. turn \in Nat /\ turn' \in Nat
      BY <1>4, <1>7
    <3>3. turn' + 1 # turn /\ (turn' + 2 = turn => lev[v] = turn' + 1)
      BY <3>1, <3>2, Between
    <3>4. turn' + 2 = turn /\ ~Even(turn' + 1)
      BY <1>7, <3>3
    <3>5. lev[v] = turn' + 1
      BY <3>3, <3>4
    <3> QED BY <3>1, <3>4, <3>5
  <2>2. ASSUME lev[v] = turn' PROVE Dependencies'[v] = Times(sg)[v] * (rho[v] - q[v]) /\ q[v] <= rho[v]
    <3>1. rho[v] - q[v] = 0 /\ q[v] <= rho[v] /\ Times(sg)[v] * 0 = 0
      BY <1>3, <1>10, <2>2
    <3> QED BY <1>12, <3>1
  <2> QED BY <2>1, <2>2
<1>14. BT!Returned'
  BY <1>1, <1>2 DEF BT!Returned
<1> QED BY <1>1, <1>11, <1>12, <1>13, <1>14 DEF PhasesHB

LEMMA FromVerticesHB ==
  ASSUME NEW G, NEW Rch, NEW lev, NEW sg, NEW q, NEW rho, TablesHB(G, Rch, lev, sg, q, rho),
         PhasesHB(G, Rch, lev, sg, q, rho), HB!FromVertices
  PROVE  PhasesHB(G, Rch, lev, sg, q, rho)'
<1>1. /\ stage = "back" /\ turn > 0 /\ stage' = "toH" /\ Frontier' = Levels[turn + 1]
      /\ Touched' = [x \in HNodes |-> Touched[x] \/ x \in Levels[turn + 1]]
      /\ Dependencies' = [x \in HNodes |-> IF x \in Levels[turn + 1]
                                           THEN Dependencies[x] + Scale ELSE Dependencies[x]]
      /\ todo' = {e \in GA : e[1] \in Levels[turn + 1]} /\ regs' = <<>>
      /\ GA' = GA /\ turn' = turn /\ NumPaths' = NumPaths /\ Levels' = Levels
  BY DEF HB!FromVertices, HB!Begin, HB!OutOf, HB!Nodes, HNodes
<1>2. /\ TurnedHB(G, Rch, lev, sg, turn) /\ Dependencies \in [HNodes -> Nat]
      /\ \A v \in Rch : /\ v \in HBVerts /\ lev[v] > turn =>
                             Touched[v] /\ Dependencies[v] = Times(sg)[v] * rho[v]
                        /\ lev[v] = turn =>
                             Dependencies[v] = Times(sg)[v] * (rho[v] - q[v]) /\ q[v] <= rho[v]
                        /\ lev[v] < turn => Dependencies[v] = 0
                        /\ lev[v] <= turn => ~Touched[v]
  BY <1>1 DEF PhasesHB
<1>3. turn \in Nat /\ Even(turn) /\ GA = {<<e[2], e[1]>> : e \in G}
      /\ Levels[turn + 1] = LevelSet(Rch, lev, turn)
  BY <1>2 DEF TurnedHB
<1>4. /\ Rch \subseteq HNodes /\ lev[start] = 0 /\ Scale \in Nat
      /\ \A v \in Rch : /\ lev[v] \in Nat /\ sg[v] \in Nat /\ q[v] \in Nat /\ rho[v] \in Nat
                        /\ Times(sg)[v] \in Nat
      /\ \A v \in Rch : v \in HBVerts <=> Even(lev[v])
  BY TablesAreHB
<1>5. \A v \in Rch : v \in HBVerts /\ v # start => Scale = q[v] * sg[v]
  BY DEF TablesHB
<1>6. \A v \in HNodes : v \in Levels[turn + 1] <=> v \in Rch /\ lev[v] = turn
  BY <1>3 DEF LevelSet
<1>7. ASSUME NEW v \in Rch, lev[v] = turn
      PROVE  Touched'[v] /\ Dependencies'[v] = Times(sg)[v] * rho[v]
  <2>1. v \in HNodes /\ v \in HBVerts /\ v # start
    BY <1>1, <1>3, <1>4, <1>7
  <2>2. Touched'[v] /\ Dependencies'[v] = Dependencies[v] + Scale
    BY <1>1, <1>6, <1>7, <2>1
  <2>3. Dependencies[v] = sg[v] * (rho[v] - q[v]) /\ q[v] <= rho[v] /\ Times(sg)[v] = sg[v]
    BY <1>2, <1>7, <2>1 DEF Times
  <2>4. Scale = q[v] * sg[v]
    BY <1>5, <2>1
  <2>5. sg[v] * (rho[v] - q[v]) + q[v] * sg[v] = sg[v] * rho[v]
    BY <1>4, <2>3, Adding
  <2> QED BY <2>2, <2>3, <2>4, <2>5
<1>8. ASSUME NEW v \in Rch, lev[v] # turn
      PROVE  (Touched'[v] <=> Touched[v]) /\ Dependencies'[v] = Dependencies[v]
  BY <1>1, <1>4, <1>6, <1>8
<1>9. Dependencies' \in [HNodes -> Nat]
  <2>1. \A x \in HNodes : Dependencies[x] \in Nat /\ Dependencies[x] + Scale \in Nat
    BY <1>2, <1>4
  <2> QED BY <1>1, <2>1
<1>10. PICK k \in Nat : k = turn
  BY <1>3
<1>11. \A v \in Rch : (v \in HBVerts /\ lev[v] >= k) \/ lev[v] = k =>
         Touched'[v] /\ Dependencies'[v] = Times(sg)[v] * rho[v]
  <2> TAKE v \in Rch
  <2>1. CASE lev[v] = k
    BY <1>7, <1>10, <2>1
  <2>2. CASE v \in HBVerts /\ lev[v] > k
    <3>1. Touched[v] /\ Dependencies[v] = Times(sg)[v] * rho[v] /\ lev[v] # turn
      BY <1>2, <1>4, <1>10, <2>2
    <3> QED BY <1>8, <3>1
  <2> QED BY <1>4, <2>1, <2>2
<1>12. \A v \in Rch : lev[v] < k => ~Touched'[v] /\ Dependencies'[v] = 0
  <2> SUFFICES ASSUME NEW v \in Rch, lev[v] < k PROVE ~Touched'[v] /\ Dependencies'[v] = 0
    OBVIOUS
  <2>1. lev[v] # turn /\ lev[v] < turn /\ lev[v] <= turn
    BY <1>4, <1>10
  <2> QED BY <1>2, <1>8, <2>1
<1>13. BackCallHB(Rch, lev, sg, rho, k)'
  <2>1. Frontier' = LevelSet(Rch, lev, k) /\ todo' = {e \in GA : e[1] \in LevelSet(Rch, lev, k)}
    BY <1>1, <1>3, <1>10
  <2> QED BY <1>1, <1>3, <1>9, <1>11, <1>12, <2>1, BackBeginsHB
<1>14. BackCallHB(Rch, lev, sg, rho, turn)'
  BY <1>1, <1>10, <1>13 DEF BackCallHB
<1>15. TurnedHB(G, Rch, lev, sg, turn)'
  BY <1>1, <1>2 DEF TurnedHB
<1> QED BY <1>1, <1>14, <1>15 DEF PhasesHB

LEMMA FromHyperedgesHB ==
  ASSUME NEW G, NEW Rch, NEW lev, NEW sg, NEW q, NEW rho, TablesHB(G, Rch, lev, sg, q, rho),
         PhasesHB(G, Rch, lev, sg, q, rho), HB!FromHyperedges
  PROVE  PhasesHB(G, Rch, lev, sg, q, rho)'
<1>1. /\ stage = "toH" /\ BT!Returned /\ stage' = "toV" /\ Frontier' = Levels[turn]
      /\ Touched' = [x \in HNodes |-> Touched[x] \/ x \in Levels[turn]]
      /\ todo' = {e \in GA : e[1] \in Levels[turn]} /\ regs' = <<>>
      /\ GA' = GA /\ turn' = turn /\ NumPaths' = NumPaths /\ Levels' = Levels /\ Dependencies' = Dependencies
  BY DEF HB!FromHyperedges, HB!Begin, HB!OutOf, HB!Nodes, HNodes, HB!Returned, BT!Returned
<1>2. TurnedHB(G, Rch, lev, sg, turn) /\ turn > 0 /\ BackCallHB(Rch, lev, sg, rho, turn)
  BY <1>1 DEF PhasesHB
<1>3. turn \in Nat /\ Even(turn) /\ GA = {<<e[2], e[1]>> : e \in G}
      /\ \A j \in 0 .. turn : Levels[j + 1] = LevelSet(Rch, lev, j)
  BY <1>2 DEF TurnedHB
<1>4. /\ Rch \subseteq HNodes
      /\ \A v \in Rch : /\ lev[v] \in Nat /\ q[v] \in Nat /\ rho[v] \in Nat /\ Times(sg)[v] \in Nat
                        /\ v \in HBVerts <=> Even(lev[v])
  BY TablesAreHB
<1>5. \A v \in Rch : v \notin HBVerts => q[v] = 0
  BY DEF TablesHB
<1>6. /\ Dependencies \in [HNodes -> Nat]
      /\ \A v \in Rch : (v \in HBVerts /\ lev[v] >= turn) \/ lev[v] = turn =>
           Touched[v] /\ Dependencies[v] = Times(sg)[v] * rho[v]
      /\ \A v \in Rch : lev[v] < turn => ~Touched[v]
  BY <1>2 DEF BackCallHB
<1>7. \A v \in Rch : /\ lev[v] + 1 = turn => Dependencies[v] = Times(sg)[v] * (rho[v] - q[v]) /\ q[v] <= rho[v]
                     /\ lev[v] + 1 < turn => Dependencies[v] = 0
  BY <1>1, <1>2, <1>3, ReturnedHB
<1>8. PICK k \in Nat : k = turn - 1
  BY <1>2, <1>3
<1>9. k + 1 = turn /\ ~Even(k) /\ Levels[turn] = LevelSet(Rch, lev, k)
  <2>1. k + 1 = turn /\ k \in 0 .. turn
    BY <1>3, <1>8
  <2> QED BY <1>3, <2>1, EvenOdd
<1>10. \A v \in HNodes : v \in Levels[turn] <=> v \in Rch /\ lev[v] = k
  BY <1>9 DEF LevelSet
<1>11. ASSUME NEW v \in Rch, lev[v] = k
       PROVE  Touched'[v] /\ Dependencies'[v] = Times(sg)[v] * rho[v]
  <2>1. v \in HNodes /\ v \notin HBVerts /\ q[v] = 0
    BY <1>4, <1>5, <1>9, <1>11
  <2>2. Dependencies[v] = Times(sg)[v] * (rho[v] - q[v])
    BY <1>7, <1>9, <1>11
  <2>3. rho[v] - q[v] = rho[v]
    BY <1>4, <2>1
  <2> QED BY <1>1, <1>10, <1>11, <2>1, <2>2, <2>3
<1>12. \A v \in Rch : (v \in HBVerts /\ lev[v] >= k) \/ lev[v] = k =>
         Touched'[v] /\ Dependencies'[v] = Times(sg)[v] * rho[v]
  <2> TAKE v \in Rch
  <2>1. CASE lev[v] = k
    BY <1>11, <2>1
  <2>2. CASE v \in HBVerts /\ lev[v] >= k /\ lev[v] # k
    <3>1. lev[v] >= turn /\ v \in HNodes
      BY <1>4, <1>9, <2>2
    <3> QED BY <1>1, <1>6, <2>2, <3>1
  <2> QED BY <2>1, <2>2
<1>13. \A v \in Rch : lev[v] < k => ~Touched'[v] /\ Dependencies'[v] = 0
  <2> SUFFICES ASSUME NEW v \in Rch, lev[v] < k PROVE ~Touched'[v] /\ Dependencies'[v] = 0
    OBVIOUS
  <2>1. lev[v] + 1 < turn /\ lev[v] < turn /\ v \in HNodes /\ v \notin Levels[turn]
    BY <1>4, <1>9, <1>10
  <2> QED BY <1>1, <1>6, <1>7, <2>1
<1>14. BackCallHB(Rch, lev, sg, rho, k)'
  <2>1. Dependencies' \in [HNodes -> Nat]
    BY <1>1, <1>6
  <2> QED BY <1>1, <1>3, <1>9, <1>12, <1>13, <2>1, BackBeginsHB
<1>15. BackCallHB(Rch, lev, sg, rho, turn - 1)'
  <2>1. k = turn' - 1
    BY <1>1, <1>8
  <2> QED BY <1>14, <2>1 DEF BackCallHB
<1>16. TurnedHB(G, Rch, lev, sg, turn)'
  BY <1>1, <1>2 DEF TurnedHB
<1> QED BY <1>1, <1>2, <1>15, <1>16 DEF PhasesHB

LEMMA EndBackwardHB ==
  ASSUME NEW G, NEW Rch, NEW lev, NEW sg, NEW q, NEW rho, TablesHB(G, Rch, lev, sg, q, rho),
         PhasesHB(G, Rch, lev, sg, q, rho), HB!EndBackward
  PROVE  PhasesHB(G, Rch, lev, sg, q, rho)'
<1>1. /\ stage = "toV" /\ BT!Returned /\ stage' = "back" /\ turn' = turn - 2
      /\ GA' = GA /\ todo' = todo /\ regs' = regs /\ NumPaths' = NumPaths /\ Touched' = Touched
      /\ Levels' = Levels /\ Dependencies' = Dependencies
  BY DEF HB!EndBackward, HB!callVars, HB!Returned, BT!Returned
<1>2. TurnedHB(G, Rch, lev, sg, turn) /\ turn > 0 /\ BackCallHB(Rch, lev, sg, rho, turn - 1)
  BY <1>1 DEF PhasesHB
<1>3. /\ turn \in Nat /\ Even(turn) /\ Len(Levels) > turn /\ Levels \in Seq(SUBSET HNodes)
      /\ \A j \in 0 .. turn : Levels[j + 1] = LevelSet(Rch, lev, j)
  BY <1>2 DEF TurnedHB
<1>4. turn >= 2 /\ Even(turn - 2) /\ ~Even(turn - 1)
  BY <1>2, <1>3, EvenOdd
<1>5. \A v \in Rch : lev[v] \in Nat /\ (v \in HBVerts <=> Even(lev[v]))
  BY TablesAreHB
<1>6. PICK k \in Nat : k = turn - 1
  BY <1>2, <1>3
<1>7. /\ Dependencies \in [HNodes -> Nat]
      /\ \A v \in Rch : (v \in HBVerts /\ lev[v] >= k) \/ lev[v] = k =>
           Touched[v] /\ Dependencies[v] = Times(sg)[v] * rho[v]
      /\ \A v \in Rch : lev[v] < k => ~Touched[v]
  BY <1>2, <1>6 DEF BackCallHB
<1>8. \A v \in Rch : /\ lev[v] + 1 = k => Dependencies[v] = Times(sg)[v] * (rho[v] - q[v]) /\ q[v] <= rho[v]
                     /\ lev[v] + 1 < k => Dependencies[v] = 0
  <2>1. BackCallHB(Rch, lev, sg, rho, k)
    BY <1>2, <1>6
  <2> QED BY <1>1, <1>2, <2>1, ReturnedHB
<1>9. turn' \in Nat /\ turn' + 1 = k /\ turn' < turn
  BY <1>1, <1>3, <1>4, <1>6
<1>10. TurnedHB(G, Rch, lev, sg, turn)'
  <2>1. Len(Levels') > turn' /\ \A j \in 0 .. turn' : Levels'[j + 1] = LevelSet(Rch, lev, j)
    BY <1>1, <1>3, <1>9
  <2> QED BY <1>1, <1>2, <1>4, <1>9, <2>1 DEF TurnedHB
<1>11. ASSUME NEW v \in Rch
       PROVE  /\ v \in HBVerts /\ lev[v] > turn' => Touched'[v] /\ Dependencies'[v] = Times(sg)[v] * rho[v]
              /\ lev[v] = turn' => Dependencies'[v] = Times(sg)[v] * (rho[v] - q[v]) /\ q[v] <= rho[v]
              /\ lev[v] < turn' => Dependencies'[v] = 0
              /\ lev[v] <= turn' => ~Touched'[v]
  <2>2. lev[v] \in Nat /\ turn' \in Nat /\ k = turn' + 1
    BY <1>5, <1>9
  <2>1. /\ lev[v] > turn' => lev[v] >= k
        /\ lev[v] = turn' => lev[v] + 1 = k
        /\ lev[v] < turn' => lev[v] + 1 < k
        /\ lev[v] <= turn' => lev[v] < k
    BY <2>2
  <2> QED BY <1>1, <1>7, <1>8, <2>1
<1>12. BT!Returned'
  BY <1>1 DEF BT!Returned
<1> QED BY <1>1, <1>7, <1>10, <1>11, <1>12 DEF PhasesHB

LEMMA InCallHB ==
  ASSUME NEW G, NEW Rch, NEW lev, NEW sg, NEW q, NEW rho, TablesHB(G, Rch, lev, sg, q, rho),
         PhasesHB(G, Rch, lev, sg, q, rho), StepsHB
  PROVE  PhasesHB(G, Rch, lev, sg, q, rho)'
<1>1. ~BT!Returned
  <2>1. todo # {} \/ \E e \in DOMAIN regs : TRUE
    BY DEF StepsHB
  <2> QED BY <2>1 DEF BT!Returned
<1>2. stage \in {"forth", "toH", "toV"}
  BY <1>1 DEF PhasesHB
<1>3. Rch \subseteq HNodes
  BY TablesAreHB
<1>4. CASE stage = "forth"
  <2>1. /\ turn \in Nat /\ turn > 0 /\ Frontier # {} /\ ForthBC(HNodes, G, Rch, lev, sg, turn - 1)
        /\ CallBC(HNodes, sg, HNodes) /\ OutBC(HNodes, sg)
    BY <1>4 DEF PhasesHB
  <2>2. BT!Sum = NumPaths
    BY <1>4 DEF BT!Sum
  <2>3. /\ SameBC /\ Dependencies' = Dependencies /\ CallBC(HNodes, sg, HNodes)' /\ OutBC(HNodes, sg)'
        /\ \A v \in HNodes : Touched[v] => NumPaths'[v] = NumPaths[v]
    <3>1. ASSUME NEW e \in todo, HB!Test(e)
          PROVE  SameBC /\ Dependencies' = Dependencies /\ CallBC(HNodes, sg, HNodes)' /\ OutBC(HNodes, sg)'
                 /\ NumPaths' = NumPaths
      <4>1. BT!Test(e)
        BY <3>1 DEF HB!Test, HB!Enter, HB!Pass, HB!mainVars, HB!bcVars,
                    BT!Test, BT!Enter, BT!Pass, BT!mainVars, BT!bcVars
      <4> QED BY <2>1, <4>1, TestBC
    <3>2. ASSUME NEW e \in DOMAIN regs, HB!ReadSum(e)
          PROVE  SameBC /\ Dependencies' = Dependencies /\ CallBC(HNodes, sg, HNodes)' /\ OutBC(HNodes, sg)'
                 /\ NumPaths' = NumPaths
      <4>1. SameBC /\ Dependencies' = Dependencies /\ NumPaths' = NumPaths
            /\ BT!Local(e, [at |-> "cas", oldV |-> NumPaths[e[2]]])
        BY <3>2 DEF HB!ReadSum, HB!Local, HB!mainVars, HB!bcVars, BT!Local, SameBC
      <4> QED BY <2>1, <4>1, LocalBC
    <3>3. ASSUME NEW e \in DOMAIN regs, HB!SwapSum(e)
          PROVE  SameBC /\ Dependencies' = Dependencies /\ CallBC(HNodes, sg, HNodes)' /\ OutBC(HNodes, sg)'
                 /\ \A v \in HNodes : Touched[v] => NumPaths'[v] = NumPaths[v]
      <4>1. SameBC /\ Dependencies' = Dependencies
        BY <3>3 DEF HB!SwapSum, HB!mainVars, SameBC
      <4>2. BT!Sum' = NumPaths'
        BY <1>4, <4>1 DEF BT!Sum, SameBC
      <4>3. CASE NumPaths[e[2]] = regs[e].oldV
        <5>1. NumPaths' = [NumPaths EXCEPT ![e[2]] = @ + NumPaths[e[1]]] /\ BT!Answer(e, NumPaths[e[2]] = 0)
          BY <3>3, <4>3 DEF HB!SwapSum, HB!Answer, BT!Answer
        <5>2. NumPaths[e[1]] = sg[e[1]]
          BY <2>1, <2>2 DEF CallBC, CallOn, Flight, BT!OutOf
        <5>3. BT!Sum' = [BT!Sum EXCEPT ![e[2]] = BT!Sum[e[2]] + sg[e[1]]] /\ BT!Answer(e, BT!Sum[e[2]] = 0)
          BY <2>2, <4>2, <5>1, <5>2
        <5>4. /\ CallBC(HNodes, sg, HNodes)' /\ OutBC(HNodes, sg)'
              /\ \A v \in HNodes : Touched[v] => BT!Sum'[v] = BT!Sum[v]
          BY <2>1, <4>1, <5>3, AddBC
        <5> QED BY <2>2, <4>1, <4>2, <5>4
      <4>4. CASE NumPaths[e[2]] # regs[e].oldV
        <5>1. NumPaths' = NumPaths /\ BT!Local(e, [at |-> "read"])
          BY <3>3, <4>4 DEF HB!SwapSum, HB!Local, BT!Local
        <5> QED BY <2>1, <4>1, <5>1, LocalBC
      <4> QED BY <4>3, <4>4
    <3>4. ASSUME NEW e \in DOMAIN regs, HB!AddShare(e) PROVE FALSE
      BY <1>4, <3>4 DEF HB!AddShare
    <3> QED BY <3>1, <3>2, <3>3, <3>4 DEF StepsHB
  <2>4. BT!Sum' = NumPaths' /\ NumPaths' \in [HNodes -> Nat]
    BY <1>4, <2>3 DEF BT!Sum, SameBC, CallBC
  <2>5. ForthBC(HNodes, G, Rch, lev, sg, turn - 1)'
    BY <2>1, <2>3, <2>4 DEF ForthBC, SameBC
  <2> QED BY <1>4, <2>1, <2>3, <2>5 DEF PhasesHB, SameBC
<1>5. CASE stage \in {"toH", "toV"}
  <2> DEFINE lv == IF stage = "toH" THEN turn ELSE turn - 1
  <2>1. TurnedHB(G, Rch, lev, sg, turn) /\ turn > 0 /\ BackCallHB(Rch, lev, sg, rho, lv)
    BY <1>5 DEF PhasesHB
  <2>2. turn \in Nat /\ Even(turn)
    BY <2>1 DEF TurnedHB
  <2>3. lv \in Nat /\ (stage = "toH" <=> Even(lv))
    <3>1. CASE stage = "toH"
      BY <2>2, <3>1
    <3>2. CASE stage # "toH"
      BY <2>1, <2>2, <3>2, EvenOdd
    <3> QED BY <3>1, <3>2
  <2>4. PICK k \in Nat : k = lv
    BY <2>3
  <2>5. BackCallHB(Rch, lev, sg, rho, k) /\ (stage = "toH" <=> Even(k))
    BY <2>1, <2>3, <2>4
  <2>6. SameBC /\ NumPaths' = NumPaths /\ BackCallHB(Rch, lev, sg, rho, k)'
    <3>1. \A e \in DOMAIN regs : regs[e].at = "read"
      BY <2>5 DEF BackCallHB
    <3>2. ASSUME NEW e \in todo, HB!Test(e) PROVE SameBC /\ NumPaths' = NumPaths /\ BackCallHB(Rch, lev, sg, rho, k)'
      <4>1. SameBC /\ NumPaths' = NumPaths
        BY <3>2 DEF HB!Test, HB!mainVars, HB!bcVars, SameBC
      <4> QED BY <1>3, <2>5, <3>2, <4>1, BackTestHB
    <3>3. ASSUME NEW e \in DOMAIN regs, HB!ReadSum(e) \/ HB!SwapSum(e) PROVE FALSE
      BY <1>5, <3>1, <3>3 DEF HB!ReadSum, HB!SwapSum
    <3>4. ASSUME NEW e \in DOMAIN regs, HB!AddShare(e) PROVE SameBC /\ NumPaths' = NumPaths /\ BackCallHB(Rch, lev, sg, rho, k)'
      <4>1. SameBC /\ NumPaths' = NumPaths
        BY <3>4 DEF HB!AddShare, HB!mainVars, SameBC
      <4> QED BY <1>5, <2>1, <2>5, <3>4, <4>1, AddShareHB
    <3> QED BY <3>2, <3>3, <3>4 DEF StepsHB
  <2>7. TurnedHB(G, Rch, lev, sg, turn)'
    BY <2>1, <2>6 DEF TurnedHB, SameBC
  <2>8. stage' = "toH" => BackCallHB(Rch, lev, sg, rho, turn)'
    <3>1. stage = "toH" => k = turn'
      BY <2>4, <2>6 DEF SameBC
    <3> QED BY <2>6, <3>1 DEF BackCallHB, SameBC
  <2>9. stage' = "toV" => BackCallHB(Rch, lev, sg, rho, turn - 1)'
    <3>1. stage = "toV" => k = turn' - 1
      BY <2>4, <2>6 DEF SameBC
    <3> QED BY <2>6, <3>1 DEF BackCallHB, SameBC
  <2> QED BY <1>5, <2>1, <2>6, <2>7, <2>8, <2>9 DEF PhasesHB, SameBC
<1> QED BY <1>2, <1>4, <1>5

LEMMA StepHB ==
  ASSUME NEW G, NEW Rch, NEW lev, NEW sg, NEW q, NEW rho, TablesHB(G, Rch, lev, sg, q, rho),
         PhasesHB(G, Rch, lev, sg, q, rho), [HB!Next]_HB!vars
  PROVE  PhasesHB(G, Rch, lev, sg, q, rho)'
<1>1. CASE UNCHANGED HB!vars
  <2>1. /\ GA' = GA /\ stage' = stage /\ Frontier' = Frontier /\ todo' = todo /\ regs' = regs /\ out' = out
        /\ turn' = turn /\ NumPaths' = NumPaths /\ Touched' = Touched /\ Levels' = Levels
        /\ Dependencies' = Dependencies
    BY <1>1 DEF HB!vars, HB!mainVars, HB!callVars, HB!bcVars
  <2>2. /\ ForthBC(HNodes, G, Rch, lev, sg, turn)' <=> ForthBC(HNodes, G, Rch, lev, sg, turn)
        /\ ForthBC(HNodes, G, Rch, lev, sg, turn - 1)' <=> ForthBC(HNodes, G, Rch, lev, sg, turn - 1)
    BY <2>1 DEF ForthBC
  <2>3. BT!Sum' = BT!Sum /\ Flight' = Flight /\ BT!OutOf(Frontier)' = BT!OutOf(Frontier)
    BY <2>1 DEF BT!Sum, Flight, BT!OutOf
  <2>4. \A d \in HNodes : Answered(HNodes, sg, d)' = Answered(HNodes, sg, d)
                          /\ Answered(HNodes, rho, d)' = Answered(HNodes, rho, d)
    BY <2>1, <2>3 DEF Answered
  <2>5. /\ CallOn(HNodes, sg) => CallOn(HNodes, sg)'
        /\ CallOn(HNodes, rho) => CallOn(HNodes, rho)'
    BY <2>1, <2>3 DEF CallOn
  <2>6. CallBC(HNodes, sg, HNodes) => CallBC(HNodes, sg, HNodes)'
    BY <2>1, <2>3, <2>4, <2>5 DEF CallBC
  <2>7. OutBC(HNodes, sg) => OutBC(HNodes, sg)'
    BY <2>1, <2>3 DEF OutBC
  <2>8. RestBC(HNodes)' = RestBC(HNodes) /\ (BT!Returned => BT!Returned')
    BY <2>1 DEF RestBC, BT!Returned
  <2>9. TurnedHB(G, Rch, lev, sg, turn) => TurnedHB(G, Rch, lev, sg, turn)'
    BY <2>1 DEF TurnedHB
  <2>13. Rch \subseteq HNodes
    BY TablesAreHB
  <2>10. BackCallHB(Rch, lev, sg, rho, turn) => BackCallHB(Rch, lev, sg, rho, turn)'
    BY <2>1, <2>4, <2>5, <2>13 DEF BackCallHB
  <2>11. BackCallHB(Rch, lev, sg, rho, turn - 1) => BackCallHB(Rch, lev, sg, rho, turn - 1)'
    BY <2>1, <2>4, <2>5, <2>13 DEF BackCallHB
  <2> QED BY <2>1, <2>2, <2>6, <2>7, <2>8, <2>9, <2>10, <2>11 DEF PhasesHB
<1>2. CASE HB!Next
  <2>1. \/ HB!Forward \/ HB!EndForward \/ HB!TurnRound \/ HB!FromVertices \/ HB!FromHyperedges
        \/ HB!EndBackward \/ StepsHB
    BY <1>2 DEF HB!Next, StepsHB
  <2> QED BY <2>1, ForwardHB, EndForwardHB, TurnRoundHB, FromVerticesHB, FromHyperedgesHB, EndBackwardHB, InCallHB
<1> QED BY <1>1, <1>2

\* The tables of a hypergraph.
NH == Cardinality(HNodes)
CountsHB(G) == CountIn(G, HNodes, NH)
RchHB(G) == ReachedIn(CountsHB(G), HNodes, NH, start)
LevHB(G) == LevelsFrom(CountsHB(G), HNodes, NH, start)
SgHB(G) == CountsOf(CountsHB(G), HNodes, start, LevHB(G))
WorthyHB(G) == (HBVerts \cap RchHB(G)) \ {start}
QHB(G) == [v \in HNodes |-> IF v \in WorthyHB(G) THEN Scale \div SgHB(G)[v] ELSE 0]
RhoHB(G) == SharesOf(CountsHB(G), HNodes, RchHB(G), LevHB(G), QHB(G))
InvHB == \E G \in HBGraphs : PhasesHB(G, RchHB(G), LevHB(G), SgHB(G), QHB(G), RhoHB(G))

LEMMA NodesHB == /\ HB!Nodes = HNodes /\ HB!Cardinality(HNodes) = NH
                 /\ \A S : HB!IsFiniteSet(S) <=> IsFiniteSet(S)
BY DEF HB!Nodes, HNodes, HB!Cardinality, HB!IsFiniteSet, Cardinality, IsFiniteSet, NH

LEMMA WalksAreHB == ASSUME NEW G PROVE HB!Walks(G) = CountsHB(G)
BY DEF HB!Walks, CountsHB, CountIn, Longer, Empties, SumOver, HB!SumFunctionOnSet, HB!FoldFunctionOnSet,
       HB!MapThenFoldSet, MapThenFoldSet, MapThenSumSet, HB!Cardinality, Cardinality, HB!Nodes, HNodes, NH

LEMMA OperatorsHB ==
  ASSUME NEW w
  PROVE  /\ \A u : HB!Reached(w, u) = ReachedIn(w, HNodes, NH, u)
         /\ \A u, v : HB!Dist(w, u, v) = DistIn(w, NH, u, v)
         /\ \A u, v : HB!Paths(w, u, v) = PathsIn(w, HNodes, NH, u, v)
         /\ \A v, t : HB!Through(w, v, t) = ThroughIn(w, HNodes, NH, start, v, t)
<1>1. \A u : HB!Reached(w, u) = ReachedIn(w, HNodes, NH, u)
  BY NodesHB DEF HB!Reached, ReachedIn
<1>2. \A u, v : HB!Dist(w, u, v) = DistIn(w, NH, u, v)
  BY NodesHB DEF HB!Dist, DistIn, Away
<1>3. \A u, v : HB!Paths(w, u, v) = PathsIn(w, HNodes, NH, u, v)
  BY <1>1, <1>2 DEF HB!Paths, PathsIn
<1>4. \A v, t : HB!Through(w, v, t) = ThroughIn(w, HNodes, NH, start, v, t)
  BY <1>1, <1>2, <1>3 DEF HB!Through, ThroughIn
<1> QED BY <1>1, <1>2, <1>3, <1>4

LEMMA LeveledHB ==
  ASSUME HB!InputsOK, NEW G \in HBGraphs
  PROVE  /\ Leveled(CountsHB(G), G, HNodes, NH, start, LevHB(G)) /\ IsFiniteSet(HNodes)
         /\ NH \in Nat /\ start \in HBVerts /\ Scale \in Nat /\ HBVerts \cap HBHyperedges = {}
         /\ G \subseteq (HBVerts \X HBHyperedges) \cup (HBHyperedges \X HBVerts)
<1>1. /\ IsFiniteSet(HBVerts) /\ IsFiniteSet(HBHyperedges) /\ start \in HBVerts /\ Scale \in Nat
      /\ G \subseteq (HBVerts \X HBHyperedges) \cup (HBHyperedges \X HBVerts)
      /\ HBVerts \subseteq {0} \X Nat /\ HBHyperedges \subseteq {1} \X Nat
  BY NodesHB DEF HB!InputsOK
<1>2. HBVerts \cap HBHyperedges = {}
  <2>1. (\A x \in HBVerts : x[1] = 0) /\ (\A x \in HBHyperedges : x[1] = 1)
    BY <1>1
  <2> QED BY <2>1
<1>3. IsFiniteSet(HNodes)
  BY <1>1, FS_Union DEF HNodes
<1>4. NH \in Nat /\ start \in HNodes
  BY <1>1, <1>3, FS_CardinalityType DEF NH, HNodes
<1>5. Counted(CountsHB(G), G, HNodes, NH)
  BY <1>3, <1>4, CountsAreCounted DEF CountsHB
<1> QED BY <1>1, <1>2, <1>3, <1>4, <1>5, LevelsAreLeveled DEF LevHB

\* Scale is what a vertex is worth times its paths.
LEMMA WorthHB ==
  ASSUME HB!InputsOK, NEW G \in HBGraphs
  PROVE  /\ NatOn(QHB(G), HNodes) /\ WorthyHB(G) \in SUBSET RchHB(G)
         /\ \A v \in RchHB(G) : /\ v \in HNodes /\ SgHB(G)[v] = PathsIn(CountsHB(G), HNodes, NH, start, v)
                                /\ SgHB(G)[v] = CountsHB(G)[LevHB(G)[v]][start][v]
         /\ \A v \in WorthyHB(G) : Scale = QHB(G)[v] * SgHB(G)[v]
         /\ \A v \in HNodes : v \notin WorthyHB(G) => QHB(G)[v] = 0
<1> DEFINE w == CountsHB(G)
           lev == LevHB(G)
           Rch == RchHB(G)
           sg == SgHB(G)
           q == QHB(G)
           W == WorthyHB(G)
<1>1. Leveled(w, G, HNodes, NH, start, lev) /\ NH \in Nat /\ start \in HNodes /\ Scale \in Nat
  BY LeveledHB DEF HNodes
<1>2. \A v \in Rch : /\ v \in HNodes /\ lev[v] \in 0 .. NH /\ w[lev[v]][start][v] > 0
                     /\ lev[v] = DistIn(w, NH, start, v)
  BY <1>1 DEF Leveled, Away, RchHB
<1>3. \A j \in 0 .. NH, u \in HNodes, v \in HNodes : w[j][u][v] \in Nat
  BY <1>1 DEF Leveled
<1>4. \A v \in HNodes : sg[v] = w[lev[v]][start][v]
  BY DEF SgHB, CountsOf
<1>5. \A v \in HNodes : q[v] = IF v \in W THEN Scale \div sg[v] ELSE 0
  BY DEF QHB
<1>6. \A v \in Rch : PathsIn(w, HNodes, NH, start, v) = w[lev[v]][start][v]
  BY <1>2 DEF PathsIn, RchHB
<1>7. \A v \in W : \E p \in 1 .. Scale : Scale = p * PathsIn(w, HNodes, NH, start, v)
  <2>1. \A v \in HBVerts \cap HB!Reached(HB!Walks(G), start) :
          \E p \in 1 .. Scale : Scale = p * HB!Paths(HB!Walks(G), start, v)
    BY DEF HB!InputsOK
  <2>2. HB!Walks(G) = w
    BY WalksAreHB
  <2>3. HB!Reached(w, start) = Rch /\ \A v : HB!Paths(w, start, v) = PathsIn(w, HNodes, NH, start, v)
    BY OperatorsHB DEF RchHB
  <2>4. W \subseteq HBVerts \cap Rch
    BY DEF WorthyHB
  <2> HIDE DEF w, Rch, W
  <2> QED BY <2>1, <2>2, <2>3, <2>4
<1>8. W \in SUBSET Rch
  BY DEF WorthyHB
<1> HIDE DEF w, lev, Rch, sg, q, W
<1>9. ASSUME NEW v \in Rch
      PROVE  /\ v \in HNodes /\ sg[v] = PathsIn(w, HNodes, NH, start, v) /\ sg[v] = w[lev[v]][start][v]
             /\ sg[v] \in Nat /\ sg[v] # 0
  <2>1. v \in HNodes /\ lev[v] \in 0 .. NH /\ w[lev[v]][start][v] > 0
    BY <1>2
  <2> QED BY <1>1, <1>3, <1>4, <1>6, <2>1
<1>10. ASSUME NEW v \in W PROVE Scale = q[v] * sg[v] /\ q[v] \in Nat
  <2>1. v \in Rch
    BY <1>8
  <2>2. PICK p \in 1 .. Scale : Scale = p * sg[v]
    BY <1>7, <1>9, <2>1
  <2>3. p \in Nat
    BY <1>1
  <2>4. (p * sg[v]) \div sg[v] = p
    BY <1>9, <2>1, <2>3, MultipleDiv
  <2>5. q[v] = p
    BY <1>5, <1>9, <2>1, <2>2, <2>4
  <2> QED BY <2>2, <2>3, <2>5
<1>11. NatOn(q, HNodes)
  <2> SUFFICES ASSUME NEW v \in HNodes PROVE q[v] \in Nat
    BY DEF NatOn
  <2>1. CASE v \in W
    BY <1>10, <2>1
  <2>2. CASE v \notin W
    BY <1>5, <2>2
  <2> QED BY <2>1, <2>2
<1> QED BY <1>5, <1>8, <1>9, <1>10, <1>11 DEF w, lev, Rch, sg, q, W

LEMMA TablesExistHB ==
  ASSUME HB!InputsOK, NEW G \in HBGraphs
  PROVE  TablesHB(G, RchHB(G), LevHB(G), SgHB(G), QHB(G), RhoHB(G))
<1>1. /\ Leveled(CountsHB(G), G, HNodes, NH, start, LevHB(G)) /\ NatOn(QHB(G), HNodes)
      /\ G \subseteq (HBVerts \X HBHyperedges) \cup (HBHyperedges \X HBVerts) /\ HBVerts \cap HBHyperedges = {}
      /\ start \in HBVerts /\ Scale \in Nat
  BY LeveledHB, WorthHB
<1>2. Ranked(G, HNodes, start, RchHB(G), LevHB(G), SgHB(G))
  BY <1>1, TablesRank DEF NH, RchHB, SgHB
<1>3. Passed(G, HNodes, RchHB(G), LevHB(G), QHB(G), RhoHB(G))
  BY <1>1, SharesPass DEF RchHB, RhoHB
<1>4. \A v \in RchHB(G) : /\ v \in HBVerts /\ v # start => Scale = QHB(G)[v] * SgHB(G)[v]
                          /\ v \notin HBVerts \/ v = start => QHB(G)[v] = 0
  <2>1. \A v \in RchHB(G) : v \in HNodes /\ (v \in WorthyHB(G) <=> v \in HBVerts /\ v # start)
    BY WorthHB DEF WorthyHB
  <2> QED BY <2>1, WorthHB
<1> QED BY <1>1, <1>2, <1>3, <1>4 DEF TablesHB

\* What a vertex has at the end is the sum of the shares.
LEMMA FinalIsHB ==
  ASSUME HB!InputsOK, NEW G \in HBGraphs, NEW v \in RchHB(G)
  PROVE  /\ RhoHB(G)[v] \in Nat /\ SgHB(G)[v] \in Nat
         /\ SgHB(G)[v] * RhoHB(G)[v] =
              SumOver(PathShares(CountsHB(G), HNodes, NH, start, v, Scale, WorthyHB(G)), WorthyHB(G))
<1> DEFINE w == CountsHB(G)
           lev == LevHB(G)
           Rch == RchHB(G)
           q == QHB(G)
           U == WorthyHB(G)
<1>1. Leveled(w, G, HNodes, NH, start, lev) /\ Scale \in Nat
  BY LeveledHB
<1>2. NatOn(q, HNodes) /\ U \in SUBSET ReachedIn(w, HNodes, NH, start)
  BY WorthHB DEF RchHB
<1>3. \A t \in U : Scale = q[t] * PathsIn(w, HNodes, NH, start, t)
  BY WorthHB
<1>4. \A t \in HNodes \ U : q[t] = 0
  BY WorthHB
<1>5. RhoHB(G)[v] = Yield(w, HNodes, Rch, lev, q, v) /\ SgHB(G)[v] = w[lev[v]][start][v]
  BY WorthHB DEF RhoHB, SharesOf
<1>6. v \in ReachedIn(w, HNodes, NH, start) /\ Rch = ReachedIn(w, HNodes, NH, start)
  BY DEF RchHB
<1>7. RhoHB(G)[v] \in Nat /\ SgHB(G)[v] \in Nat
  BY TablesExistHB, TablesAreHB
<1> HIDE DEF w, lev, q, U, Rch
<1>8. Yield(w, HNodes, Rch, lev, q, v) * w[lev[v]][start][v] = SumOver(PathShares(w, HNodes, NH, start, v, Scale, U), U)
  BY <1>1, <1>2, <1>3, <1>4, <1>6, SharesOfPaths
<1>9. SgHB(G)[v] * RhoHB(G)[v] = RhoHB(G)[v] * SgHB(G)[v]
  BY <1>7, Adding
<1> QED BY <1>5, <1>7, <1>8, <1>9 DEF w, U

LEMMA SumFunctionIsHB == \A f : HB!SumFunction(f) = SumOver(f, DOMAIN f)
BY DEF HB!SumFunction, HB!SumFunctionOnSet, HB!FoldFunctionOnSet, HB!MapThenFoldSet, MapThenFoldSet, MapThenSumSet, SumOver

LEMMA ExactHB ==
  ASSUME HB!InputsOK, InvHB
  PROVE  HB!DependenciesAreExact
<1>1. PICK G \in HBGraphs : PhasesHB(G, RchHB(G), LevHB(G), SgHB(G), QHB(G), RhoHB(G))
  BY DEF InvHB
<1> DEFINE w == CountsHB(G)
           Rch == RchHB(G)
           lev == LevHB(G)
           sg == SgHB(G)
           q == QHB(G)
           rho == RhoHB(G)
           U == WorthyHB(G)
<1>2. TablesHB(G, Rch, lev, sg, q, rho)
  BY TablesExistHB
<1>3. /\ Rch \subseteq HNodes
      /\ \A v \in Rch : /\ lev[v] \in Nat /\ sg[v] = PathsIn(w, HNodes, NH, start, v)
                        /\ lev[v] = 0 => v = start /\ q[v] = 0
  <2>1. \A v \in Rch : lev[v] = 0 => v = start
    BY <1>2 DEF TablesHB, Ranked
  <2>2. \A v \in Rch : v = start => q[v] = 0
    BY <1>2 DEF TablesHB
  <2> QED BY <1>2, <2>1, <2>2, TablesAreHB, WorthHB
<1>4. HB!Graph = G
  <2>1. CASE stage \in {"loop", "forth", "turn"}
    BY <1>1, <2>1 DEF HB!Graph, PhasesHB, ForthBC
  <2>2. CASE stage \notin {"loop", "forth", "turn"}
    <3>1. GA = {<<e[2], e[1]>> : e \in G}
      BY <1>1, <2>2 DEF PhasesHB, TurnedHB
    <3>2. \A e \in G : e = <<e[1], e[2]>>
      BY <1>2, TablesAreHB
    <3>3. \A x : x \in {<<e[2], e[1]>> : e \in GA} <=> x \in G
      <4> TAKE x
      <4>1. ASSUME x \in {<<e[2], e[1]>> : e \in GA} PROVE x \in G
        <5>1. PICK e \in GA : x = <<e[2], e[1]>>
          BY <4>1
        <5>2. PICK y \in G : e = <<y[2], y[1]>>
          BY <3>1
        <5>3. x = <<y[1], y[2]>>
          BY <5>1, <5>2
        <5> QED BY <3>2, <5>3
      <4>2. ASSUME x \in G PROVE x \in {<<e[2], e[1]>> : e \in GA}
        <5>1. <<x[2], x[1]>> \in GA /\ x = <<x[1], x[2]>>
          BY <3>1, <3>2, <4>2
        <5> QED BY <5>1
      <4> QED BY <4>1, <4>2
    <3>4. {<<e[2], e[1]>> : e \in GA} = G
      BY <3>3
    <3> QED BY <2>2, <3>4 DEF HB!Graph
  <2> QED BY <2>1, <2>2
<1>5. HB!Walks(HB!Graph) = w
  BY <1>4, WalksAreHB
<1>6. /\ HB!Reached(w, start) = Rch
      /\ \A t : HB!Paths(w, start, t) = PathsIn(w, HNodes, NH, start, t)
      /\ \A u, t : HB!Through(w, u, t) = ThroughIn(w, HNodes, NH, start, u, t)
  BY OperatorsHB DEF RchHB
<1>7. ASSUME stage = "turn", NEW v \in HNodes PROVE NumPaths[v] = HB!Paths(w, start, v)
  <2>1. /\ ForthBC(HNodes, G, Rch, lev, sg, turn) /\ RestBC(HNodes) /\ Frontier = {}
    BY <1>1, <1>7 DEF PhasesHB
  <2>2. \A x \in Rch : lev[x] < turn
    <3>1. turn \in Nat /\ LevelSet(Rch, lev, turn) = {} /\ Ranked(G, HNodes, start, Rch, lev, sg)
      BY <1>2, <2>1 DEF ForthBC, TablesHB
    <3> QED BY <3>1, NobodyLater
  <2>3. Touched[v] <=> v \in Rch
    BY <1>3, <2>1, <2>2 DEF ForthBC
  <2>4. NumPaths[v] = IF v \in Rch THEN sg[v] ELSE 0
    BY <2>1, <2>3 DEF ForthBC, RestBC
  <2>5. v \notin Rch => PathsIn(w, HNodes, NH, start, v) = 0
    BY DEF PathsIn, RchHB
  <2> QED BY <1>3, <1>6, <2>4, <2>5
<1>8. ASSUME HB!Done, NEW v \in HBVerts \cap HB!Reached(w, start)
      PROVE  Dependencies[v] = HB!SumFunction([t \in (HBVerts \cap HB!Reached(w, start)) \ {start} |->
                                                 (Scale * HB!Through(w, v, t)) \div HB!Paths(w, start, t)])
  <2> DEFINE f == PathShares(w, HNodes, NH, start, v, Scale, U)
             g == [t \in (HBVerts \cap HB!Reached(w, start)) \ {start} |->
                     (Scale * HB!Through(w, v, t)) \div HB!Paths(w, start, t)]
  <2>1. v \in Rch /\ v \in HBVerts /\ v \in HNodes
    BY <1>3, <1>6
  <2>2. /\ turn \in Nat /\ turn = 0
        /\ v \in HBVerts /\ lev[v] > turn => Dependencies[v] = Times(sg)[v] * rho[v]
        /\ lev[v] = turn => Dependencies[v] = Times(sg)[v] * (rho[v] - q[v])
    <3>1. stage = "back" /\ turn <= 0
      BY <1>8 DEF HB!Done
    <3>2. turn \in Nat
      BY <1>1, <3>1 DEF PhasesHB, TurnedHB
    <3> QED BY <1>1, <2>1, <3>1, <3>2 DEF PhasesHB
  <2>3. Times(sg)[v] = sg[v]
    BY <2>1 DEF Times
  <2>4. rho[v] \in Nat
    BY <2>1, FinalIsHB
  <2>5. Dependencies[v] = sg[v] * rho[v]
    <3>1. CASE lev[v] = 0
      <4>1. rho[v] - q[v] = rho[v]
        BY <1>3, <2>1, <2>4, <3>1
      <4> QED BY <2>2, <2>3, <3>1, <4>1
    <3>2. CASE lev[v] # 0
      <4>1. lev[v] > 0
        BY <1>3, <2>1, <3>2
      <4> QED BY <2>1, <2>2, <2>3, <4>1
    <3> QED BY <3>1, <3>2
  <2>6. Dependencies[v] = SumOver(f, U)
    BY <2>1, <2>5, FinalIsHB
  <2>7. f = g /\ DOMAIN f = U
    BY <1>6 DEF PathShares, WorthyHB
  <2> HIDE DEF f, g
  <2>8. HB!SumFunction(g) = SumOver(f, U)
    BY <2>7, SumFunctionIsHB
  <2> QED BY <2>6, <2>8 DEF g
<1>9. HB!PathsAndShares(w)
  BY <1>7, <1>8, NodesHB DEF HB!PathsAndShares
<1> QED BY <1>5, <1>9 DEF HB!DependenciesAreExact

LEMMA StartsHB ==
  ASSUME HB!InputsOK, HB!Init
  PROVE  InvHB
<1>1. /\ GA \in HBGraphs /\ stage = "loop" /\ todo = {} /\ regs = <<>> /\ Frontier = {start} /\ turn = 0
      /\ NumPaths = [v \in HNodes |-> IF v = start THEN 1 ELSE 0]
      /\ Touched = [v \in HNodes |-> v = start] /\ Levels = << {start} >>
      /\ Dependencies = [v \in HNodes |-> 0]
  BY DEF HB!Init, HB!NoCall, HB!Nodes, HNodes
<1> DEFINE Rch == RchHB(GA)
           lev == LevHB(GA)
           sg == SgHB(GA)
<1>2. TablesHB(GA, Rch, lev, sg, QHB(GA), RhoHB(GA))
  BY <1>1, TablesExistHB
<1>3. Ranked(GA, HNodes, start, Rch, lev, sg) /\ start \in HNodes
  BY <1>2 DEF TablesHB, HNodes
<1> HIDE DEF Rch, lev, sg
<1>4. /\ Rch \subseteq HNodes /\ start \in Rch /\ lev[start] = 0 /\ sg[start] = 1 /\ start \in HNodes
      /\ \A v \in Rch : lev[v] \in Nat /\ (lev[v] = 0 => v = start)
  BY <1>3 DEF Ranked
<1>5. LevelSet(Rch, lev, 0) = {start}
  BY <1>4 DEF LevelSet
<1>6. \A v \in HNodes : Touched[v] <=> v \in Rch /\ lev[v] <= 0
  <2> TAKE v \in HNodes
  <2>1. Touched[v] <=> v = start
    BY <1>1
  <2>2. v \in Rch => (lev[v] <= 0 <=> lev[v] = 0)
    BY <1>4
  <2> QED BY <1>4, <2>1, <2>2
<1>7. ForthBC(HNodes, GA, Rch, lev, sg, turn)
  <2>1. Levels \in Seq(SUBSET HNodes) /\ Len(Levels) = 0 + 1 /\ Levels[0 + 1] = {start}
    BY <1>1, <1>4
  <2>2. NumPaths \in [HNodes -> Nat] /\ \A v \in HNodes : Touched[v] => NumPaths[v] = sg[v]
    BY <1>1, <1>4
  <2>3. \A j \in 0 .. 0 : Levels[j + 1] = LevelSet(Rch, lev, j)
    <3>1. \A j \in 0 .. 0 : j = 0
      OBVIOUS
    <3> QED BY <1>5, <2>1, <3>1
  <2> QED BY <1>1, <1>5, <1>6, <2>1, <2>2, <2>3 DEF ForthBC
<1>8. PhasesHB(GA, Rch, lev, sg, QHB(GA), RhoHB(GA))
  <2>1. \A v \in HNodes : ~Touched[v] => NumPaths[v] = 0
    BY <1>1
  <2> QED BY <1>1, <1>7, <2>1 DEF PhasesHB, RestBC, BT!Returned
<1> QED BY <1>1, <1>8 DEF InvHB, Rch, lev, sg

\* Betweenness of HyperBC: for every finite hypergraph, every start and every order of the
\* steps, the path counts of the first phase are those of the shortest paths, and a vertex's
\* dependency at the end is the sum of the shares of shortest paths through it.
THEOREM HyperDependenciesAreAlwaysExact ==
  ASSUME HB!InputsOK
  PROVE  HB!Spec => []HB!DependenciesAreExact
<1>1. HB!Init => InvHB
  BY StartsHB
<1>2. InvHB /\ [HB!Next]_HB!vars => InvHB'
  <2> SUFFICES ASSUME InvHB, [HB!Next]_HB!vars PROVE InvHB'
    OBVIOUS
  <2>1. PICK G \in HBGraphs : PhasesHB(G, RchHB(G), LevHB(G), SgHB(G), QHB(G), RhoHB(G))
    BY DEF InvHB
  <2>2. PhasesHB(G, RchHB(G), LevHB(G), SgHB(G), QHB(G), RhoHB(G))'
    BY <2>1, TablesExistHB, StepHB
  <2> QED BY <2>2 DEF InvHB
<1>3. InvHB => HB!DependenciesAreExact
  BY ExactHB
<1> QED BY <1>1, <1>2, <1>3, PTL DEF HB!Spec
-----------------------------------------------------------------------------
\* The programs side by side.
LEMMA ProgramsStep ==
  [ProgramsNext]_programsVars => prog' = prog /\ (ProgramsNext \/ UNCHANGED programsVars)
  BY DEF ProgramsNext, programsVars

LEMMA BCInPrograms ==
  ProgramsSpec => [](prog = "BC" => BT!DependenciesAreExact)
<1>1. ProgramsInit /\ prog = "BC" => BT!Init
  BY DEF ProgramsInit
<1>2. /\ prog = "BC" /\ [ProgramsNext]_programsVars => (prog = "BC")'
      /\ ~(prog = "BC") /\ [ProgramsNext]_programsVars => (~(prog = "BC"))'
  BY ProgramsStep
<1>3. prog = "BC" /\ [ProgramsNext]_programsVars => [BT!Next]_(BT!vars)
  BY ProgramsStep DEF ProgramsNext, programsVars, BT!vars, BT!mainVars, BT!callVars, BT!bcVars
<1>4. BT!InputsOK
  BY ProgramsAssumption
<1>5. BT!Spec => []BT!DependenciesAreExact
  BY <1>4, DependenciesAreAlwaysExact
<1> QED BY <1>1, <1>2, <1>3, <1>5, PTL DEF ProgramsSpec, BT!Spec

LEMMA HyperBCInPrograms ==
  ProgramsSpec => [](prog = "HyperBC" => HB!DependenciesAreExact)
<1>1. ProgramsInit /\ prog = "HyperBC" => HB!Init
  BY DEF ProgramsInit
<1>2. /\ prog = "HyperBC" /\ [ProgramsNext]_programsVars => (prog = "HyperBC")'
      /\ ~(prog = "HyperBC") /\ [ProgramsNext]_programsVars => (~(prog = "HyperBC"))'
  BY ProgramsStep
<1>3. prog = "HyperBC" /\ [ProgramsNext]_programsVars => [HB!Next]_(HB!vars)
  BY ProgramsStep DEF ProgramsNext, programsVars, HB!vars, HB!mainVars, HB!callVars, HB!bcVars
<1>4. HB!InputsOK
  BY ProgramsAssumption
<1>5. HB!Spec => []HB!DependenciesAreExact
  BY <1>4, HyperDependenciesAreAlwaysExact
<1> QED BY <1>1, <1>2, <1>3, <1>5, PTL DEF ProgramsSpec, HB!Spec

LEMMA HyperMISInPrograms ==
  ProgramsSpec => [](prog = "HyperMIS" => HM!SetIsIndependent)
<1>1. ProgramsInit /\ prog = "HyperMIS" => HM!Init
  BY DEF ProgramsInit
<1>2. /\ prog = "HyperMIS" /\ [ProgramsNext]_programsVars => (prog = "HyperMIS")'
      /\ ~(prog = "HyperMIS") /\ [ProgramsNext]_programsVars => (~(prog = "HyperMIS"))'
  BY ProgramsStep
<1>3. prog = "HyperMIS" /\ [ProgramsNext]_programsVars => [HM!Next]_(HM!vars)
  BY ProgramsStep DEF ProgramsNext, programsVars, HM!vars, HM!mainVars, HM!callVars, HM!misVars
<1>4. HM!InputsOK
  BY ProgramsAssumption
<1>5. HM!Spec => []HM!SetIsIndependent
  BY <1>4, SetIsAlwaysIndependent
<1> QED BY <1>1, <1>2, <1>3, <1>5, PTL DEF ProgramsSpec, HM!Spec

LEMMA SetCoverInPrograms ==
  ProgramsSpec => [](prog = "SetCover" => SC!CoverCovers /\ SC!CoverPays)
<1>1. ProgramsInit /\ prog = "SetCover" => SC!Init
  BY DEF ProgramsInit
<1>2. /\ prog = "SetCover" /\ [ProgramsNext]_programsVars => (prog = "SetCover")'
      /\ ~(prog = "SetCover") /\ [ProgramsNext]_programsVars => (~(prog = "SetCover"))'
  BY ProgramsStep
<1>3. prog = "SetCover" /\ [ProgramsNext]_programsVars => [SC!Next]_(SC!vars)
  BY ProgramsStep DEF ProgramsNext, programsVars, SC!vars, SC!mainVars, SC!callVars, SC!scVars
<1>4. SC!InputsOK
  BY ProgramsAssumption
<1>5. SC!Spec => []SC!CoverCovers
  BY <1>4, CoverAlwaysCovers
<1>6. SC!Spec => []SC!CoverPays
  BY <1>4, CoverAlwaysPays
<1> QED BY <1>1, <1>2, <1>3, <1>5, <1>6, PTL DEF ProgramsSpec, SC!Spec

LEMMA SparseSetInPrograms ==
  ProgramsSpec => [](prog = "SparseSet" => SS!TableHoldsSums)
<1>1. ProgramsInit /\ prog = "SparseSet" => SS!Init
  BY DEF ProgramsInit
<1>2. /\ prog = "SparseSet" /\ [ProgramsNext]_programsVars => (prog = "SparseSet")'
      /\ ~(prog = "SparseSet") /\ [ProgramsNext]_programsVars => (~(prog = "SparseSet"))'
  BY ProgramsStep
<1>3. prog = "SparseSet" /\ [ProgramsNext]_programsVars => [SS!Next]_(SS!vars)
  BY ProgramsStep DEF ProgramsNext, programsVars, SS!vars
<1>4. SS!InputsOK
  BY ProgramsAssumption
<1>5. SS!Spec => []SS!TableHoldsSums
  BY <1>4, TableAlwaysHoldsSums
<1> QED BY <1>1, <1>2, <1>3, <1>5, PTL DEF ProgramsSpec, SS!Spec

LEMMA RemDuplicatesInPrograms ==
  ProgramsSpec => [](prog = "RemDuplicates" => RD!OneOfEachSurvives)
<1>1. ProgramsInit /\ prog = "RemDuplicates" => RD!Init
  BY DEF ProgramsInit
<1>2. /\ prog = "RemDuplicates" /\ [ProgramsNext]_programsVars => (prog = "RemDuplicates")'
      /\ ~(prog = "RemDuplicates") /\ [ProgramsNext]_programsVars => (~(prog = "RemDuplicates"))'
  BY ProgramsStep
<1>3. prog = "RemDuplicates" /\ [ProgramsNext]_programsVars => [RD!Next]_(RD!vars)
  BY ProgramsStep DEF ProgramsNext, programsVars, RD!vars
<1>4. RD!InputsOK
  BY ProgramsAssumption
<1>5. RD!Spec => []RD!OneOfEachSurvives
  BY <1>4, OneOfEachAlwaysSurvives
<1> QED BY <1>1, <1>2, <1>3, <1>5, PTL DEF ProgramsSpec, RD!Spec

\* BC and HyperBC, on every graph and hypergraph: the path counts, the levels and the
\* dependencies are complete, however many CASes fail.
THEOREM EveryDependencyIsExact == ProgramsSpec => []DependenciesAreExact
  BY BCInPrograms, HyperBCInPrograms, PTL DEF DependenciesAreExact

\* On every hypergraph no hyperedge is wholly in HyperMIS's set, and on every instance
\* SetCover's sets cover, each paid for by the elements it won.
THEOREM EverySetIsRight == ProgramsSpec => []SetsAreRight
  BY HyperMISInPrograms, SetCoverInPrograms, PTL DEF SetsAreRight

\* However many workers use them at once, sparseSet.h's table holds every sum and
\* remDuplicates leaves one entry of each key.
THEOREM EveryTableIsRight == ProgramsSpec => []TablesAreRight
  BY SparseSetInPrograms, RemDuplicatesInPrograms, PTL DEF TablesAreRight
=============================================================================
