------------------------------ MODULE SetCover ------------------------------
(***************************************************************************)
(* apps/bucketing/SetCover.C over the buckets of BucketSpec, in decreasing *)
(* order.  A vertex u is a set and, as a target, an element.  The sets of  *)
(* a bucket drop their covered elements, compete for the others by         *)
(* writeMin, join the cover if they won enough, and release or cover what  *)
(* they won.  The logarithms and powers are the tables Bucket (of a        *)
(* degree), Threshold and Low (of a bucket).                               *)
(***************************************************************************)
EXTENDS EdgeCall

CONSTANTS V, Graphs,
          Bucket, Threshold, Low,
          COVERED, UINT_E_MAX

VARIABLES Elms, D,
          key, live, taken,  \* of the buckets
          cover,             \* the sets in it; their D has the top bit set
          active, input      \* the sets of this round; the graph before it was packed
scVars == <<Elms, D, key, live, taken, cover, active, input>>
vars == <<mainVars, callVars, scVars>>

\* IDs are below both marks; each degree a set can have has a bucket, and it a threshold.
InputsOK ==
  /\ IsFiniteSet(V) /\ V \subseteq Int /\ UINT_E_MAX \in Int
  /\ COVERED \notin V /\ COVERED # UINT_E_MAX /\ \A v \in V : v < UINT_E_MAX
  /\ \A G \in Graphs :
       /\ G \subseteq V \X V
       /\ \A v \in V : \A d \in 1 .. Cardinality({e \in G : e[1] = v}) :
            Bucket[d] # UINT_E_MAX /\ Low[Bucket[d]] \in Nat

b == INSTANCE BucketSpec WITH Ids <- V, null_bkt <- UINT_E_MAX, D <- key, order <- "decreasing"

OutDegree(u) == Cardinality(OutOf({u}))
get_bucket_clamped(deg) == IF deg = 0 THEN UINT_E_MAX ELSE Bucket[deg]

Init == /\ GA \in Graphs /\ input = GA
        /\ phase = "loop" /\ NoCall
        /\ Frontier = {} /\ active = {}
        /\ Elms = [v \in V |-> UINT_E_MAX]
        /\ D = [v \in V |-> OutDegree(v)]
        /\ key = [v \in V |-> get_bucket_clamped(D[v])]
        /\ cover = {}
        /\ b!Init

\* bkt = b.next_bucket(); edgeMapFilter(G, active, pack_predicate, pack_edges);
\* vertexFilter2(packed_vtxs, above_threshold); edgeMap(..., Visit_Elms(Elms.s), ...)
NextBucket == \E k \in {key[v] : v \in live} :
  /\ phase = "loop"
  /\ b!Take(k)
  /\ active' = {v \in V : taken'.identifiers[v] = 1}
  /\ GA' = {e \in GA : e[1] \in active' => Elms[e[2]] # COVERED}
  /\ D' = [v \in V |-> IF v \in active' THEN Cardinality({e \in GA' : e[1] = v}) ELSE D[v]]
  /\ Frontier' = {v \in active' : D'[v] >= Threshold[k]}
  /\ phase' = "visit"
  /\ Begin({e \in GA' : e[1] \in Frontier'})
  /\ UNCHANGED <<Elms, cover, input>>

NullBucket == /\ phase = "loop"
              /\ b!TakeNothing
              /\ phase' = "done"
              /\ UNCHANGED <<GA, Frontier, callVars, Elms, D, cover, active, input>>

\* Visit_Elms: cond, then writeMin(&(elms[d]), s)
TestElm(e) == /\ phase = "visit"
              /\ IF Elms[e[2]] # COVERED THEN Enter(e, [at |-> "min"]) ELSE Pass(e)
              /\ UNCHANGED <<mainVars, scVars>>
Acquire(e) == /\ phase = "visit"
              /\ Elms' = IF e[1] < Elms[e[2]] THEN [Elms EXCEPT ![e[2]] = e[1]] ELSE Elms
              /\ Answer(e, FALSE)
              /\ UNCHANGED <<mainVars, D, key, live, taken, cover, active, input>>

NumWon(u) == Cardinality({e \in OutOf({u}) : Elms[e[2]] = u})

\* edgeMapFilter(G, still_active, won_ngh_f); D[v] |= TOP_BIT; cover.copyInF(...);
\* edgeMap(..., EdgeMap_F(reset_f), ...)
JoinCover == /\ phase = "visit" /\ Returned
             /\ cover' = cover \cup {u \in Frontier : NumWon(u) >= Low[taken.id]}
             /\ phase' = "reset"
             /\ Begin(OutOf(Frontier))
             /\ UNCHANGED <<GA, Frontier, Elms, D, key, live, taken, active, input>>

\* reset_f: if (Elms[v] == u) ... else nothing
TestOwner(e) == /\ phase = "reset"
                /\ IF Elms[e[2]] = e[1] THEN Enter(e, [at |-> "store"]) ELSE Pass(e)
                /\ UNCHANGED <<mainVars, scVars>>

\* Mutant: what a set did not need to win it keeps.
SettleCovered(e) == /\ phase = "reset"
                    /\ Elms' = IF e[1] \in cover THEN [Elms EXCEPT ![e[2]] = COVERED] ELSE Elms
                    /\ Answer(e, FALSE)
                    /\ UNCHANGED <<mainVars, D, key, live, taken, cover, active, input>>

\* if (D(u) & TOP_BIT) Elms[v] = COVERED; else Elms[v] = UINT_E_MAX;
Settle(e) == /\ phase = "reset"
             /\ Elms' = [Elms EXCEPT ![e[2]] = IF e[1] \in cover THEN COVERED ELSE UINT_E_MAX]
             /\ Answer(e, FALSE)
             /\ UNCHANGED <<mainVars, D, key, live, taken, cover, active, input>>

\* b.update_buckets(f, active.size()): sets that joined go to no bucket
Rebucket == /\ phase = "reset" /\ Returned
            /\ phase' = "loop"
            /\ key' = [v \in V |-> IF v \notin active THEN key[v]
                                   ELSE IF v \in cover THEN UINT_E_MAX ELSE get_bucket_clamped(D[v])]
            /\ live' = live \cup {v \in active : key'[v] # UINT_E_MAX}
            /\ UNCHANGED <<GA, Frontier, callVars, Elms, D, taken, cover, active, input>>

Done == phase = "done"

Next == \/ NextBucket \/ NullBucket \/ JoinCover \/ Rebucket
        \/ \E e \in todo : TestElm(e) \/ TestOwner(e)
        \/ \E e \in DOMAIN regs : Acquire(e) \/ Settle(e)

Spec == Init /\ [][Next]_vars

-----------------------------------------------------------------------------
Elements(u) == {e[2] : e \in {e \in input : e[1] = u}}
Covered == {v \in V : Elms[v] = COVERED}

\* Between two rounds no set holds an element any more, what is covered is what the
\* cover's sets contain, and a set outside the cover that could still add something
\* waits in a bucket no earlier than its uncovered elements ask for.  At the end
\* every element of a set is covered.
CoverCovers ==
  /\ phase = "loop" =>
       /\ \A v \in V : Elms[v] \in {COVERED, UINT_E_MAX}
       /\ Covered \subseteq UNION {Elements(u) : u \in cover}
       /\ \A u \in cover : u \notin live
       /\ \A u \in V \ cover : Elements(u) \subseteq Covered \/
            /\ u \in live /\ key[u] = Bucket[D[u]]
            /\ Cardinality(Elements(u) \ Covered) <= D[u]
  /\ Done => \A u \in V : Elements(u) \subseteq Covered

\* In each round the cover pays for itself: the sets that join it cover together as many
\* elements, not covered before the round (the others were packed out of their lists),
\* as Low asks of their bucket for each of them, although they competed for them.
CoverPays ==
  phase = "reset" =>
    Cardinality(Frontier \cap cover) * Low[taken.id] <=
      Cardinality({v \in V : \/ Elms[v] \in cover
                             \/ Elms[v] = COVERED /\ \E u \in Frontier : <<u, v>> \in GA})
=============================================================================
