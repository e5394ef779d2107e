---------------------------- MODULE BucketKCore ----------------------------
(***************************************************************************)
(* apps/bucketing/KCore.C over the buckets of BucketSpec: the vertices of  *)
(* the lowest degree are taken out, edgeMapCount counts for each neighbour *)
(* how many edges it loses, and apply_f, once per neighbour, lowers its    *)
(* degree, but not below k.                                                *)
(***************************************************************************)
EXTENDS Integers, FiniteSets

CONSTANTS V, Graphs, UINT_E_MAX

VARIABLES GA, phase, D, live, taken, finished
vars == <<GA, phase, D, live, taken, finished>>

b == INSTANCE BucketSpec WITH Ids <- V, null_bkt <- UINT_E_MAX, order <- "increasing"

nv == Cardinality(V)

\* Symmetric graphs, of fewer vertices than a uintE counts.
InputsOK == /\ IsFiniteSet(V) /\ UINT_E_MAX \in Nat /\ nv < UINT_E_MAX
            /\ \A G \in Graphs : G \subseteq V \X V /\ \A e \in G : <<e[2], e[1]>> \in G

Init == /\ GA \in Graphs
        /\ phase = "loop"
        /\ D = [v \in V |-> Cardinality({e \in GA : e[1] = v})]
        /\ finished = 0
        /\ b!Init

\* bkt = b.next_bucket(); finished += active.size();
NextBucket == \E k \in {D[v] : v \in live} :
  /\ phase = "loop" /\ finished # nv
  /\ b!Take(k)
  /\ finished' = finished + Cardinality(live \ live')
  /\ phase' = "apply"
  /\ UNCHANGED GA

active == {v \in V : taken.identifiers[v] = 1}
edgesRemoved(v) == Cardinality({e \in GA : e[1] \in active /\ e[2] = v})

\* em.edgeMapCount(active, apply_f); b.update_buckets(moved...): the keys are D itself.
\* deg - edgesRemoved is a difference of unsigned words.
Apply ==
  LET k == taken.id
      rest(v) == (D[v] - edgesRemoved(v)) % (UINT_E_MAX + 1)
      new_deg(v) == IF rest(v) > k THEN rest(v) ELSE k
  IN  /\ phase = "apply"
      /\ phase' = "loop"
      /\ D' = [v \in V |-> IF D[v] > k THEN new_deg(v) ELSE D[v]]
      /\ UNCHANGED <<GA, live, taken, finished>>

Done == phase = "loop" /\ finished = nv

Next == NextBucket \/ Apply

Spec == Init /\ [][Next]_vars

-----------------------------------------------------------------------------
InCore(j, S) == \A v \in S : Cardinality({u \in S : <<v, u>> \in GA}) >= j
CoreNumber(v) == CHOOSE j \in 0 .. nv : /\ \E S \in SUBSET V : v \in S /\ InCore(j, S)
                                        /\ ~ \E S \in SUBSET V : v \in S /\ InCore(j + 1, S)

\* Between two rounds a vertex that waits has the degree it has among those that wait,
\* held at the k of the last round: what is taken off a degree above k is never more than
\* the degree, so that the unsigned difference does not wrap.
DegreesAreInduced ==
  phase = "loop" /\ taken.id # UINT_E_MAX => \A v \in live :
    LET among == Cardinality({u \in live : <<v, u>> \in GA})
    IN  D[v] = IF among > taken.id THEN among ELSE taken.id

\* Every vertex is taken exactly once, and ends with its core number.
CoresAreRight == Done => live = {} /\ \A v \in V : D[v] = CoreNumber(v)
=============================================================================
