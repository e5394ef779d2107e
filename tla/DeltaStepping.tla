--------------------------- MODULE DeltaStepping ---------------------------
(***************************************************************************)
(* apps/bucketing/DeltaStepping.C over the buckets of BucketSpec.  The top *)
(* bit of a distance says that the vertex was lowered in this round: the   *)
(* first to lower it sets the bit by a CAS on the value it read and        *)
(* answers with the old distance, from which the old bucket is computed;   *)
(* the others use writeMin.  All traversals call updateAtomic.             *)
(***************************************************************************)
EXTENDS EdgeCall, FiniteSetsExt

CONSTANTS V, Graphs, src, delta,
          TopBit,     \* a power of 2; INT_E_MAX is TopBit - 1
          UINT_E_MAX

VARIABLES dists,
          key,         \* the bucket each vertex was last put in
          live, taken, \* of the buckets
          oldDist      \* the data of the edgeMap's output: the distances before
dsVars == <<dists, key, live, taken, oldDist>>
vars == <<mainVars, callVars, dsVars>>

b == INSTANCE BucketSpec WITH Ids <- V, null_bkt <- UINT_E_MAX, D <- key, order <- "increasing"

INT_E_MAX == TopBit - 1
HasTop(x) == x >= TopBit
WithTop(x) == IF HasTop(x) THEN x ELSE x + TopBit
get_bkt(x) == IF x = INT_E_MAX THEN UINT_E_MAX ELSE x \div delta

\* What the graphs hold: finitely many edges between the vertices, whose weights are so
\* small that the length of a path, with the top bit set, fits in the unsigned word.
InputsOK == /\ src \in V /\ IsFiniteSet(V) /\ delta \in Nat \ {0}
            /\ TopBit \in Nat \ {0, 1} /\ UINT_E_MAX \in Nat /\ UINT_E_MAX >= TopBit
            /\ \A G \in Graphs : /\ IsFiniteSet(G) /\ G \subseteq V \X V \X Nat
                                /\ \E W \in 0 .. INT_E_MAX : /\ Cardinality(V) * W < INT_E_MAX
                                                           /\ \A e \in G : e[3] <= W

Init == /\ GA \in Graphs
        /\ phase = "loop" /\ NoCall
        /\ Frontier = {}
        /\ dists = [v \in V |-> IF v = src THEN 0 ELSE INT_E_MAX]
        /\ key = [v \in V |-> get_bkt(dists[v])]
        /\ oldDist = <<>>
        /\ b!Init

\* bkt = b.next_bucket(); edgeMapData<uintE>(G, active, Visit_F(dists), ...)
NextBucket == \E k \in {key[v] : v \in live} :
  /\ phase = "loop"
  /\ b!Take(k)
  /\ phase' = "map"
  /\ Frontier' = {v \in V : taken'.identifiers[v] = 1}
  /\ Begin(OutOf(Frontier'))
  /\ oldDist' = <<>>
  /\ UNCHANGED <<GA, dists>>

NullBucket == /\ phase = "loop"
              /\ b!TakeNothing
              /\ phase' = "done"
              /\ UNCHANGED <<GA, Frontier, callVars, dists, oldDist>>

\* uintE oval = dists.s[d];
ReadOld(e) == /\ phase = "map"
              /\ Enter(e, [at |-> "source", oval |-> dists[e[2]]])
              /\ UNCHANGED <<mainVars, dsVars>>

\* n_dist = (dists.s[s] | TOP_BIT) + w; if (n_dist < dist) ...
ReadSource(e) ==
  LET oval == regs[e].oval
      n_dist == (WithTop(dists[e[1]]) + e[3]) % (2 * TopBit)
  IN  /\ regs[e].at = "source"
      /\ IF n_dist < WithTop(oval)
         THEN Local(e, [at |-> IF HasTop(oval) THEN "min" ELSE "cas", oval |-> oval, n_dist |-> n_dist])
         ELSE Answer(e, FALSE)
      /\ UNCHANGED <<mainVars, dsVars>>

\* Mutant: the first visitor stores its distance.
StoreFirst(e) ==
  LET d == e[2] IN
  /\ regs[e].at = "cas"
  /\ dists' = [dists EXCEPT ![d] = regs[e].n_dist]
  /\ oldDist' = [x \in DOMAIN oldDist \cup {d} |-> IF x = d THEN regs[e].oval ELSE oldDist[x]]
  /\ Answer(e, TRUE)
  /\ UNCHANGED <<mainVars, key, live, taken>>

\* CAS(&(dists[d]), oval, n_dist): the first visitor
SwapFirst(e) ==
  LET d == e[2] IN
  /\ regs[e].at = "cas"
  /\ IF dists[d] = regs[e].oval
     THEN /\ dists' = [dists EXCEPT ![d] = regs[e].n_dist]
          /\ oldDist' = [x \in DOMAIN oldDist \cup {d} |-> IF x = d THEN regs[e].oval ELSE oldDist[x]]
          /\ Answer(e, TRUE)
     ELSE Local(e, [regs[e] EXCEPT !.at = "min"]) /\ UNCHANGED <<dists, oldDist>>
  /\ UNCHANGED <<mainVars, key, live, taken>>

\* writeMin(&(dists[d]), n_dist)
WriteMinDist(e) ==
  LET d == e[2] IN
  /\ regs[e].at = "min"
  /\ dists' = IF regs[e].n_dist < dists[d] THEN [dists EXCEPT ![d] = regs[e].n_dist] ELSE dists
  /\ Answer(e, FALSE)
  /\ UNCHANGED <<mainVars, key, live, taken, oldDist>>

\* vertexMap(res, apply_f), which takes the top bit off, and b.update_buckets(...);
\* a vertex that is put in a bucket is live, as in BucketSpec's Rekey
Rebucket ==
  LET newDist(v) == IF HasTop(dists[v]) THEN dists[v] - TopBit ELSE dists[v] IN
  /\ phase = "map" /\ Returned
  /\ phase' = "loop"
  /\ dists' = [v \in V |-> IF v \in out THEN newDist(v) ELSE dists[v]]
  /\ key' = [v \in V |-> IF v \in out THEN get_bkt(newDist(v)) ELSE key[v]]
  /\ live' = live \cup {v \in out : get_bkt(newDist(v)) # UINT_E_MAX}
  /\ UNCHANGED <<GA, Frontier, callVars, taken, oldDist>>

Done == phase = "done"

Next == \/ NextBucket \/ NullBucket \/ Rebucket
        \/ \E e \in todo : ReadOld(e)
        \/ \E e \in DOMAIN regs : ReadSource(e) \/ SwapFirst(e) \/ WriteMinDist(e)

Spec == Init /\ [][Next]_vars

-----------------------------------------------------------------------------
\* Shortest[k]: the lengths of the shortest paths of at most k edges.
Shortest[k \in 0 .. Cardinality(V)] ==
  IF k = 0 THEN [v \in V |-> IF v = src THEN 0 ELSE INT_E_MAX]
  ELSE LET near == Shortest[k - 1]
       IN  [v \in V |-> Min({near[v]} \cup {near[e[1]] + e[3] :
                               e \in {e \in GA : e[2] = v /\ near[e[1]] # INT_E_MAX}})]

\* When no bucket is left the distances are the shortest ones.
DistancesAreShortest == Done => dists = Shortest[Cardinality(V)]

\* Between two rounds no distance keeps its top bit, each vertex lies in the bucket of
\* its distance, and one that can still lower another waits in its bucket: no one
\* lowered after the first visitor's CAS is forgotten.  The old distance reported is
\* the one the vertex was bucketed by, as get_bucket needs it.
NothingIsLost ==
  /\ phase = "loop" =>
       /\ \A v \in V : dists[v] < TopBit /\ key[v] = get_bkt(dists[v])
       /\ \A e \in GA : dists[e[1]] # INT_E_MAX =>
            e[1] \in live \/ dists[e[2]] <= dists[e[1]] + e[3]
  /\ phase = "map" => /\ DOMAIN oldDist = out
                      /\ \A v \in out : get_bkt(oldDist[v]) = key[v]
                      /\ \A v \in V : HasTop(dists[v]) => v \in out
=============================================================================
