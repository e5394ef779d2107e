----------------------------- MODULE BucketSpec -----------------------------
(***************************************************************************)
(* What a bucketing structure promises its caller: next_bucket takes out   *)
(* all the identifiers of the first key in the order, each once, and says  *)
(* null_bkt only when there is none left.                                  *)
(***************************************************************************)
EXTENDS Integers

CONSTANTS Ids, null_bkt

VARIABLES D, order, live, taken
vars == <<D, order, live, taken>>

Init == /\ live = {v \in Ids : D[v] # null_bkt}
        /\ taken = [id |-> null_bkt, identifiers |-> [v \in Ids |-> 0]]

IsFirst(k) ==
  \A u \in live : IF order = "increasing" THEN k <= D[u] ELSE D[u] <= k

Take(k) ==
  LET ids == {v \in live : D[v] = k} IN
  /\ ids # {} /\ IsFirst(k)
  /\ taken' = [id |-> k, identifiers |-> [v \in Ids |-> IF v \in ids THEN 1 ELSE 0]]
  /\ live' = live \ ids
  /\ UNCHANGED <<D, order>>

TakeNothing ==
  /\ live = {}
  /\ taken' = [id |-> null_bkt, identifiers |-> [v \in Ids |-> 0]]
  /\ UNCHANGED <<D, order, live>>

Rekey(v) ==
  /\ \A u \in Ids \ {v} : D'[u] = D[u]
  /\ live' = IF D'[v] = null_bkt THEN live \ {v} ELSE live \cup {v}
  /\ UNCHANGED <<order, taken>>

Next == \/ \E v \in live : Take(D[v])
        \/ TakeNothing
        \/ \E v \in Ids : Rekey(v)

Spec == Init /\ [][Next]_vars
=============================================================================
