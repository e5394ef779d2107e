------------------------------ MODULE Buckets ------------------------------
(***************************************************************************)
(* ligra/bucket.h: the lazy bucketing structure of k-core, delta-stepping  *)
(* and set cover.  total_buckets - 1 buckets are open and cover one range  *)
(* of keys; the last one, the overflow bucket, holds the identifiers of    *)
(* the ranges still to come.  An identifier that moves is copied to its    *)
(* new bucket and the old copy stays behind, to be recognised as stale by  *)
(* its key when its bucket is reached.                                     *)
(*                                                                         *)
(* The order of the identifiers inside a bucket does not matter to any     *)
(* caller, so a bucket is a bag here: a function from identifiers to the   *)
(* number of copies.                                                       *)
(***************************************************************************)
EXTENDS Integers, FiniteSets, FiniteSetsExt

CONSTANTS Ids,           \* the identifiers
          open_buckets,  \* total_buckets - 1
          MaxKey,        \* the largest key (bound)
          null_bkt       \* UINT_E_MAX: larger than every key and bucket

ASSUME BucketsAssumption ==
  /\ IsFiniteSet(Ids) /\ Ids # {}
  /\ open_buckets \in Nat \ {0}
  /\ MaxKey \in Nat /\ null_bkt \in Nat /\ null_bkt > MaxKey /\ null_bkt > open_buckets

VARIABLES
  D,          \* the caller's map from identifiers to keys
  order,      \* "increasing" or "decreasing": fixed by the constructor
  live,       \* the identifiers in the structure, as the caller understands it
  bkts, cur_bkt, cur_range, num_elms,
  phase,      \* "user", "next" inside next_bucket, "exit" after the mismatch message
  bkt,        \* the bucket last returned
  movable     \* identifiers the caller's next update_buckets may still mention

structVars == <<bkts, cur_bkt, cur_range, num_elms>>
vars == <<D, order, live, bkts, cur_bkt, cur_range, num_elms, phase, bkt, movable>>

Keys == 0 .. MaxKey
Empty == [v \in Ids |-> 0]
SumOver(f, S) == MapThenSumSet(LAMBDA x : f[x], S)
Size(b) == SumOver(b, Ids)
Total(bs) == SumOver([i \in 0 .. open_buckets |-> Size(bs[i])], 0 .. open_buckets)

MinKeyOf(S) == CHOOSE k \in S : \A k2 \in S : k <= k2
MaxKeyOf(S) == CHOOSE k \in S : \A k2 \in S : k2 <= k

-----------------------------------------------------------------------------
\* The bucket of key k when range r is open; null_bkt for a key that has gone by.
ToRange(k, r) ==
  IF order = "increasing"
  THEN IF k < r * open_buckets THEN null_bkt
       ELSE IF k < (r + 1) * open_buckets THEN k % open_buckets ELSE open_buckets
  ELSE IF k >= r * open_buckets THEN null_bkt
       ELSE IF k >= (r - 1) * open_buckets THEN open_buckets - (k % open_buckets) - 1
            ELSE open_buckets

CurBucketNum == IF order = "increasing" THEN cur_range * open_buckets + cur_bkt
                ELSE cur_range * open_buckets - cur_bkt - 1

\* Mutant: what was just taken from the current bucket is not put back.
GetBucketNotCurrent(prev, nxt) ==
  LET pb == ToRange(prev, cur_range)
      nb == ToRange(nxt, cur_range)
  IN  IF nb # null_bkt /\ (prev = null_bkt \/ pb # nb) THEN nb ELSE null_bkt

\* get_bucket: the destination of a move, null_bkt if the copy there will do.
GetBucket(prev, nxt) ==
  LET pb == ToRange(prev, cur_range)
      nb == ToRange(nxt, cur_range)
  IN  IF nb # null_bkt /\ (prev = null_bkt \/ pb # nb \/ nb = cur_bkt) THEN nb ELSE null_bkt

\* Mutant: null destinations are counted too.
AddedAlways(dest) == 1

\* What one entry of update_buckets adds to num_elms.
Added(dest) == IF dest = null_bkt THEN 0 ELSE 1

\* update_buckets adds count[v] copies of v to bucket dest[v], unless that is null.
Insert(bs, count, dest) ==
  [i \in 0 .. open_buckets |->
     [v \in Ids |-> bs[i][v] + (IF dest[v] = i THEN count[v] ELSE 0)]]

-----------------------------------------------------------------------------
FirstRange(d) ==
  IF order = "increasing" THEN MinKeyOf({d[v] : v \in Ids}) \div open_buckets
  ELSE (MaxKeyOf({IF d[v] = null_bkt THEN 0 ELSE d[v] : v \in Ids}) + open_buckets)
         \div open_buckets

Init ==
  /\ order \in {"increasing", "decreasing"}
  /\ D \in [Ids -> Keys \cup {null_bkt}]
  /\ live = {v \in Ids : D[v] # null_bkt}
  /\ cur_range = FirstRange(D) /\ cur_bkt = 0
  /\ bkts = Insert([i \in 0 .. open_buckets |-> Empty], [v \in Ids |-> 1],
                   [v \in Ids |-> IF D[v] = null_bkt THEN null_bkt ELSE ToRange(D[v], cur_range)])
  /\ num_elms = Total(bkts)
  /\ phase = "next"
  /\ bkt = [id |-> null_bkt, identifiers |-> Empty]
  /\ movable = {}

\* Mutant: curBucketNonEmpty is not asked.
SearchingPastCopies == phase = "next" /\ num_elms > 0

\* while (!curBucketNonEmpty() && num_elms > 0) _next_bucket();
Searching == phase = "next" /\ bkts[cur_bkt] = Empty /\ num_elms > 0

Advance == /\ Searching /\ cur_bkt + 1 # open_buckets
           /\ cur_bkt' = cur_bkt + 1
           /\ UNCHANGED <<D, order, live, bkts, cur_range, num_elms, phase, bkt, movable>>

\* Mutant: unpack does not open the next range.
SameRange == cur_range

\* unpack: open the next range and distribute the overflow bucket over it.  If none
\* of it is in range, skip to one before the first range that has some.
NextRange == IF order = "increasing" THEN cur_range + 1 ELSE cur_range - 1
Distribute(over) ==
  Insert([bkts EXCEPT ![open_buckets] = Empty], over,
         [v \in Ids |-> ToRange(D[v], NextRange)])
\* Mutant: skips onto the first range with an identifier, not one before it.
SkipOnto(over) ==
  LET ks == {D[v] : v \in {v \in Ids : over[v] > 0}}
  IN  IF order = "increasing" THEN MinKeyOf(ks) \div open_buckets
      ELSE (open_buckets + MaxKeyOf(ks)) \div open_buckets

SkipRange(over) ==
  LET ks == {D[v] : v \in {v \in Ids : over[v] > 0}}
  IN  IF order = "increasing" THEN MinKeyOf(ks) \div open_buckets - 1
      ELSE (open_buckets + MaxKeyOf(ks)) \div open_buckets + 1

\* num_in_range == 0
NoneInRange(bs) == \A i \in 0 .. open_buckets - 1 : bs[i] = Empty

Unpack ==
  LET over == bkts[open_buckets] IN
  /\ Searching /\ cur_bkt + 1 = open_buckets
  /\ cur_bkt' = 0
  /\ IF Size(over) # num_elms
     THEN phase' = "exit" /\ UNCHANGED <<bkts, cur_range, num_elms>>
     ELSE /\ bkts' = Distribute(over)
          /\ LET rest == bkts'[open_buckets]
             IN  cur_range' = IF NoneInRange(bkts') /\ rest # Empty THEN SkipRange(rest) ELSE NextRange
          /\ num_elms' = num_elms + Total(bkts') - Size(over)
          /\ UNCHANGED phase
  /\ UNCHANGED <<D, order, live, bkt, movable>>

\* get_cur_bucket: the identifiers whose key says they are still here; if all the
\* copies were stale the search goes on.
GetCurBucket ==
  LET b == bkts[cur_bkt]
      out == [v \in Ids |-> IF D[v] = CurBucketNum THEN b[v] ELSE 0]
  IN  /\ phase = "next" /\ b # Empty
      /\ num_elms' = num_elms - Size(b)
      /\ bkts' = [bkts EXCEPT ![cur_bkt] = Empty]
      /\ IF out = Empty THEN UNCHANGED <<phase, bkt, live, movable>>
         ELSE /\ phase' = "user"
              /\ bkt' = [id |-> CurBucketNum, identifiers |-> out]
              /\ live' = live \ {v \in Ids : out[v] > 0}
              /\ movable' = Ids
      /\ UNCHANGED <<D, order, cur_bkt, cur_range>>

NoMoreBuckets ==
  /\ phase = "next" /\ num_elms = 0
  /\ phase' = "user"
  /\ bkt' = [id |-> null_bkt, identifiers |-> Empty]
  /\ movable' = {}
  /\ UNCHANGED <<D, order, live, structVars>>

-----------------------------------------------------------------------------
(* The callers: one update_buckets between two calls of next_bucket, which  *)
(* names an identifier at most once.                                        *)

\* Delta-stepping and k-core lower keys, but not below the current bucket, and may
\* put back what was taken at this key; set cover puts back, at a key that is not
\* larger, or drops, what it has just taken.
MayMove(v, k) ==
  IF order = "increasing"
  THEN /\ k # null_bkt /\ bkt.id <= k
       /\ v \in live \/ D[v] \in {bkt.id, null_bkt}
       /\ k <= D[v]
  ELSE bkt.identifiers[v] > 0 /\ (k <= bkt.id \/ k = null_bkt)

Move(v, k) ==
  /\ phase = "user" /\ v \in movable /\ bkt.id # null_bkt /\ MayMove(v, k)
  /\ D' = [D EXCEPT ![v] = k]
  /\ live' = IF k = null_bkt THEN live \ {v} ELSE live \cup {v}
  /\ LET dest == IF k = null_bkt THEN null_bkt ELSE GetBucket(D[v], k) IN
     /\ bkts' = Insert(bkts, [u \in Ids |-> 1], [u \in Ids |-> IF u = v THEN dest ELSE null_bkt])
     /\ num_elms' = num_elms + Added(dest)
  /\ movable' = movable \ {v}
  /\ UNCHANGED <<order, cur_bkt, cur_range, phase, bkt>>

CallNext == /\ phase = "user" /\ bkt.id # null_bkt
            /\ phase' = "next" /\ movable' = {}
            /\ UNCHANGED <<D, order, live, structVars, bkt>>

NextBucketStep == Advance \/ Unpack \/ GetCurBucket \/ NoMoreBuckets

Next == \/ NextBucketStep \/ CallNext
        \/ \E v \in Ids, k \in Keys \cup {null_bkt} : Move(v, k)

Spec == Init /\ [][Next]_vars /\ WF_vars(NextBucketStep)

-----------------------------------------------------------------------------

\* However often an identifier moved, exactly one copy of it is where its key puts it;
\* the copies anywhere else are stale.
OneGoodCopy ==
  \A v \in live : /\ ToRange(D[v], cur_range) # null_bkt
                  /\ bkts[ToRange(D[v], cur_range)][v] = 1

\* num_elms counts the copies, stale ones included: the mismatch of unpack is dead
\* code, and next_bucket reports the end only of an empty structure.
NumElmsCountsCopies == phase # "exit" /\ num_elms = Total(bkts)

\* A stale copy cannot come back to life: the open buckets next_bucket has gone past
\* are empty, whatever update_buckets has inserted since.
NoCopyBehind ==
  \A i \in 0 .. cur_bkt - 1 : bkts[i] = Empty

\* The structure is a priority queue.
Promise == INSTANCE BucketSpec WITH taken <- bkt
ImplementsBucketSpec == Promise!Spec

\* next_bucket returns, under weak fairness of its own steps.
NextBucketReturns == phase = "next" ~> phase = "user"
=============================================================================
