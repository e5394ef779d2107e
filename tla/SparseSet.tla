----------------------------- MODULE SparseSet -----------------------------
(***************************************************************************)
(* apps/localAlg/sparseSet.h: a table of keys with sums, open addressing   *)
(* with linear probing, filled by concurrent inserts.  A key is claimed by *)
(* a CAS of the empty pair; an insert that finds its key adds to the sum.  *)
(* Worker i inserts Items[i]; each access to the table is a step.          *)
(***************************************************************************)
EXTENDS Integers, FiniteSets, FiniteSetsExt

CONSTANTS m,        \* the table's size, more than the keys
          Items,    \* Items[i]: the pair <<key, value>> of worker i
          Hash,     \* firstIndex, for each key
          UINT_E_MAX

VARIABLES TA,       \* the pairs of the table
          at, h     \* where each worker is, and the slot it looks at
vars == <<TA, at, h>>

Workers == DOMAIN Items
Keys == {Items[i][1] : i \in Workers}
empty == <<UINT_E_MAX, 0>>

\* The table has a slot more than it will hold keys.
InputsOK == /\ IsFiniteSet(Workers) /\ Items \in [Workers -> Keys \X Nat]
            /\ m \in Nat /\ Cardinality(Keys) < m
            /\ Hash \in [Keys -> 0 .. m - 1]
            /\ UINT_E_MAX \notin Keys

Init == /\ TA = [j \in 0 .. m - 1 |-> empty]
        /\ at = [i \in Workers |-> "empty?"]
        /\ h = [i \in Workers |-> Hash[Items[i][1]]]

Goto(i, a) == at' = [at EXCEPT ![i] = a]

\* TA[h].first == UINT_E_MAX
TestEmpty(i) == /\ at[i] = "empty?"
                /\ Goto(i, IF TA[h[i]][1] = UINT_E_MAX THEN "cas" ELSE "same?")
                /\ UNCHANGED <<TA, h>>

\* Mutant: the insert that loses the CAS goes on to the next slot.
ClaimOrMove(i) ==
  /\ at[i] = "cas"
  /\ IF TA[h[i]] = empty
     THEN TA' = [TA EXCEPT ![h[i]] = Items[i]] /\ Goto(i, "inserted") /\ UNCHANGED h
     ELSE Goto(i, "empty?") /\ h' = [h EXCEPT ![i] = (@ + 1) % m] /\ UNCHANGED TA

\* CAS(&TA[h], empty, v)
Claim(i) == /\ at[i] = "cas"
            /\ IF TA[h[i]] = empty THEN TA' = [TA EXCEPT ![h[i]] = Items[i]] /\ Goto(i, "inserted")
                                   ELSE UNCHANGED TA /\ Goto(i, "same?")
            /\ UNCHANGED h

\* else if (TA[h].first == vkey); if not, the next slot
TestSame(i) == /\ at[i] = "same?"
               /\ IF TA[h[i]][1] = Items[i][1]
                  THEN Goto(i, "add") /\ UNCHANGED h
                  ELSE Goto(i, "empty?") /\ h' = [h EXCEPT ![i] = (@ + 1) % m]
               /\ UNCHANGED TA

\* writeAdd(&(TA[h].second), v.second)
Add(i) == /\ at[i] = "add"
          /\ TA' = [TA EXCEPT ![h[i]][2] = @ + Items[i][2]]
          /\ Goto(i, "added")
          /\ UNCHANGED h

Done == \A i \in Workers : at[i] \in {"inserted", "added"}

Next == \E i \in Workers : TestEmpty(i) \/ Claim(i) \/ TestSame(i) \/ Add(i)

Spec == Init /\ [][Next]_vars

\* find(v): the slot of the key reached from firstIndex before an empty one, or m
Slot(v, k) == (Hash[v] + k) % m
Stops(v) == {k \in 0 .. m - 1 : TA[Slot(v, k)][1] \in {UINT_E_MAX, v}}
Found(v) == IF Stops(v) # {} /\ TA[Slot(v, Min(Stops(v)))][1] = v THEN Slot(v, Min(Stops(v))) ELSE m

-----------------------------------------------------------------------------
Value == [i \in Workers |-> Items[i][2]]
Sums(is) == MapThenSumSet(LAMBDA i : Value[i], is)
Finished(v) == {i \in Workers : Items[i][1] = v /\ at[i] \in {"inserted", "added"}}

\* No key ever has two slots, a key that was inserted is found from then on, and its
\* sum is that of the inserts which have added to it; of those of one key exactly one
\* answers that the key is new.
TableHoldsSums ==
  /\ \A j, l \in 0 .. m - 1 : TA[j][1] = TA[l][1] => j = l \/ TA[j] = empty
  /\ \A v \in Keys : IF Finished(v) = {} THEN Found(v) = m
                     ELSE Found(v) # m /\ TA[Found(v)][2] = Sums(Finished(v))
  /\ \A v \in Keys : Cardinality({i \in Finished(v) : at[i] = "inserted"}) = IF Finished(v) = {} THEN 0 ELSE 1
=============================================================================
