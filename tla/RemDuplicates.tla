--------------------------- MODULE RemDuplicates ---------------------------
(***************************************************************************)
(* remDuplicates (ligra/utils.h): two parallel loops over an array of      *)
(* keys.  In the first the entries of a key compete for flags[key] by CAS; *)
(* in the second the winner resets flags[key] while the losers still read  *)
(* it, and they remove themselves.                                         *)
(***************************************************************************)
EXTENDS Integers, FiniteSets

CONSTANTS Arrays,    \* the arrays of keys to try, functions on 0 .. m - 1
          UINT_E_MAX

VARIABLES input, keys, flags, at
vars == <<input, keys, flags, at>>

\* The keys are words of memory, and UINT_E_MAX is not the index of an entry.
InputsOK == \A a \in Arrays : a \in [DOMAIN a -> Nat] /\ UINT_E_MAX \in Nat \ DOMAIN a

Entries == DOMAIN input
KeysOf(a) == {a[i] : i \in DOMAIN a} \ {UINT_E_MAX}

Init == /\ input \in Arrays
        /\ keys = input
        /\ flags = [key \in KeysOf(input) |-> UINT_E_MAX]
        /\ at = [i \in Entries |-> "test"]

Goto(i, a) == at' = [at EXCEPT ![i] = a]

\* if(key != UINT_E_MAX && flags[key] == UINT_E_MAX)
Test(i) ==
  /\ at[i] = "test"
  /\ Goto(i, IF keys[i] # UINT_E_MAX /\ flags[keys[i]] = UINT_E_MAX THEN "cas" ELSE "join")
  /\ UNCHANGED <<input, keys, flags>>

\* CAS(&flags[key], UINT_E_MAX, i)
Swap(i) == /\ at[i] = "cas"
           /\ Goto(i, "join")
           /\ flags' = [flags EXCEPT ![keys[i]] = IF @ = UINT_E_MAX THEN i ELSE @]
           /\ UNCHANGED <<input, keys>>

\* the second loop starts when the first has ended
Join == /\ \A i \in Entries : at[i] = "join"
        /\ at' = [i \in Entries |-> IF keys[i] = UINT_E_MAX THEN "end" ELSE "won?"]
        /\ UNCHANGED <<input, keys, flags>>

\* if(flags[key] == i)
Won(i) == /\ at[i] = "won?"
          /\ Goto(i, IF flags[keys[i]] = i THEN "reset" ELSE "lost")
          /\ UNCHANGED <<input, keys, flags>>
Reset(i) == /\ at[i] = "reset"
            /\ Goto(i, "end")
            /\ flags' = [flags EXCEPT ![keys[i]] = UINT_E_MAX]
            /\ UNCHANGED <<input, keys>>
Remove(i) == /\ at[i] = "lost"
             /\ Goto(i, "end")
             /\ keys' = [keys EXCEPT ![i] = UINT_E_MAX]
             /\ UNCHANGED <<input, flags>>

Done == \A i \in Entries : at[i] = "end"

Next == Join \/ \E i \in Entries : Test(i) \/ Swap(i) \/ Won(i) \/ Reset(i) \/ Remove(i)

Spec == Init /\ [][Next]_vars

-----------------------------------------------------------------------------
\* One entry of each key survives, no key is lost, and flags is as it was found, as
\* the next call needs it.
OneOfEachSurvives ==
  Done => /\ KeysOf(keys) = KeysOf(input)
          /\ \A i, j \in Entries : keys[i] = keys[j] => i = j \/ keys[i] = UINT_E_MAX
          /\ \A key \in DOMAIN flags : flags[key] = UINT_E_MAX
=============================================================================
