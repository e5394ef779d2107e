------------------------------- MODULE KCore -------------------------------
(***************************************************************************)
(* apps/KCore.C: vertices of degree less than k are taken out round after  *)
(* round, and their neighbours' degrees lowered.  cond reads a degree that *)
(* the updates of the same call lower, and the filters compare it, an int, *)
(* with the unsigned k.                                                    *)
(***************************************************************************)
EXTENDS EdgeCall

CONSTANTS V, Graphs,
          UintRange  \* 2^32

VARIABLES k, Degrees, coreNumbers, largestCore
coreVars == <<k, Degrees, coreNumbers, largestCore>>
vars == <<mainVars, callVars, coreVars>>

\* Symmetric graphs without loops, of fewer vertices than a uintE counts.
InputsOK == /\ IsFiniteSet(V) /\ V # {}
            /\ UintRange \in Nat /\ Cardinality(V) < UintRange
            /\ \A G \in Graphs : /\ G \subseteq V \X V
                               /\ \A e \in G : <<e[2], e[1]>> \in G /\ e[1] # e[2]

nv == Cardinality(V)
Unsigned(x) == x % UintRange

Init == /\ GA \in Graphs
        /\ phase = "filter" /\ NoCall
        /\ Frontier = V
        /\ k = 1
        /\ Degrees = [v \in V |-> Cardinality(OutOf({v}))]
        /\ coreNumbers = [v \in V |-> 0]
        /\ largestCore = -1

ToRemove == {v \in Frontier : Unsigned(Degrees[v]) < k}

\* vertexFilter(Frontier, Deg_LessThan_K), then vertexFilter(Frontier, Deg_AtLeast_K),
\* which sees the zeroes the first one stored, and the edgeMap
Remove ==
  /\ phase = "filter" /\ ToRemove # {}
  /\ coreNumbers' = [v \in V |-> IF v \in ToRemove THEN k - 1 ELSE coreNumbers[v]]
  /\ Degrees' = [v \in V |-> IF v \in ToRemove THEN 0 ELSE Degrees[v]]
  /\ Frontier' = {v \in Frontier : Unsigned(Degrees'[v]) >= k}
  /\ phase' = "map" /\ Begin(OutOf(ToRemove))
  /\ UNCHANGED <<GA, k, largestCore>>

\* if(Degrees[d] > 0) writeAdd(&Degrees[d], -1), the test a step before the addition
Test(e) == /\ IF Degrees[e[2]] > 0 THEN Enter(e, [at |-> "add"]) ELSE Pass(e)
           /\ UNCHANGED <<mainVars, coreVars>>
Lower(e) == /\ Answer(e, TRUE)
            /\ Degrees' = [Degrees EXCEPT ![e[2]] = @ - 1]
            /\ UNCHANGED <<mainVars, k, coreNumbers, largestCore>>

Return == /\ phase = "map" /\ Returned
          /\ phase' = "filter"
          /\ UNCHANGED <<GA, Frontier, callVars, coreVars>>

\* nothing to remove: the k-core is found; the loop over k ends with an empty
\* frontier, or behind k = nv
NextK == /\ phase = "filter" /\ ToRemove = {} /\ Frontier # {}
         /\ IF k = nv THEN phase' = "done" /\ UNCHANGED k ELSE k' = k + 1 /\ UNCHANGED phase
         /\ UNCHANGED <<GA, Frontier, callVars, Degrees, coreNumbers, largestCore>>
Largest == /\ phase = "filter" /\ ToRemove = {} /\ Frontier = {}
           /\ largestCore' = k - 1
           /\ phase' = "done"
           /\ UNCHANGED <<GA, Frontier, callVars, k, Degrees, coreNumbers>>

Done == phase = "done"

Next == \/ Remove \/ Return \/ NextK \/ Largest
        \/ \E e \in todo : Test(e)
        \/ \E e \in DOMAIN regs : Lower(e)

Spec == Init /\ [][Next]_vars

-----------------------------------------------------------------------------
InCore(j, S) == \A v \in S : Cardinality({u \in S : <<v, u>> \in GA}) >= j
CoreNumber(v) == CHOOSE j \in 0 .. nv : /\ \E S \in SUBSET V : v \in S /\ InCore(j, S)
                                        /\ ~ \E S \in SUBSET V : v \in S /\ InCore(j + 1, S)

\* Between two calls a vertex still in has the degree it has among those still in:
\* no decrement is lost to a stale cond, and none drives a degree below zero.
DegreesAreInduced ==
  phase = "filter" => \A v \in Frontier :
    Degrees[v] = Cardinality({u \in Frontier : <<v, u>> \in GA})

\* The program ends with every vertex's core number, and the largest of them.
CoresAreRight ==
  Done => /\ \A v \in V : coreNumbers[v] = CoreNumber(v)
          /\ \E v \in V : coreNumbers[v] = largestCore
          /\ \A v \in V : coreNumbers[v] <= largestCore
=============================================================================
