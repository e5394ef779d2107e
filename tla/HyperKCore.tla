----------------------------- MODULE HyperKCore -----------------------------
(***************************************************************************)
(* apps/hyper/HyperKCore.C: taking a vertex out takes its hyperedges out,  *)
(* each claimed once by a CAS on Flags, and lowers the degrees of their    *)
(* other vertices.  A degree is lowered only while it is at least k; the   *)
(* test and the addition are two steps.  Vertices are nodes <<0, i>>,      *)
(* hyperedges <<1, i>>.                                                    *)
(***************************************************************************)
EXTENDS EdgeCall

CONSTANTS V, H, Graphs, UintRange

VARIABLES k, Degrees, Flags, largestCore
coreVars == <<k, Degrees, Flags, largestCore>>
vars == <<mainVars, callVars, coreVars>>

\* Symmetric hypergraphs, of fewer hyperedges than a uintE counts.
InputsOK == /\ IsFiniteSet(V) /\ V # {} /\ IsFiniteSet(H) /\ V \cap H = {}
            /\ UintRange \in Nat /\ Cardinality(H) < UintRange
            /\ \A G \in Graphs : /\ G \subseteq (V \X H) \cup (H \X V)
                               /\ \A e \in G : <<e[2], e[1]>> \in G

Unsigned(x) == x % UintRange

Init == /\ GA \in Graphs
        /\ phase = "filter" /\ NoCall
        /\ Frontier = V
        /\ k = 1
        /\ Degrees = [v \in V |-> Cardinality(OutOf({v}))]
        /\ Flags = [h \in H |-> 0]
        /\ largestCore = -1

ToRemove == {v \in Frontier : Unsigned(Degrees[v]) < k}

\* the two vertexFilters, then vertexProp(GA, toRemove, Remove_Hyperedge(Flags))
Remove ==
  /\ phase = "filter" /\ ToRemove # {}
  /\ Degrees' = [v \in V |-> IF v \in ToRemove THEN k - 1 ELSE Degrees[v]]
  /\ Frontier' = {v \in Frontier : Unsigned(Degrees'[v]) >= k}
  /\ phase' = "toH" /\ Begin(OutOf(ToRemove))
  /\ UNCHANGED <<GA, k, Flags, largestCore>>

\* Remove_Hyperedge: cond, then CAS(&Flags[d], 0, 1)
TestFlag(e) == /\ phase = "toH"
               /\ IF Flags[e[2]] = 0 THEN Enter(e, [at |-> "cas"]) ELSE Pass(e)
               /\ UNCHANGED <<mainVars, coreVars>>
Claim(e) == /\ phase = "toH"
            /\ Answer(e, Flags[e[2]] = 0)
            /\ Flags' = [Flags EXCEPT ![e[2]] = 1]
            /\ UNCHANGED <<mainVars, k, Degrees, largestCore>>

\* Mutant: every hyperedge of a removed vertex is propagated, claimed now or before.
HyperedgePropAll == /\ phase = "toH" /\ Returned
                    /\ phase' = "toV"
                    /\ Begin(OutOf({h \in H : Flags[h] = 1}))
                    /\ UNCHANGED <<GA, Frontier, coreVars>>

\* hyperedgeProp(GA, FrontierH, Update_Deg(Degrees, k), -1, no_output)
HyperedgeProp == /\ phase = "toH" /\ Returned
                 /\ phase' = "toV"
                 /\ Begin(OutOf(out))
                 /\ UNCHANGED <<GA, Frontier, coreVars>>

\* Update_Deg: cond, then xadd(&Degrees[d], -1)
TestDegree(e) == /\ phase = "toV"
                 /\ IF Unsigned(Degrees[e[2]]) >= k THEN Enter(e, [at |-> "add"]) ELSE Pass(e)
                 /\ UNCHANGED <<mainVars, coreVars>>
Lower(e) == /\ phase = "toV"
            /\ Answer(e, TRUE)
            /\ Degrees' = [Degrees EXCEPT ![e[2]] = @ - 1]
            /\ UNCHANGED <<mainVars, k, Flags, largestCore>>

Return == /\ phase = "toV" /\ Returned
          /\ phase' = "filter"
          /\ UNCHANGED <<GA, Frontier, callVars, coreVars>>

NextK == /\ phase = "filter" /\ ToRemove = {} /\ Frontier # {}
         /\ k' = k + 1
         /\ UNCHANGED <<mainVars, callVars, Degrees, Flags, largestCore>>
Largest == /\ phase = "filter" /\ ToRemove = {} /\ Frontier = {}
           /\ largestCore' = k - 1
           /\ phase' = "done"
           /\ UNCHANGED <<GA, Frontier, callVars, k, Degrees, Flags>>

Done == phase = "done"

Next == \/ Remove \/ HyperedgeProp \/ Return \/ NextK \/ Largest
        \/ \E e \in todo : TestFlag(e) \/ TestDegree(e)
        \/ \E e \in DOMAIN regs : Claim(e) \/ Lower(e)

Spec == Init /\ [][Next]_vars

-----------------------------------------------------------------------------
Members(h) == {v \in V : <<h, v>> \in GA}
\* The degree of v among the vertices S: its hyperedges all of whose vertices are in S.
Induced(v, S) == Cardinality({h \in H : v \in Members(h) /\ Members(h) \subseteq S})
InCore(j, S) == \A v \in S : Induced(v, S) >= j
CoreNumber(v) == CHOOSE j \in 0 .. Cardinality(H) :
                   /\ \E S \in SUBSET V : v \in S /\ InCore(j, S)
                   /\ ~ \E S \in SUBSET V : v \in S /\ InCore(j + 1, S)

\* Between two rounds a vertex that stays has exactly its degree among those still in.
\* One that goes may have more, where cond stopped counting, but never less and never
\* so much that it would stay: two stale tests never drive it below zero, which the
\* filters would take for a huge degree.
DegreesAreInduced ==
  phase = "filter" => \A v \in Frontier :
    /\ Degrees[v] >= Induced(v, Frontier)
    /\ Degrees[v] >= k => Degrees[v] = Induced(v, Frontier)

\* The program ends with every vertex's core number, and the largest of them.
CoresAreRight ==
  Done => /\ \A v \in V : Degrees[v] = CoreNumber(v)
          /\ \E v \in V : Degrees[v] = largestCore
          /\ \A v \in V : Degrees[v] <= largestCore
=============================================================================
