------------------------------ MODULE HyperMIS ------------------------------
(***************************************************************************)
(* apps/hyper/HyperMIS.C: rounds of Beame and Luby's algorithm.  A random  *)
(* sample of the undecided vertices gets flags[v] = round; of a hyperedge  *)
(* all of whose vertices are sampled, all are reset; then the hyperedges   *)
(* lose their decided vertices, and a last vertex is put out.  Vertices    *)
(* are nodes <<0, i>>, hyperedges <<1, i>>; GA holds the vertices' lists,  *)
(* which stay, and the hyperedges', which are packed.  The sample, by the  *)
(* hash of i plus an offset, is any subset.                                *)
(***************************************************************************)
EXTENDS EdgeCall

CONSTANTS V, H, Graphs,
          MaxRound  \* bounds round: the sample may be empty

VARIABLES round,
          flags,     \* 0 undecided, 1 out, in anything else
          Degrees, FrontierH
misVars == <<round, flags, Degrees, FrontierH>>
vars == <<mainVars, callVars, misVars>>

\* Each hyperedge lists its vertices, and stands in their lists; none is empty, as an
\* empty one is wholly inside whatever the set.
InputsOK ==
  /\ V \cap H = {}
  /\ \A G \in Graphs : /\ IsFiniteSet(G) /\ G \subseteq (V \X H) \cup (H \X V)
                       /\ \A e \in G : <<e[2], e[1]>> \in G
                       /\ \A h \in H : \E v \in V : <<h, v>> \in G

OutDegree(h) == Cardinality(OutOf({h}))

Init == /\ GA \in Graphs
        /\ phase = "loop" /\ NoCall
        /\ Frontier = V /\ FrontierH = H
        /\ round = 1
        /\ flags = [v \in V |-> 0]
        /\ Degrees = [h \in H |-> 0]

\* vertexMap(FrontierV, Random_Sample(...)); hyperedgeMap(FrontierH, Degrees_Reset);
\* hyperedgeProp(GA, FrontierH, MIS_Count_Neighbors(...), -1, no_output)
Sample == /\ phase = "loop" /\ Frontier # {} /\ round < MaxRound
          /\ phase' = "count"
          /\ round' = round + 1
          /\ \E S \in SUBSET Frontier :
               flags' = [v \in V |-> IF v \in S THEN round' ELSE flags[v]]
          /\ Degrees' = [h \in H |-> IF h \in FrontierH THEN 0 ELSE Degrees[h]]
          /\ Begin(OutOf(FrontierH))
          /\ UNCHANGED <<GA, Frontier, FrontierH>>

\* cond of both updates
Test(e) == /\ IF flags[e[2]] = round THEN Enter(e, [at |-> "update"]) ELSE Pass(e)
           /\ UNCHANGED <<mainVars, misVars>>

\* xadd(&Degrees[s], 1): the counter is the source's
CountNeighbor(e) == /\ phase = "count"
                    /\ Answer(e, TRUE)
                    /\ Degrees' = [Degrees EXCEPT ![e[1]] = @ + 1]
                    /\ UNCHANGED <<mainVars, round, flags, FrontierH>>

\* hyperedgeFilter(FrontierH, Check_Independence); hyperedgeProp(fullEdges, ...)
CheckIndependence ==
  /\ phase = "count" /\ Returned
  /\ phase' = "reset"
  /\ Begin(OutOf({h \in FrontierH : Degrees[h] = OutDegree(h)}))
  /\ UNCHANGED <<GA, Frontier, misVars>>

\* CAS(&flags[d], round, 0)
ResetNeighbor(e) ==
  /\ phase = "reset"
  /\ Answer(e, TRUE)
  /\ flags' = IF flags[e[2]] = round THEN [flags EXCEPT ![e[2]] = 0] ELSE flags
  /\ UNCHANGED <<mainVars, round, Degrees, FrontierH>>

\* hyperedgeFilterNgh(GA.H, FrontierH, pack_predicate); then Filter_Hyperedges, whose
\* stores of 1 to one vertex all agree; then vertexFilter(FrontierV, MIS_Filter)
EndRound ==
  LET kept == {e \in GA : e[1] \in FrontierH => flags[e[2]] = 0}
      rest(h) == {e \in kept : e[1] = h}
      last == {v \in V : \E h \in FrontierH : {e[2] : e \in rest(h)} = {v}}
  IN  /\ phase = "reset" /\ Returned
      /\ phase' = "loop"
      /\ GA' = kept
      /\ flags' = [v \in V |-> IF v \in last /\ flags[v] = 0 THEN 1 ELSE flags[v]]
      /\ FrontierH' = {h \in FrontierH : Cardinality(rest(h)) > 1}
      /\ Frontier' = {v \in Frontier : flags'[v] = 0}
      /\ UNCHANGED <<callVars, round, Degrees>>

Done == phase = "loop" /\ Frontier = {}

Next == \/ Sample \/ CheckIndependence \/ EndRound
        \/ \E e \in todo : Test(e)
        \/ \E e \in DOMAIN regs : CountNeighbor(e) \/ ResetNeighbor(e)

Spec == Init /\ [][Next]_vars

-----------------------------------------------------------------------------
\* A vertex's hyperedges, from the lists that are not packed.
Members(h) == {v \in V : <<v, h>> \in GA}
Inside(v) == flags[v] > 1

\* Between two rounds no hyperedge of the input is wholly inside, although the lists
\* the count runs over have lost their decided vertices; a vertex put out stands in a
\* hyperedge that the rounds so far, had they put it in, might have completed; and
\* the undecided vertices of a hyperedge still watched are those left in its list.
SetIsIndependent ==
  phase = "loop" =>
    /\ \A h \in H : \E v \in Members(h) : ~Inside(v)
    /\ \A v \in V : flags[v] = 1 =>
         \E h \in H : v \in Members(h) /\ \A u \in Members(h) \ {v} : flags[u] # 0
    /\ \A h \in FrontierH : \A v \in Members(h) : flags[v] = 0 => <<h, v>> \in GA
    /\ \A v \in V : v \in Frontier <=> flags[v] = 0
=============================================================================
