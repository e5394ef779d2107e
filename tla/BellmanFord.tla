---------------------------- MODULE BellmanFord ----------------------------
(***************************************************************************)
(* apps/BellmanFord.C.  dense_forward is passed, so every traversal calls  *)
(* updateAtomic: the source's distance is read, the target's is lowered by *)
(* writeMin, and only then a CAS on Visited decides who reports the        *)
(* target; the vertexMap between the calls takes the marks off again.      *)
(***************************************************************************)
EXTENDS EdgeCall, FiniteSetsExt

CONSTANTS V, Graphs, start,
          Inf       \* INT_MAX / 2, more than any path

VARIABLES round, ShortestPathLen, Visited
bfVars == <<round, ShortestPathLen, Visited>>
vars == <<mainVars, callVars, bfVars>>

\* What the graphs hold: finitely many weighted edges between the vertices.
InputsOK == /\ start \in V /\ IsFiniteSet(V) /\ Inf \in Nat \ {0}
            /\ \A G \in Graphs : G \subseteq V \X V \X Int /\ IsFiniteSet(G)

nv == Cardinality(V)

Init == /\ GA \in Graphs
        /\ phase = "loop" /\ NoCall
        /\ Frontier = {start}
        /\ round = 0
        /\ ShortestPathLen = [v \in V |-> IF v = start THEN 0 ELSE Inf]
        /\ Visited = [v \in V |-> 0]

\* if(round == n) { ... -(INT_E_MAX/2) ... break; }
NegativeCycle == /\ phase = "loop" /\ Frontier # {} /\ round = nv
                 /\ ShortestPathLen' = [v \in V |-> -Inf]
                 /\ phase' = "done"
                 /\ UNCHANGED <<GA, Frontier, callVars, round, Visited>>

Call == /\ phase = "loop" /\ Frontier # {} /\ round # nv
        /\ phase' = "map"
        /\ Begin(OutOf(Frontier))
        /\ UNCHANGED <<GA, Frontier, bfVars>>

\* intE newDist = ShortestPathLen[s] + edgeLen;
ReadDist(e) == /\ Enter(e, [at |-> "min", dist |-> ShortestPathLen[e[1]] + e[3]])
               /\ UNCHANGED <<mainVars, bfVars>>

\* writeMin(&ShortestPathLen[d], newDist)
WriteMinDist(e) ==
  /\ regs[e].at = "min"
  /\ IF regs[e].dist < ShortestPathLen[e[2]]
     THEN /\ ShortestPathLen' = [ShortestPathLen EXCEPT ![e[2]] = regs[e].dist]
          /\ Local(e, [regs[e] EXCEPT !.at = "mark"])
     ELSE Answer(e, FALSE) /\ UNCHANGED ShortestPathLen
  /\ UNCHANGED <<mainVars, round, Visited>>

\* CAS(&Visited[d], 0, 1)
MarkVisited(e) == /\ regs[e].at = "mark"
                  /\ Answer(e, Visited[e[2]] = 0)
                  /\ Visited' = [Visited EXCEPT ![e[2]] = 1]
                  /\ UNCHANGED <<mainVars, round, ShortestPathLen>>

\* vertexMap(output, BF_Vertex_F(Visited)); Frontier = output; round++;
Return == /\ phase = "map" /\ Returned
          /\ phase' = "loop"
          /\ Visited' = [v \in V |-> IF v \in out THEN 0 ELSE Visited[v]]
          /\ Frontier' = out
          /\ round' = round + 1
          /\ UNCHANGED <<GA, callVars, ShortestPathLen>>

Done == phase = "done" \/ (phase = "loop" /\ Frontier = {})

Next == \/ NegativeCycle \/ Call \/ Return
        \/ \E e \in todo : ReadDist(e)
        \/ \E e \in DOMAIN regs : WriteMinDist(e) \/ MarkVisited(e)

Spec == Init /\ [][Next]_vars

-----------------------------------------------------------------------------
\* Shortest[k]: the lengths of the shortest walks of at most k edges.
Shortest[k \in 0 .. nv] ==
  IF k = 0 THEN [v \in V |-> IF v = start THEN 0 ELSE Inf]
  ELSE LET near == Shortest[k - 1]
       IN  [v \in V |-> Min({near[v]} \cup {near[e[1]] + e[3] :
                               e \in {e \in GA : e[2] = v /\ near[e[1]] # Inf}})]
HasNegativeCycle == Shortest[nv] # Shortest[nv - 1]

\* At the end the distances are the shortest ones, or all minus infinity exactly when
\* a cycle of negative weight is reached.
DistancesAreShortest ==
  Done => ShortestPathLen = IF HasNegativeCycle THEN [v \in V |-> -Inf] ELSE Shortest[nv]

\* Between two calls an edge that can still lower its target starts in the frontier,
\* whoever won the CAS on Visited, and no mark is left.
NothingIsLost ==
  phase = "loop" =>
    /\ \A e \in GA : ShortestPathLen[e[1]] # Inf
         => e[1] \in Frontier \/ ShortestPathLen[e[2]] <= ShortestPathLen[e[1]] + e[3]
    /\ \A v \in V : Visited[v] = 0
=============================================================================
