----------------------------- MODULE HyperSSSP -----------------------------
(***************************************************************************)
(* apps/hyper/HyperSSSP.C: BellmanFord on a hypergraph, alternately from   *)
(* the vertices and from the hyperedges.  A vertex is a node <<0, i>>, a   *)
(* hyperedge <<1, i>>: ShortestPathLen is the arrays ...V and ...H side by *)
(* side, while Visited is one array that both sides index by i.            *)
(***************************************************************************)
EXTENDS EdgeCall, FiniteSetsExt

CONSTANTS V, H, Graphs, start, Inf

VARIABLES round, ShortestPathLen, Visited
bfVars == <<round, ShortestPathLen, Visited>>
vars == <<mainVars, callVars, bfVars>>

\* What the graphs hold: finitely many weighted edges between the two sides.
InputsOK == /\ start \in V /\ IsFiniteSet(V) /\ IsFiniteSet(H) /\ Inf \in Nat \ {0}
            /\ V \subseteq {0} \X Nat /\ H \subseteq {1} \X Nat
            /\ \A G \in Graphs : IsFiniteSet(G) /\ G \subseteq (V \X H \X Int) \cup (H \X V \X Int)

nv == Cardinality(V)
Index == {x[2] : x \in V \cup H}

Init == /\ GA \in Graphs
        /\ phase = "loop" /\ NoCall
        /\ Frontier = {start}
        /\ round = 0
        /\ ShortestPathLen = [x \in V \cup H |-> IF x = start THEN 0 ELSE Inf]
        /\ Visited = [i \in Index |-> 0]

\* if(round == nv-1) { ... break; }, before the frontier is looked at
NegativeCycle == /\ phase = "loop" /\ round = nv - 1
                 /\ ShortestPathLen' = [x \in V \cup H |-> IF x \in V THEN -Inf ELSE ShortestPathLen[x]]
                 /\ phase' = "done"
                 /\ UNCHANGED <<GA, Frontier, callVars, round, Visited>>

VertexProp == /\ phase = "loop" /\ round # nv - 1
              /\ phase' = "toH"
              /\ Begin(OutOf(Frontier))
              /\ UNCHANGED <<GA, Frontier, bfVars>>

\* updateAtomic of BF_Relax_F, in the same steps as that of BellmanFord
ReadDist(e) == /\ Enter(e, [at |-> "min", dist |-> ShortestPathLen[e[1]] + e[3]])
               /\ UNCHANGED <<mainVars, bfVars>>

WriteMinDist(e) ==
  /\ regs[e].at = "min"
  /\ IF regs[e].dist < ShortestPathLen[e[2]]
     THEN /\ ShortestPathLen' = [ShortestPathLen EXCEPT ![e[2]] = regs[e].dist]
          /\ Local(e, [regs[e] EXCEPT !.at = "mark"])
     ELSE Answer(e, FALSE) /\ UNCHANGED ShortestPathLen
  /\ UNCHANGED <<mainVars, round, Visited>>

MarkVisited(e) == /\ regs[e].at = "mark"
                  /\ Answer(e, Visited[e[2][2]] = 0)
                  /\ Visited' = [Visited EXCEPT ![e[2][2]] = 1]
                  /\ UNCHANGED <<mainVars, round, ShortestPathLen>>

Reset == [i \in Index |-> IF \E x \in out : x[2] = i THEN 0 ELSE Visited[i]]

\* Mutant: the marks of the hyperedges stay.
FromVerticesUnreset ==
  /\ phase = "toH" /\ Returned
  /\ UNCHANGED Visited
  /\ Frontier' = out
  /\ IF out = {} THEN phase' = "done" /\ UNCHANGED callVars
                 ELSE phase' = "toV" /\ Begin(OutOf(out))
  /\ UNCHANGED <<GA, round, ShortestPathLen>>

\* hyperedgeMap(output, ...); if(Frontier.isEmpty()) break; hyperedgeProp(...)
FromVertices == /\ phase = "toH" /\ Returned
                /\ Visited' = Reset
                /\ Frontier' = out
                /\ IF out = {} THEN phase' = "done" /\ UNCHANGED callVars
                               ELSE phase' = "toV" /\ Begin(OutOf(out))
                /\ UNCHANGED <<GA, round, ShortestPathLen>>

\* vertexMap(output, ...); if(Frontier.isEmpty()) break; round++;
FromHyperedges == /\ phase = "toV" /\ Returned
                  /\ Visited' = Reset
                  /\ Frontier' = out
                  /\ IF out = {} THEN phase' = "done" /\ UNCHANGED round
                                 ELSE phase' = "loop" /\ round' = round + 1
                  /\ UNCHANGED <<GA, callVars, ShortestPathLen>>

Done == phase = "done"

Next == \/ NegativeCycle \/ VertexProp \/ FromVertices \/ FromHyperedges
        \/ \E e \in todo : ReadDist(e)
        \/ \E e \in DOMAIN regs : WriteMinDist(e) \/ MarkVisited(e)

Spec == Init /\ [][Next]_vars

-----------------------------------------------------------------------------
\* Shortest[k]: the lengths of the shortest walks of at most k edges, and so of at
\* most k \div 2 hyperedges.
Shortest[k \in 0 .. 2 * nv] ==
  IF k = 0 THEN [x \in V \cup H |-> IF x = start THEN 0 ELSE Inf]
  ELSE LET near == Shortest[k - 1]
       IN  [x \in V \cup H |-> Min({near[x]} \cup {near[e[1]] + e[3] :
                                     e \in {e \in GA : e[2] = x /\ near[e[1]] # Inf}})]
HasNegativeCycle == \E v \in V : Shortest[2 * nv][v] # Shortest[2 * (nv - 1)][v]

\* What the loop does compute: the distances are the shortest ones unless it gave up,
\* and it gives up when nv - 1 rounds have brought a vertex nearer.
DistancesUnlessGivenUp ==
  Done => IF round = nv - 1 THEN \A v \in V : ShortestPathLen[v] = -Inf
          ELSE ~HasNegativeCycle /\ \A v \in V : ShortestPathLen[v] = Shortest[2 * nv][v]

\* What the program is for (README_old.md, "shortest paths", and the comment at the exit of
\* the loop, "negative weight cycle"): the lengths of the shortest walks at the end, or
\* minus infinity when a cycle of negative weight leads to a vertex.  The loop breaks it.
DistancesAreShortest ==
  Done => \A v \in V : ShortestPathLen[v] = IF HasNegativeCycle THEN -Inf ELSE Shortest[2 * nv][v]

\* An edge that can still lower its target starts in the frontier of the call to come,
\* and a mark left on one side never hides an update on the other.
NothingIsLost ==
  phase = "loop" =>
    /\ \A e \in GA : ShortestPathLen[e[1]] # Inf
         => e[1] \in Frontier \/ ShortestPathLen[e[2]] <= ShortestPathLen[e[1]] + e[3]
    /\ \A i \in Index : Visited[i] = 0
=============================================================================
