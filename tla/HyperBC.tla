------------------------------ MODULE HyperBC ------------------------------
(***************************************************************************)
(* apps/hyper/HyperBC.C: BC with alternating levels of vertices (nodes     *)
(* <<0, i>>) and hyperedges (<<1, i>>); each array stands for its two      *)
(* sides.  Backward, a vertex passes Dependencies/NumPaths to the          *)
(* hyperedges before it, and these to their vertices, times NumPaths.      *)
(* The additions of the second phase are writeAdds, whose CAS loop has the *)
(* effect of one step.  A double x of Dependencies is Scale * x.           *)
(***************************************************************************)
EXTENDS EdgeCall, Sequences, Functions

CONSTANTS V, H, Graphs, start, Scale

VARIABLES round, NumPaths, Visited, Levels, Dependencies
bcVars == <<round, NumPaths, Visited, Levels, Dependencies>>
vars == <<mainVars, callVars, bcVars>>

Nodes == V \cup H

\* How many walks of k edges of G lead from u to x.
Walks(G) ==
  LET W[k \in 0 .. Cardinality(Nodes)] ==
        IF k = 0 THEN [u \in Nodes |-> [x \in Nodes |-> IF u = x THEN 1 ELSE 0]]
        ELSE LET shorter == W[k - 1]
             IN  [u \in Nodes |-> [x \in Nodes |->
                    SumFunctionOnSet(shorter[u], {y \in Nodes : <<y, x>> \in G})]]
  IN W

Reached(walks, u) == {x \in Nodes : \E k \in 0 .. Cardinality(Nodes) : walks[k][u][x] > 0}
Dist(walks, u, x) == CHOOSE k \in 0 .. Cardinality(Nodes) :
                       walks[k][u][x] > 0 /\ \A j \in 0 .. k - 1 : walks[j][u][x] = 0
Paths(walks, u, x) == IF x \in Reached(walks, u) THEN walks[Dist(walks, u, x)][u][x] ELSE 0
Through(walks, v, t) ==
  IF t \in Reached(walks, v) /\ Dist(walks, start, t) = Dist(walks, start, v) + Dist(walks, v, t)
  THEN Paths(walks, start, v) * Paths(walks, v, t) ELSE 0

\* Edges lead from side to side, and Scale is a multiple of every path count of a vertex.
InputsOK == /\ start \in V /\ IsFiniteSet(V) /\ IsFiniteSet(H) /\ Scale \in Nat
            /\ V \subseteq {0} \X Nat /\ H \subseteq {1} \X Nat
            /\ \A G \in Graphs :
                 /\ G \subseteq (V \X H) \cup (H \X V)
                 /\ \A v \in V \cap Reached(Walks(G), start) :
                      \E q \in 1 .. Scale : Scale = q * Paths(Walks(G), start, v)

Init == /\ GA \in Graphs
        /\ phase = "loop" /\ NoCall
        /\ Frontier = {start}
        /\ round = 0
        /\ NumPaths = [x \in Nodes |-> IF x = start THEN 1 ELSE 0]
        /\ Visited = [x \in Nodes |-> x = start]
        /\ Levels = << {start} >>
        /\ Dependencies = [x \in Nodes |-> 0]

\* round++; vertexProp or hyperedgeProp(GA, Frontier, BC_F(...))
Forward == /\ phase = "loop"
           /\ phase' = "forth"
           /\ round' = round + 1
           /\ Begin(OutOf(Frontier))
           /\ UNCHANGED <<GA, Frontier, NumPaths, Visited, Levels, Dependencies>>

Test(e) == /\ IF ~Visited[e[2]] THEN Enter(e, [at |-> "read"]) ELSE Pass(e)
           /\ UNCHANGED <<mainVars, bcVars>>

ReadSum(e) == /\ phase = "forth" /\ regs[e].at = "read"
              /\ Local(e, [at |-> "cas", oldV |-> NumPaths[e[2]]])
              /\ UNCHANGED <<mainVars, bcVars>>

\* while(!CAS(&NumPathsDest[d], oldV, newV)); return oldV == 0.0;
SwapSum(e) ==
  /\ regs[e].at = "cas"
  /\ IF NumPaths[e[2]] = regs[e].oldV
     THEN /\ NumPaths' = [NumPaths EXCEPT ![e[2]] = @ + NumPaths[e[1]]]
          /\ Answer(e, regs[e].oldV = 0)
     ELSE Local(e, [at |-> "read"]) /\ UNCHANGED NumPaths
  /\ UNCHANGED <<mainVars, round, Visited, Levels, Dependencies>>

\* hyperedgeMap or vertexMap(output, BC_Vertex_F(...)); Levels.push_back(output);
\* if(Frontier.isEmpty()) break;
EndForward == /\ phase = "forth" /\ Returned
              /\ phase' = IF out = {} THEN "turn" ELSE "loop"
              /\ Visited' = [x \in Nodes |-> Visited[x] \/ x \in out]
              /\ Levels' = Append(Levels, out)
              /\ Frontier' = out
              /\ UNCHANGED <<GA, callVars, round, NumPaths, Dependencies>>

\* if((round % 2) == 0) Levels[round--].del(); GA.transpose(); r = round - 1
TurnRound == /\ phase = "turn"
             /\ phase' = "back"
             /\ round' = IF round % 2 = 0 THEN round - 2 ELSE round - 1
             /\ Visited' = [x \in Nodes |-> FALSE]
             /\ GA' = {<<e[2], e[1]>> : e \in GA}
             /\ UNCHANGED <<Frontier, callVars, NumPaths, Levels, Dependencies>>

\* vertexMap(Levels[r], BC_Back_Vertex_F(...)); vertexProp(..., BC_Back_VtoH(...))
FromVertices == /\ phase = "back" /\ round > 0
                /\ phase' = "toH"
                /\ Frontier' = Levels[round + 1]
                /\ Visited' = [x \in Nodes |-> Visited[x] \/ x \in Levels[round + 1]]
                /\ Dependencies' = [x \in Nodes |-> IF x \in Levels[round + 1]
                                                    THEN Dependencies[x] + Scale ELSE Dependencies[x]]
                /\ Begin(OutOf(Levels[round + 1]))
                /\ UNCHANGED <<GA, round, NumPaths, Levels>>

\* hyperedgeMap(Levels[r-1], BC_Vertex_F(...)); hyperedgeProp(..., BC_Back_HtoV(...))
FromHyperedges == /\ phase = "toH" /\ Returned
                  /\ phase' = "toV"
                  /\ Frontier' = Levels[round]
                  /\ Visited' = [x \in Nodes |-> Visited[x] \/ x \in Levels[round]]
                  /\ Begin(OutOf(Levels[round]))
                  /\ UNCHANGED <<GA, round, NumPaths, Levels, Dependencies>>

\* r = r - 2
EndBackward == /\ phase = "toV" /\ Returned
               /\ phase' = "back"
               /\ round' = round - 2
               /\ UNCHANGED <<GA, Frontier, callVars, NumPaths, Visited, Levels, Dependencies>>

\* writeAdd(&DependenciesH[d], DependenciesV[s]/NumPathsV[s]), and
\* writeAdd(&DependenciesV[d], DependenciesH[s]*NumPathsV[d])
AddShare(e) ==
  /\ phase \in {"toH", "toV"}
  /\ Dependencies' = [Dependencies EXCEPT ![e[2]] = @ +
       (IF phase = "toH" THEN Dependencies[e[1]] \div NumPaths[e[1]]
        ELSE Dependencies[e[1]] * NumPaths[e[2]])]
  /\ Answer(e, TRUE)
  /\ UNCHANGED <<mainVars, round, NumPaths, Visited, Levels>>

Done == phase = "back" /\ round <= 0

Next == \/ Forward \/ EndForward \/ TurnRound \/ FromVertices \/ FromHyperedges \/ EndBackward
        \/ \E e \in todo : Test(e)
        \/ \E e \in DOMAIN regs : ReadSum(e) \/ SwapSum(e) \/ AddShare(e)

Spec == Init /\ [][Next]_vars

-----------------------------------------------------------------------------
Graph == IF phase \in {"loop", "forth", "turn"} THEN GA ELSE {<<e[2], e[1]>> : e \in GA}

PathsAndShares(walks) ==
  /\ phase = "turn" => \A x \in Nodes : NumPaths[x] = Paths(walks, start, x)
  /\ Done => \A v \in V \cap Reached(walks, start) :
       Dependencies[v] = SumFunction([t \in (V \cap Reached(walks, start)) \ {start} |->
                                        (Scale * Through(walks, v, t)) \div Paths(walks, start, t)])

\* At the end of the loop every count is that of the shortest paths, and after the
\* backward phase a vertex's dependency is the sum of the shares of shortest paths
\* through it, its own paths included except at the start; hyperedges that lead
\* nowhere, and vertices nobody reaches, add nothing.
DependenciesAreExact == PathsAndShares(Walks(Graph))
=============================================================================
