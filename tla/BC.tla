--------------------------------- MODULE BC ---------------------------------
(***************************************************************************)
(* apps/BC.C: betweenness from one start.  Forward, the path counts of a   *)
(* level are added up by a CAS loop whose answer says who was first;       *)
(* backward, over the transposed graph and the levels kept, the            *)
(* dependencies.  A double x is the integer Scale * x, with Scale a        *)
(* multiple of every path count, so that 1/NumPaths is exact; inverse and  *)
(* dependency of a vertex without paths are NaN.                           *)
(***************************************************************************)
EXTENDS EdgeCall, Sequences, Functions

CONSTANTS V, Graphs, start, Scale, NaN

VARIABLES round, NumPaths, Visited, Levels, Dependencies
bcVars == <<round, NumPaths, Visited, Levels, Dependencies>>
vars == <<mainVars, callVars, bcVars>>

\* How many walks of k edges of G lead from u to v.
Walks(G) ==
  LET W[k \in 0 .. Cardinality(V)] ==
        IF k = 0 THEN [u \in V |-> [v \in V |-> IF u = v THEN 1 ELSE 0]]
        ELSE LET shorter == W[k - 1]
             IN  [u \in V |-> [v \in V |->
                    SumFunctionOnSet(shorter[u], {x \in V : <<x, v>> \in G})]]
  IN W

Reached(walks, u) == {v \in V : \E k \in 0 .. Cardinality(V) : walks[k][u][v] > 0}
Dist(walks, u, v) == CHOOSE k \in 0 .. Cardinality(V) :
                       walks[k][u][v] > 0 /\ \A j \in 0 .. k - 1 : walks[j][u][v] = 0
Paths(walks, u, v) == IF v \in Reached(walks, u) THEN walks[Dist(walks, u, v)][u][v] ELSE 0

\* How many shortest paths from the start to t lead through v.
Through(walks, v, t) ==
  IF t \in Reached(walks, v) /\ Dist(walks, start, t) = Dist(walks, start, v) + Dist(walks, v, t)
  THEN Paths(walks, start, v) * Paths(walks, v, t) ELSE 0

\* Scale is a multiple of every path count there is.
InputsOK == /\ start \in V /\ IsFiniteSet(V) /\ Scale \in Nat
            /\ \A G \in Graphs :
                 /\ G \subseteq V \X V
                 /\ \A v \in Reached(Walks(G), start) :
                      \E q \in 1 .. Scale : Scale = q * Paths(Walks(G), start, v)

Init == /\ GA \in Graphs
        /\ phase = "loop" /\ NoCall
        /\ Frontier = {start}
        /\ round = 0
        /\ NumPaths = [v \in V |-> IF v = start THEN 1 ELSE 0]
        /\ Visited = [v \in V |-> v = start]
        /\ Levels = << {start} >>
        /\ Dependencies = [v \in V |-> 0]

Forward == /\ phase = "loop" /\ Frontier # {}
           /\ phase' = "forth"
           /\ round' = round + 1
           /\ Begin(OutOf(Frontier))
           /\ UNCHANGED <<GA, Frontier, NumPaths, Visited, Levels, Dependencies>>

\* cond of BC_F and of BC_Back_F
Test(e) == /\ IF ~Visited[e[2]] THEN Enter(e, [at |-> "read"]) ELSE Pass(e)
           /\ UNCHANGED <<mainVars, bcVars>>

Sum == IF phase = "forth" THEN NumPaths ELSE Dependencies
Store(sum) == IF phase = "forth" THEN NumPaths' = sum /\ UNCHANGED Dependencies
              ELSE Dependencies' = sum /\ UNCHANGED NumPaths

\* oldV = NumPaths[d]; newV = oldV + NumPaths[s];
ReadSum(e) == /\ regs[e].at = "read"
              /\ Local(e, [at |-> "cas", oldV |-> Sum[e[2]], newV |-> Sum[e[2]] + Sum[e[1]]])
              /\ UNCHANGED <<mainVars, bcVars>>

\* Mutant: a plain store instead of the CAS.
StoreSum(e) ==
  /\ regs[e].at = "cas"
  /\ Store([Sum EXCEPT ![e[2]] = regs[e].newV]) /\ Answer(e, regs[e].oldV = 0)
  /\ UNCHANGED <<mainVars, round, Visited, Levels>>

\* while(!CAS(&NumPaths[d], oldV, newV)); return oldV == 0.0;
SwapSum(e) ==
  /\ regs[e].at = "cas"
  /\ IF Sum[e[2]] = regs[e].oldV
     THEN Store([Sum EXCEPT ![e[2]] = regs[e].newV]) /\ Answer(e, regs[e].oldV = 0)
     ELSE Local(e, [at |-> "read"]) /\ UNCHANGED <<NumPaths, Dependencies>>
  /\ UNCHANGED <<mainVars, round, Visited, Levels>>

\* vertexMap(output, BC_Vertex_F(Visited)); Levels.push_back(output); Frontier = output;
EndForward == /\ phase = "forth" /\ Returned
              /\ phase' = "loop"
              /\ Visited' = [v \in V |-> Visited[v] \/ v \in out]
              /\ Levels' = Append(Levels, out)
              /\ Frontier' = out
              /\ UNCHANGED <<GA, callVars, round, NumPaths, Dependencies>>

Inv(v) == IF NumPaths[v] = 0 THEN NaN ELSE Scale \div NumPaths[v]

\* vertexMap(Levels[r], BC_Back_Vertex_F(...))
Visit(level, visited, deps) ==
  /\ Frontier' = level
  /\ Visited' = [v \in V |-> visited[v] \/ v \in level]
  /\ Dependencies' = [v \in V |-> IF v \in level THEN deps[v] + Inv(v) ELSE deps[v]]

\* The lines between the phases: Frontier = Levels[round-1], Visited used again, and
\* the graph transposed; round becomes r, the level in Frontier.
TurnRound == /\ phase = "loop" /\ Frontier = {}
             /\ phase' = "back"
             /\ round' = round - 1
             /\ Visit(Levels[round], [v \in V |-> FALSE], Dependencies)
             /\ GA' = {<<e[2], e[1]>> : e \in GA}
             /\ UNCHANGED <<callVars, NumPaths, Levels>>

\* edgeMap(GA, Frontier, BC_Back_F(...), -1, no_output)
Backward == /\ phase = "back" /\ round > 0
            /\ phase' = "backmap"
            /\ Begin(OutOf(Frontier))
            /\ UNCHANGED <<GA, Frontier, bcVars>>

EndBackward == /\ phase = "backmap" /\ Returned
               /\ phase' = "back"
               /\ round' = round - 1
               /\ Visit(Levels[round], Visited, Dependencies)
               /\ UNCHANGED <<GA, callVars, NumPaths, Levels>>

\* Dependencies[i] = (Dependencies[i] - inverseNumPaths[i]) / inverseNumPaths[i];
\* infinity minus infinity where there is no path
Finish == /\ phase = "back" /\ round = 0
          /\ phase' = "done"
          /\ Dependencies' = [v \in V |-> IF NumPaths[v] = 0 THEN NaN
                                          ELSE (Dependencies[v] - Inv(v)) * NumPaths[v]]
          /\ UNCHANGED <<GA, Frontier, callVars, round, NumPaths, Visited, Levels>>

Done == phase = "done"

Next == \/ Forward \/ EndForward \/ TurnRound \/ Backward \/ EndBackward \/ Finish
        \/ \E e \in todo : Test(e)
        \/ \E e \in DOMAIN regs : ReadSum(e) \/ SwapSum(e)

Spec == Init /\ [][Next]_vars

-----------------------------------------------------------------------------
\* The graph of the user: GA is transposed after the first phase.
Graph == IF phase \in {"loop", "forth"} THEN GA ELSE {<<e[2], e[1]>> : e \in GA}

\* At the end a dependency is the sum of the shares of shortest paths that lead through
\* the vertex.
PathsAndShares(walks) ==
  /\ phase = "loop" => \A v \in V :
       /\ Visited[v] => NumPaths[v] = Paths(walks, start, v)
       /\ v \in Frontier <=> v \in Reached(walks, start) /\ Dist(walks, start, v) = round
  /\ Done => \A v \in V :
       Dependencies[v] = IF v \notin Reached(walks, start) THEN NaN
         ELSE SumFunction([t \in Reached(walks, start) \ {v} |->
                             (Scale * Through(walks, v, t)) \div Paths(walks, start, t)])

\* Between two calls of the first phase the frontier is the next level, and the counts
\* of every visited vertex are complete, whatever CAS failed; and at the end every
\* dependency is the one of the definition.
DependenciesAreExact == PathsAndShares(Walks(Graph))
=============================================================================
