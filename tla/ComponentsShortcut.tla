------------------------- MODULE ComponentsShortcut -------------------------
(***************************************************************************)
(* apps/Components-Shortcut.C: IDs are lowered along the edges as in       *)
(* Components, but who is active next is decided by a filter over all      *)
(* vertices that also jumps to the ID of the ID, which another worker of   *)
(* the filter may be replacing.                                            *)
(***************************************************************************)
EXTENDS EdgeCall, FiniteSetsExt

CONSTANTS V, Graphs

VARIABLES IDs, prevIDs
ccVars == <<IDs, prevIDs>>
vars == <<mainVars, callVars, ccVars>>

\* The program is for symmetric graphs; vertices are numbers.
InputsOK == /\ V \subseteq Nat /\ IsFiniteSet(V)
            /\ \A G \in Graphs : G \subseteq V \X V /\ \A e \in G : <<e[2], e[1]>> \in G

Init == /\ GA \in Graphs
        /\ phase = "loop" /\ NoCall
        /\ Frontier = V
        /\ IDs = [v \in V |-> v] /\ prevIDs = [v \in V |-> v]

\* edgeMap(GA, Active, CC_F(IDs, prevIDs), m/20, no_output)
Call == /\ phase = "loop" /\ Frontier # {}
        /\ phase' = "map"
        /\ Begin(OutOf(Frontier))
        /\ UNCHANGED <<GA, Frontier, ccVars>>

\* the read of IDs[s] for writeMin(&IDs[d], IDs[s])
ReadID(e) == /\ phase = "map"
             /\ Enter(e, [id |-> IDs[e[1]]])
             /\ UNCHANGED <<mainVars, ccVars>>

WriteMinID(e) == /\ phase = "map"
                 /\ IDs' = [IDs EXCEPT ![e[2]] = Min({@, regs[e].id})]
                 /\ Answer(e, TRUE)
                 /\ UNCHANGED <<mainVars, prevIDs>>

\* vertexFilter(All, CC_Shortcut(IDs, prevIDs)): an item <<i, i>> for each vertex
Filter == /\ phase = "map" /\ Returned
          /\ phase' = "filter"
          /\ Begin({<<i, i>> : i \in V})
          /\ UNCHANGED <<GA, Frontier, ccVars>>

\* uintE l = IDs[IDs[i]];
ReadShortcut(e) == /\ phase = "filter"
                   /\ Enter(e, [id |-> IDs[IDs[e[1]]]])
                   /\ UNCHANGED <<mainVars, ccVars>>

\* Mutant: prevIDs keeps the ID of the round before.
TakeShortcutKeepPrev(e) ==
  LET i == e[1] IN
  /\ phase = "filter"
  /\ IDs' = [IDs EXCEPT ![i] = regs[e].id]
  /\ Answer(e, prevIDs[i] # regs[e].id)
  /\ UNCHANGED <<mainVars, prevIDs>>

\* if(IDs[i] != l) IDs[i] = l; if(prevIDs[i] != IDs[i]) { prevIDs[i] = IDs[i]; return 1; }
\* only this worker writes IDs[i] and prevIDs[i]
TakeShortcut(e) ==
  LET i == e[1] IN
  /\ phase = "filter"
  /\ IDs' = [IDs EXCEPT ![i] = regs[e].id]
  /\ prevIDs' = [prevIDs EXCEPT ![i] = regs[e].id]
  /\ Answer(e, prevIDs[i] # regs[e].id)
  /\ UNCHANGED mainVars

NextRound == /\ phase = "filter" /\ Returned
             /\ phase' = "loop"
             /\ Frontier' = out
             /\ UNCHANGED <<GA, callVars, ccVars>>

Done == phase = "loop" /\ Frontier = {}

Next == \/ Call \/ Filter \/ NextRound
        \/ \E e \in todo : ReadID(e) \/ ReadShortcut(e)
        \/ \E e \in DOMAIN regs : WriteMinID(e) \/ TakeShortcut(e)

Spec == Init /\ [][Next]_vars

-----------------------------------------------------------------------------
\* Near[k][v]: the vertices within k edges of v, in a symmetric graph.
Near[k \in 0 .. Cardinality(V)] ==
  IF k = 0 THEN [v \in V |-> {v}]
  ELSE LET near == Near[k - 1] IN [v \in V |-> near[v] \cup {e[2] : e \in OutOf(near[v])}]

Component(v) == Near[Cardinality(V)][v]

\* The program ends with the smallest ID of each component.
LabelsAreMinimal == Done => \A v \in V : IDs[v] = Min(Component(v))

\* Between two rounds every edge that can still lower its target starts in the
\* frontier, although the IDs jumped while others were read; and an ID is always one
\* of the vertex's own component, and itself lowered at most.
NothingIsLost ==
  phase = "loop" =>
    /\ \A e \in GA : e[1] \in Frontier \/ IDs[e[2]] <= IDs[e[1]]
    /\ \A v \in V : IDs[v] \in Component(v) /\ IDs[v] <= v
    /\ prevIDs = IDs
=============================================================================
