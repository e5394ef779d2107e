---------------------------- MODULE EdgeMapSpec ----------------------------
(***************************************************************************)
(* What a call of edgeMap promises, whichever traversal runs it: every     *)
(* edge out of the frontier is taken once, in any order; taking it means   *)
(* one call of update, unless cond was false of its target; and the subset *)
(* returned holds the targets whose update answered TRUE.                  *)
(***************************************************************************)
CONSTANTS Edges,    \* the edges of the graph, pairs <<source, target>>
          Vertices

VARIABLES pc, frontier, output, handled, todo, open, called, out
vars == <<pc, frontier, output, handled, todo, open, called, out>>

\* The vertices that satisfy cond; it never becomes true again in the call.
UserMayClose(d) == open' \in {open, open \ {d}}

Init == /\ pc = "call"
        /\ frontier \subseteq Vertices
        /\ output \in BOOLEAN  \* whether the caller wants the subset
        /\ handled \in BOOLEAN \* whether edgeMap is good for these arguments
        /\ todo = {}
        /\ open \subseteq Vertices
        /\ called = {}         \* the edges update has been called on
        /\ out = {}

OutEdges == {e \in Edges : e[1] \in frontier}

Call == /\ pc = "call"
        /\ pc' = "map"
        /\ todo' = OutEdges
        /\ UNCHANGED <<frontier, output, handled, open, called, out>>

CallNothing == /\ pc = "call"
               /\ OutEdges = {}
               /\ pc' = "ret"
               /\ UNCHANGED <<frontier, output, handled, todo, open, called, out>>

\* Arguments edgeMap is not good for may end the program, and nothing else.
Die == /\ pc = "call"
       /\ ~handled
       /\ pc' = "crash"
       /\ UNCHANGED <<frontier, output, handled, todo, open, called, out>>

Apply(e, r) == /\ e \in todo
               /\ todo' = todo \ {e}
               /\ UserMayClose(e[2])
               /\ called' = called \cup {e}
               /\ out' = IF r /\ output THEN out \cup {e[2]} ELSE out
               /\ UNCHANGED <<pc, frontier, output, handled>>

Skip(d) == /\ d \notin open
           /\ \E skipped \in SUBSET {e \in todo : e[2] = d} : todo' = todo \ skipped
           /\ UNCHANGED <<pc, frontier, output, handled, open, called, out>>

Return == /\ pc = "map"
          /\ todo = {}
          /\ pc' = "ret"
          /\ UNCHANGED <<frontier, output, handled, todo, open, called, out>>

Next == \/ Call \/ CallNothing \/ Return \/ Die
        \/ \E e \in todo, r \in BOOLEAN : Apply(e, r)
        \/ \E d \in Vertices : Skip(d)

Spec == Init /\ [][Next]_vars /\ WF_vars(Next)
=============================================================================
