------------------------------ MODULE EdgeCall ------------------------------
(***************************************************************************)
(* A call of edgeMap as the programs above it see it (EdgeMapSpec, which   *)
(* EdgeMap is shown to implement): each edge out of the frontier is taken  *)
(* once, in any order; cond is read before update is called; the calls of  *)
(* update overlap, and what each does to shared memory is steps of the     *)
(* program's own.  A plain update, which no other call for its target      *)
(* overlaps, has a subset of the interleavings.  Hypergraphs have edges    *)
(* between vertices and hyperedges; vertexProp and hyperedgeProp are calls *)
(* from either side.                                                       *)
(***************************************************************************)
EXTENDS Integers, FiniteSets

VARIABLES
  GA,        \* the edges, tuples <<source, target, ...>>
  phase,
  Frontier,
  todo,      \* the edges out of the frontier not taken yet
  regs,      \* the locals of the update calls under way, by edge
  out        \* the targets whose update answered TRUE

callVars == <<todo, regs, out>>
mainVars == <<GA, phase, Frontier>>

OutOf(S) == {e \in GA : e[1] \in S}

NoCall == todo = {} /\ regs = <<>> /\ out = {}

Begin(edges) == todo' = edges /\ regs' = <<>> /\ out' = {}

\* cond was true: update is entered, with its first local.
Enter(e, r) == /\ e \in todo
               /\ todo' = todo \ {e}
               /\ regs' = [x \in DOMAIN regs \cup {e} |-> IF x = e THEN r ELSE regs[x]]
               /\ UNCHANGED out

\* cond was false
Pass(e) == e \in todo /\ todo' = todo \ {e} /\ UNCHANGED <<regs, out>>

Local(e, r) == regs' = [regs EXCEPT ![e] = r] /\ UNCHANGED <<todo, out>>

\* update answers r
Answer(e, r) == /\ regs' = [x \in DOMAIN regs \ {e} |-> regs[x]]
                /\ out' = IF r THEN out \cup {e[2]} ELSE out
                /\ UNCHANGED todo

Returned == todo = {} /\ regs = <<>>
=============================================================================
