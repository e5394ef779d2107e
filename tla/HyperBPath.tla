----------------------------- MODULE HyperBPath -----------------------------
(***************************************************************************)
(* apps/hyper/HyperBPath.C: a hyperedge is visited when the last of its    *)
(* in-vertices is, counted up from minus their number in ParentsH itself.  *)
(* update and updateAtomic differ: the first counts and stores the parent, *)
(* the second is an xadd whose answer says who was last.  Vertices are     *)
(* nodes <<0, i>>, hyperedges <<1, i>>.                                    *)
(***************************************************************************)
EXTENDS EdgeCall

CONSTANTS V, H, Graphs, start, UINT_E_MAX

VARIABLES Parents,
          dense  \* the traversal of the call under way
bpVars == <<Parents, dense>>
vars == <<mainVars, callVars, bpVars>>

\* What the graphs hold: finitely many edges between the two sides; UINT_E_MAX is no
\* one's index.
InputsOK == /\ start \in V /\ IsFiniteSet(V) /\ UINT_E_MAX \in Nat
            /\ V \subseteq {0} \X Nat /\ H \subseteq {1} \X Nat
            /\ \A x \in V \cup H : x[2] # UINT_E_MAX
            /\ \A G \in Graphs : IsFiniteSet(G) /\ G \subseteq (V \X H) \cup (H \X V)

InDegree(h) == Cardinality({e \in GA : e[2] = h})

Init == /\ GA \in Graphs
        /\ phase = "loop" /\ NoCall
        /\ Frontier = {start}
        /\ Parents = [x \in V \cup H |-> IF x \in H THEN -InDegree(x)
                                         ELSE IF x = start THEN x[2] ELSE UINT_E_MAX]
        /\ dense = FALSE

\* vertexProp(GA, Frontier, BVisitH_F(ParentsH)); the traversal depends on m
VertexProp == /\ phase = "loop"
              /\ phase' = "toH"
              /\ dense' \in BOOLEAN
              /\ Begin(OutOf(Frontier))
              /\ UNCHANGED <<GA, Frontier, Parents>>

\* dense: the worker that owns d does cond, update and the next edge of d alone
VisitH(e) ==
  LET d == e[2] IN
  /\ phase = "toH" /\ dense
  /\ e \in todo /\ todo' = todo \ {e}
  /\ IF Parents[d] < 0
     THEN /\ Parents' = [Parents EXCEPT ![d] = IF @ + 1 = 0 THEN e[1][2] ELSE @ + 1]
          /\ out' = IF Parents[d] + 1 = 0 THEN out \cup {d} ELSE out
     ELSE UNCHANGED <<Parents, out>>
  /\ UNCHANGED <<mainVars, regs, dense>>

TestH(e) == /\ phase = "toH" /\ ~dense
            /\ IF Parents[e[2]] < 0 THEN Enter(e, [at |-> "xadd"]) ELSE Pass(e)
            /\ UNCHANGED <<mainVars, bpVars>>

\* return (xadd(&ParentsH[d], 1) == -1);
CountH(e) == /\ phase = "toH"
             /\ Parents' = [Parents EXCEPT ![e[2]] = @ + 1]
             /\ Answer(e, Parents[e[2]] = -1)
             /\ UNCHANGED <<mainVars, dense>>

\* Frontier = output; if(Frontier.isEmpty()) break; hyperedgeProp(...)
HyperedgeProp == /\ phase = "toH" /\ Returned
                 /\ Frontier' = out
                 /\ IF out = {} THEN phase' = "done" /\ UNCHANGED callVars
                                ELSE phase' = "toV" /\ Begin(OutOf(out))
                 /\ UNCHANGED <<GA, bpVars>>

\* BVisitV_F: cond, then CAS(&ParentsV[d], UINT_E_MAX, s)
TestV(e) == /\ phase = "toV"
            /\ IF Parents[e[2]] = UINT_E_MAX THEN Enter(e, [at |-> "cas"]) ELSE Pass(e)
            /\ UNCHANGED <<mainVars, bpVars>>
ClaimV(e) == /\ phase = "toV"
             /\ Answer(e, Parents[e[2]] = UINT_E_MAX)
             /\ Parents' = IF Parents[e[2]] = UINT_E_MAX THEN [Parents EXCEPT ![e[2]] = e[1][2]] ELSE Parents
             /\ UNCHANGED <<mainVars, dense>>

NextRound == /\ phase = "toV" /\ Returned
             /\ Frontier' = out
             /\ phase' = IF out = {} THEN "done" ELSE "loop"
             /\ UNCHANGED <<GA, callVars, bpVars>>

Done == phase = "done"

Next == \/ VertexProp \/ HyperedgeProp \/ NextRound
        \/ \E e \in todo : VisitH(e) \/ TestH(e) \/ TestV(e)
        \/ \E e \in DOMAIN regs : CountH(e) \/ ClaimV(e)

Spec == Init /\ [][Next]_vars

-----------------------------------------------------------------------------
Into(h) == {e[1] : e \in {e \in GA : e[2] = h}}

\* Ball[k]: the vertices of hyperpaths of at most k hyperedges, each of which has all
\* its in-vertices, and at least one, earlier on the path.
Ball[k \in 0 .. Cardinality(V)] ==
  IF k = 0 THEN {start}
  ELSE Ball[k - 1] \cup {e[2] : e \in OutOf({h \in H : Into(h) # {} /\ Into(h) \subseteq Ball[k - 1]})}

Visited == {v \in V : Parents[v] # UINT_E_MAX}

\* Whichever traversals run, a hyperedge counts each of its in-vertices once and is
\* passed exactly when the last is visited: between two rounds the visited vertices
\* are those of the hyperpaths up to this length, and at the end all of them, each
\* with a parent that was passed.
HyperpathsAreFound ==
  /\ phase = "loop" => \E k \in 0 .. Cardinality(V) :
       Visited = Ball[k] /\ Frontier = (IF k = 0 THEN {start} ELSE Ball[k] \ Ball[k - 1])
  /\ Done => /\ Visited = Ball[Cardinality(V)]
             /\ \A v \in Visited \ {start} :
                  LET h == <<1, Parents[v]>> IN <<h, v>> \in GA /\ Into(h) \subseteq Visited
             /\ \A h \in H : Parents[h] >= 0 <=> Into(h) \subseteq Visited
=============================================================================
