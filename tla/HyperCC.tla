------------------------------ MODULE HyperCC ------------------------------
(***************************************************************************)
(* apps/hyper/HyperCC.C: the smallest ID travels alternately from the      *)
(* vertices (nodes <<0, i>>) to the hyperedges (<<1, i>>) and back.  As in *)
(* Components, updateAtomic compares the value it read before its writeMin *)
(* with prevIDs; here the sources' IDs stand still during a call.          *)
(***************************************************************************)
EXTENDS EdgeCall, FiniteSetsExt

CONSTANTS V, H, Graphs, UINT_E_MAX

VARIABLES IDs, prevIDs, FrontierH
ccVars == <<IDs, prevIDs, FrontierH>>
vars == <<mainVars, callVars, ccVars>>

Nodes == V \cup H

\* A vertex <<0, i>> has the number i, and the bound of the type is none of them.
InputsOK == /\ IsFiniteSet(V) /\ IsFiniteSet(H) /\ V \cap H = {} /\ UINT_E_MAX \in Nat
            /\ \A v \in V : v[2] \in Nat /\ v[2] < UINT_E_MAX
            /\ \A G \in Graphs : /\ G \subseteq (V \X H) \cup (H \X V)
                                /\ \A e \in G : <<e[2], e[1]>> \in G

\* prevIDsV is uninitialized, and copied from IDsV before it is read.
Init == /\ GA \in Graphs
        /\ phase = "loop" /\ NoCall
        /\ Frontier = V /\ FrontierH = {}
        /\ IDs = [x \in Nodes |-> IF x \in V THEN x[2] ELSE UINT_E_MAX]
        /\ prevIDs = [x \in Nodes |-> UINT_E_MAX]

Copied(side) == [x \in Nodes |-> IF x \in side THEN IDs[x] ELSE prevIDs[x]]

\* hyperedgeMap(FrontierH, CC_Copy_F(...)); vertexProp(GA, FrontierV, CC_Update_F(...))
VertexProp == /\ phase = "loop"
              /\ phase' = "toH"
              /\ prevIDs' = Copied(FrontierH)
              /\ Begin(OutOf(Frontier))
              /\ UNCHANGED <<GA, Frontier, IDs, FrontierH>>

\* uintE origID = DestIDs[d];
ReadOrig(e) == /\ Enter(e, [orig |-> IDs[e[2]]])
               /\ UNCHANGED <<mainVars, ccVars>>

\* writeMin(&DestIDs[d], SrcIDs[s]) && origID == DestPrevIDs[d]
WriteMinID(e) ==
  /\ IF IDs[e[1]] < IDs[e[2]]
     THEN IDs' = [IDs EXCEPT ![e[2]] = IDs[e[1]]] /\ Answer(e, regs[e].orig = prevIDs[e[2]])
     ELSE UNCHANGED IDs /\ Answer(e, FALSE)
  /\ UNCHANGED <<mainVars, prevIDs, FrontierH>>

\* FrontierH = output; if(FrontierH.isEmpty()) break; vertexMap(FrontierV, ...);
\* hyperedgeProp(GA, FrontierH, ...)
HyperedgeProp == /\ phase = "toH" /\ Returned
                 /\ FrontierH' = out
                 /\ IF out = {} THEN phase' = "done" /\ UNCHANGED <<prevIDs, callVars>>
                    ELSE phase' = "toV" /\ prevIDs' = Copied(Frontier) /\ Begin(OutOf(out))
                 /\ UNCHANGED <<GA, Frontier, IDs>>

NextRound == /\ phase = "toV" /\ Returned
             /\ Frontier' = out
             /\ phase' = IF out = {} THEN "done" ELSE "loop"
             /\ UNCHANGED <<GA, callVars, ccVars>>

Done == phase = "done"

Next == \/ VertexProp \/ HyperedgeProp \/ NextRound
        \/ \E e \in todo : ReadOrig(e)
        \/ \E e \in DOMAIN regs : WriteMinID(e)

Spec == Init /\ [][Next]_vars

-----------------------------------------------------------------------------
\* Near[k][x]: the nodes within k edges of x, in a symmetric hypergraph.
Near[k \in 0 .. Cardinality(Nodes)] ==
  IF k = 0 THEN [x \in Nodes |-> {x}]
  ELSE LET near == Near[k - 1] IN [x \in Nodes |-> near[x] \cup {e[2] : e \in OutOf(near[x])}]

Component(x) == Near[Cardinality(Nodes)][x]

\* The program ends with the smallest ID of each component.
LabelsAreMinimal ==
  Done => \A v \in V : IDs[v] = Min({u[2] : u \in Component(v) \cap V})

\* Between two rounds a vertex that can still lower a hyperedge is in the frontier,
\* and every vertex has what its hyperedges have: the first of several updates of a
\* target always reports it, whatever the others had read.
NothingIsLost ==
  phase = "loop" => \A e \in GA :
    IF e[1] \in V THEN e[1] \in Frontier \/ IDs[e[2]] <= IDs[e[1]]
    ELSE IDs[e[2]] <= IDs[e[1]]
=============================================================================
