-------------------------------- MODULE MIS --------------------------------
(***************************************************************************)
(* apps/nvm/nvmMIS.C: maximal independent set by rounds of edgeMap and     *)
(* vertexFilter.  The priority of a vertex is its ID.  MIS_Update reads    *)
(* and writes flags without atomics, and the workers of one edgeMap share  *)
(* the flags of sources and destinations alike, so every access to flags   *)
(* is a step of its own here.                                              *)
(***************************************************************************)
EXTENDS EdgeMap

\* The program is for symmetric graphs (README_old.md, the -s option).
Symmetric == \A e \in Edges : <<e[2], e[1]>> \in Edges

VARIABLES
  pc,        \* "edgemap", "filter" or "end": where Compute is
  flags,     \* status of each vertex
  at,        \* where the update call of each work item is
  low,       \* what the item's first read of flags[d] said of flags[d] < OUT
  filtered,  \* vertices the filter has been applied to this round
  dOut       \* d_out of vertexFilter

misVars == <<pc, flags, at, low, filtered, dOut>>
vars == <<emVars, misVars>>

Status == {"UNDECIDED", "CONDITIONALLY_IN", "OUT", "IN"}
BelowOut(f) == f \in {"UNDECIDED", "CONDITIONALLY_IN"}

AllItems == V \X (0 .. m - 1)

Init == /\ InitCall(OfBits([v \in V |-> TRUE]), {"no_output"}, -1)
        /\ pc = "edgemap"
        /\ flags = [v \in V |-> "CONDITIONALLY_IN"]
        /\ at = [it \in AllItems |-> "read_d"]
        /\ low = [it \in AllItems |-> FALSE]
        /\ filtered = {}
        /\ dOut = [v \in V |-> FALSE]

-----------------------------------------------------------------------------
(* The edgeMap of a round; cond is cond_true *)

Enter       == EnterCall /\ UNCHANGED misVars
Loop(v)     == DenseVertex(v, TRUE) /\ UNCHANGED misVars
ReadIn(it)  == InNgh(it) /\ UNCHANGED misVars
Break(it)   == BreakEarly(it, TRUE) /\ UNCHANGED misVars
ReadOut(it) == OutNgh(it, TRUE) /\ UNCHANGED misVars
Leave       == LeaveCall /\ UNCHANGED misVars

Updating(it, where) == phase = "map" /\ st[it] = "upd" /\ at[it] = where

Goto(it, where) == /\ at' = [at EXCEPT ![it] = where]
                   /\ UNCHANGED emVars
Finish(it) == /\ at' = [at EXCEPT ![it] = "read_d"]
              /\ Updated(it, TRUE)

\* Mutant: the larger ID has priority.
ReadDLarger(it) ==
  /\ Updating(it, "read_d")
  /\ low' = [low EXCEPT ![it] = BelowOut(flags[Dst(it)])]
  /\ CASE flags[Dst(it)] = "IN" -> Goto(it, "out_s")
       [] flags[Dst(it)] # "IN" /\ Dst(it) > Src(it) -> Goto(it, "read_s")
       [] OTHER -> Finish(it)
  /\ UNCHANGED <<pc, flags, filtered, dOut>>

\* flags[d] == IN ?
ReadD(it) ==
  /\ Updating(it, "read_d")
  /\ low' = [low EXCEPT ![it] = BelowOut(flags[Dst(it)])]
  /\ CASE flags[Dst(it)] = "IN" -> Goto(it, "out_s")
       [] flags[Dst(it)] # "IN" /\ Dst(it) < Src(it) -> Goto(it, "read_s")
       [] OTHER -> Finish(it)
  /\ UNCHANGED <<pc, flags, filtered, dOut>>

\* if (flags[s] != OUT) flags[s] = OUT;
ReadSOut(it) ==
  /\ Updating(it, "out_s")
  /\ IF flags[Src(it)] # "OUT" THEN Goto(it, "write_out") ELSE Finish(it)
  /\ UNCHANGED <<pc, flags, low, filtered, dOut>>

WriteOut(it) ==
  /\ Updating(it, "write_out")
  /\ flags' = [flags EXCEPT ![Src(it)] = "OUT"]
  /\ Finish(it)
  /\ UNCHANGED <<pc, low, filtered, dOut>>

\* flags[s] == CONDITIONALLY_IN ?
ReadS(it) ==
  /\ Updating(it, "read_s")
  /\ IF flags[Src(it)] = "CONDITIONALLY_IN" THEN Goto(it, "reread_d") ELSE Finish(it)
  /\ UNCHANGED <<pc, flags, low, filtered, dOut>>

\* flags[d] < OUT ?  The access races, and the compiler may reuse the first read.
RereadD(it) ==
  /\ Updating(it, "reread_d")
  /\ \E isLow \in {BelowOut(flags[Dst(it)]), low[it]} :
       IF isLow THEN Goto(it, "write_undecided") ELSE Finish(it)
  /\ UNCHANGED <<pc, flags, low, filtered, dOut>>

\* Mutant: a vertex with a smaller undecided neighbour stays CONDITIONALLY_IN.
WriteNothing(it) ==
  /\ Updating(it, "write_undecided")
  /\ Finish(it)
  /\ UNCHANGED <<pc, flags, low, filtered, dOut>>

WriteUndecided(it) ==
  /\ Updating(it, "write_undecided")
  /\ flags' = [flags EXCEPT ![Src(it)] = "UNDECIDED"]
  /\ Finish(it)
  /\ UNCHANGED <<pc, low, filtered, dOut>>

UpdateStep(it) == \/ ReadD(it) \/ ReadSOut(it) \/ WriteOut(it)
                  \/ ReadS(it) \/ RereadD(it) \/ WriteUndecided(it)

-----------------------------------------------------------------------------
(* The vertexFilter of a round, and the loop *)

StartFilter ==
  /\ pc = "edgemap" /\ phase = "ret"
  /\ pc' = "filter"
  /\ vs' = ToDense(vs, V)
  /\ filtered' = {}
  /\ dOut' = [v \in V |-> FALSE]
  /\ UNCHANGED <<fl, threshold, phase, mode, begun, st, outEdges, cts, next, res>>
  /\ UNCHANGED <<flags, at, low>>

\* Mutant: a CONDITIONALLY_IN vertex is not taken IN.
FilterNeverDecides(v) ==
  /\ pc = "filter" /\ IsIn(vs, v) /\ v \notin filtered
  /\ filtered' = filtered \cup {v}
  /\ flags' = [flags EXCEPT ![v] = IF @ = "OUT" THEN "OUT" ELSE "CONDITIONALLY_IN"]
  /\ dOut' = [dOut EXCEPT ![v] = flags[v] # "OUT"]
  /\ UNCHANGED <<pc, at, low>>
  /\ UNCHANGED emVars

\* MIS_Filter on one member of the frontier
Filter(v) ==
  /\ pc = "filter" /\ IsIn(vs, v) /\ v \notin filtered
  /\ filtered' = filtered \cup {v}
  /\ flags' = [flags EXCEPT ![v] =
       CASE @ = "CONDITIONALLY_IN" -> "IN"
         [] @ = "OUT"              -> "OUT"
         [] OTHER                  -> "CONDITIONALLY_IN"]
  /\ dOut' = [dOut EXCEPT ![v] = flags[v] \notin {"CONDITIONALLY_IN", "OUT"}]
  /\ UNCHANGED <<pc, at, low>>
  /\ UNCHANGED emVars

\* Mutant: the frontier is reused with its stale index array.
EndRoundKeepsArray ==
  /\ pc = "filter" /\ \A v \in V : IsIn(vs, v) => v \in filtered
  /\ pc' = IF \E v \in V : dOut[v] THEN "edgemap" ELSE "end"
  /\ NextCall([vs EXCEPT !.d = dOut, !.m = Cardinality(Trues(dOut))])
  /\ filtered' = {}
  /\ UNCHANGED <<flags, at, low, dOut>>

EndRound ==
  /\ pc = "filter" /\ \A v \in V : IsIn(vs, v) => v \in filtered
  /\ pc' = IF \E v \in V : dOut[v] THEN "edgemap" ELSE "end"
  /\ NextCall(OfBits(dOut))
  /\ filtered' = {}
  /\ UNCHANGED <<flags, at, low, dOut>>

EdgeMapStep == \/ Enter \/ Leave
               \/ phase = "map" /\
                    \/ \E v \in V : Loop(v)
                    \/ \E it \in Items :
                         ReadIn(it) \/ Break(it) \/ ReadOut(it) \/ UpdateStep(it)

Next == \/ pc = "edgemap" /\ EdgeMapStep
        \/ StartFilter
        \/ \E v \in V : Filter(v)
        \/ EndRound

Spec == Init /\ [][Next]_vars /\ WF_vars(Next)

-----------------------------------------------------------------------------
TypeOK ==
  /\ EdgeMapTypeOK
  /\ pc \in {"edgemap", "filter", "end"}
  /\ flags \in [V -> Status]
  /\ at \in [AllItems -> {"read_d", "out_s", "write_out", "read_s", "reread_d", "write_undecided"}]
  /\ low \in [AllItems -> BOOLEAN]
  /\ filtered \subseteq V
  /\ dOut \in [V -> BOOLEAN]

\* checkMis, numConflict: no two neighbours are both in the set, at any moment.
Independent == \A e \in Edges : e[1] # e[2] =>
                 ~(flags[e[1]] = "IN" /\ flags[e[2]] = "IN")

\* The races of MIS_Update do not show in the result: when Compute ends every vertex
\* is decided, and the set is the one the sequential greedy algorithm finds by
\* increasing ID, which is independent and maximal (checkMis).
GreedyResult == pc = "end" =>
  \A v \in V : /\ flags[v] \in {"IN", "OUT"}
              /\ flags[v] = "IN" <=> \A u \in V : <<v, u>> \in Edges /\ u < v => flags[u] # "IN"

\* Each round decides at least one vertex: the next frontier is a proper subset.
RoundDecides ==
  [][pc = "filter" /\ pc' # "filter" =>
       Members(vs') \subseteq Members(vs) /\ Members(vs') # Members(vs)]_vars

\* Compute ends, if the workers keep running.
Terminates == <>(pc = "end")
=============================================================================
