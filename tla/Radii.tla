------------------------------- MODULE Radii -------------------------------
(***************************************************************************)
(* apps/nvm/nvmRadii.C (apps/Radii.C is the same program on a DRAM graph): *)
(* a breadth-first search from sampleSize vertices at once, whose bits     *)
(* travel in Visited; a set of source numbers stands for a word of bits.   *)
(* Visited does not change during an edgeMap, so reading it is part of the *)
(* writeOr that follows; radii is read and swapped in steps of their own.  *)
(***************************************************************************)
EXTENDS EdgeMap

CONSTANTS sampleSize,  \* min(n, 64)
          starts,      \* starts[i] = hashInt(i) % n; entries may be equal
          NoRead       \* the call has not read radii[d] yet

SamplesInGraph ==
  /\ sampleSize \in 1 .. n
  /\ starts \in [0 .. sampleSize - 1 -> V]
  /\ NoRead \notin Int

VARIABLES
  round, synced,          \* synced: the vertexMap of this round has run
  radii,
  Visited, NextVisited,
  oldRadii                \* the local of the updateAtomic calls past their writeOr

radiiVars == <<round, synced, radii, Visited, NextVisited, oldRadii>>
vars == <<emVars, radiiVars>>

Samples == 0 .. sampleSize - 1

\* The initializing loop stores 1 << i without atomics: of the samples that hash to
\* one vertex, one bit survives.
Init ==
  /\ InitCall(OfIndices(sampleSize, starts), {}, -1)
  /\ round = 0 /\ synced = FALSE
  /\ radii = [v \in V |-> IF \E i \in Samples : starts[i] = v THEN 0 ELSE -1]
  /\ Visited = [v \in V |-> {}]
  /\ NextVisited \in {nv \in [V -> {{}} \cup {{i} : i \in Samples}] :
       \A v \in V : LET is == {i \in Samples : starts[i] = v}
                    IN  IF is = {} THEN nv[v] = {} ELSE \E i \in is : nv[v] = {i}}
  /\ oldRadii = <<>>

Done == phase = "call" /\ ~synced /\ vs.m = 0

\* Mutant: round is not increased.
SyncSameRound ==
  /\ phase = "call" /\ ~synced /\ vs.m > 0
  /\ synced' = TRUE
  /\ Visited' = [v \in V |-> IF v \in Members(vs) THEN NextVisited[v] ELSE Visited[v]]
  /\ UNCHANGED <<emVars, round, radii, NextVisited, oldRadii>>

\* round++; nvmVertexMap(Frontier, Radii_Vertex_F)
SyncVisited ==
  /\ phase = "call" /\ ~synced /\ vs.m > 0
  /\ round' = round + 1
  /\ synced' = TRUE
  /\ Visited' = [v \in V |-> IF v \in Members(vs) THEN NextVisited[v] ELSE Visited[v]]
  /\ UNCHANGED <<emVars, radii, NextVisited, oldRadii>>

-----------------------------------------------------------------------------
Enter       == synced /\ EnterCall /\ UNCHANGED radiiVars
Loop(v)     == DenseVertex(v, TRUE) /\ UNCHANGED radiiVars
ReadIn(it)  == InNgh(it) /\ UNCHANGED radiiVars
Break(it)   == BreakEarly(it, TRUE) /\ UNCHANGED radiiVars
ReadOut(it) == OutNgh(it, TRUE) /\ UNCHANGED radiiVars
Leave       == LeaveCall /\ UNCHANGED radiiVars

Atomic(it) == mode # "dense" \/ RunsParallel(it[1])
ToWrite(it) == Visited[Dst(it)] \cup Visited[Src(it)]
Changes(it) == Visited[Dst(it)] # ToWrite(it)

\* update, in the sequential loop of the worker that owns d
Update(it) ==
  LET d == Dst(it)
      r == Changes(it) /\ radii[d] # round
  IN  /\ ~Atomic(it)
      /\ Updated(it, r)
      /\ NextVisited' = IF Changes(it) THEN [NextVisited EXCEPT ![d] = @ \cup ToWrite(it)]
                        ELSE NextVisited
      /\ radii' = IF r THEN [radii EXCEPT ![d] = round] ELSE radii
      /\ UNCHANGED <<round, synced, Visited, oldRadii>>

\* updateAtomic: writeOr(&NextVisited[d], toWrite)
WriteOr(it) ==
  /\ phase = "map" /\ st[it] = "upd" /\ Atomic(it) /\ it \notin DOMAIN oldRadii
  /\ IF Changes(it)
     THEN /\ NextVisited' = [NextVisited EXCEPT ![Dst(it)] = @ \cup ToWrite(it)]
          /\ oldRadii' = [x \in DOMAIN oldRadii \cup {it} |-> IF x = it THEN NoRead ELSE oldRadii[x]]
          /\ UNCHANGED emVars
     ELSE Updated(it, FALSE) /\ UNCHANGED <<NextVisited, oldRadii>>
  /\ UNCHANGED <<round, synced, radii, Visited>>

\* intE oldRadii = radii[d];
ReadRadii(it) ==
  /\ phase = "map" /\ it \in DOMAIN oldRadii /\ oldRadii[it] = NoRead
  /\ oldRadii' = [oldRadii EXCEPT ![it] = radii[Dst(it)]]
  /\ UNCHANGED <<emVars, round, synced, radii, Visited, NextVisited>>

\* Mutant: the test uses the value read before, and a plain store replaces the CAS.
StoreRadii(it) ==
  LET d == Dst(it) IN
  /\ phase = "map" /\ it \in DOMAIN oldRadii /\ oldRadii[it] # NoRead
  /\ LET r == oldRadii[it] # round
     IN  /\ Updated(it, r)
         /\ radii' = IF r THEN [radii EXCEPT ![d] = round] ELSE radii
  /\ oldRadii' = [x \in DOMAIN oldRadii \ {it} |-> oldRadii[x]]
  /\ UNCHANGED <<round, synced, Visited, NextVisited>>

\* if (radii[d] != round) return CAS(&radii[d], oldRadii, round);  A read that still
\* saw the old value changes nothing: the CAS then fails.
SwapRadii(it) ==
  LET d == Dst(it) IN
  /\ phase = "map" /\ it \in DOMAIN oldRadii /\ oldRadii[it] # NoRead
  /\ LET r == radii[d] # round /\ radii[d] = oldRadii[it]
     IN  /\ Updated(it, r)
         /\ radii' = IF r THEN [radii EXCEPT ![d] = round] ELSE radii
  /\ oldRadii' = [x \in DOMAIN oldRadii \ {it} |-> oldRadii[x]]
  /\ UNCHANGED <<round, synced, Visited, NextVisited>>

NextRound == /\ phase = "ret"
             /\ NextCall(res)
             /\ synced' = FALSE
             /\ UNCHANGED <<round, radii, Visited, NextVisited, oldRadii>>

Next == \/ SyncVisited \/ Enter \/ Leave \/ NextRound
        \/ phase = "map" /\
             \/ \E v \in V : Loop(v)
             \/ \E it \in Items : \/ ReadIn(it) \/ Break(it) \/ ReadOut(it) \/ Update(it)
                                 \/ WriteOr(it) \/ ReadRadii(it) \/ SwapRadii(it)

Spec == Init /\ [][Next]_vars /\ WF_vars(Next)

-----------------------------------------------------------------------------
\* Ball[k][v]: the vertices at distance at most k from v.
Ball[k \in 0 .. n] ==
  IF k = 0 THEN [v \in V |-> {v}]
  ELSE LET near == Ball[k - 1]
       IN  [v \in V |-> LET here == near[v]
                         IN  here \cup {e[2] : e \in {e \in Edges : e[1] \in here}}]
Distance(u, v) == CHOOSE k \in 0 .. n : v \in Ball[k][u] /\ (k > 0 => v \notin Ball[k - 1][u])

\* The samples whose bit survived the initializing loop.
Surviving == {i \in Samples : i \in NextVisited[starts[i]]}
Reaches(v) == {i \in Surviving : v \in Ball[n][starts[i]]}

\* Between two rounds the searches are all at the same distance: a vertex has the bits
\* of the sources within round steps, and is in the frontier, once, when the last
\* round brought it a new one.
SearchesInStep ==
  phase = "call" /\ ~synced =>
    /\ \A v \in V : NextVisited[v] = {i \in Reaches(v) : Distance(starts[i], v) <= round}
    /\ Members(vs) = {v \in V : \E i \in Reaches(v) : Distance(starts[i], v) = round}
    /\ round > 0 => Cardinality(Members(vs)) = vs.m

\* When Compute ends, radii[v] is the largest distance to v from a surviving sample.
RadiiAreEccentricities ==
  Done => \A v \in V :
    /\ Reaches(v) = {} => radii[v] = -1
    /\ Reaches(v) # {} => /\ \E i \in Reaches(v) : Distance(starts[i], v) = radii[v]
                          /\ \A i \in Reaches(v) : Distance(starts[i], v) <= radii[v]

\* Compute ends, if the workers keep running.
Terminates == <>Done
=============================================================================
