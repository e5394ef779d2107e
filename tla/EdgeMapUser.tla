---------------------------- MODULE EdgeMapUser ----------------------------
(***************************************************************************)
(* EdgeMap closed with an arbitrary user function.  open is the set of     *)
(* vertices cond is true of; an update answers as it likes, and closes its *)
(* target or not.                                                          *)
(***************************************************************************)
EXTENDS EdgeMap

CONSTANTS Calls,      \* the pairs <<flags, threshold>> of the calls considered
          Frontiers   \* their frontiers

\* A frontier comes from a constructor or from an earlier call.
ASSUME FrontiersAssumption ==
  \A S \in Frontiers : /\ IsSubset(S, V) /\ Agrees(S)
                       /\ S.isDense \/ S.s # NULL \/ S.m = 0

\* The threshold is a long.
ASSUME CallsAssumption == Calls \subseteq (SUBSET Flags) \X Int

VARIABLES open,    \* the vertices that satisfy cond
          called,  \* the edges update has been called on
          hits     \* hits[d]: how often update answered TRUE for d

userVars == <<open, called, hits>>
callVars == <<emVars, userVars>>

UserInit ==
  /\ \E S \in Frontiers, c \in Calls : InitCall(S, c[1], c[2])
  /\ open \in SUBSET V
  /\ called = {}
  /\ hits = [v \in V |-> 0]

UserEnter == EnterCall /\ UNCHANGED userVars
UserLeave == LeaveCall /\ UNCHANGED userVars

UserLoop(v)     == DenseVertex(v, v \in open) /\ UNCHANGED userVars
UserReadIn(it)  == InNgh(it) /\ UNCHANGED userVars
UserBreak(it)   == BreakEarly(it, Dst(it) \in open) /\ UNCHANGED userVars
UserReadOut(it) == OutNgh(it, Dst(it) \in open) /\ UNCHANGED userVars

Update(it, r) ==
  LET d == Dst(it) IN
  /\ Updated(it, r)
  /\ open' \in {open, open \ {d}}
  /\ called' = called \cup {<<Src(it), d>>}
  /\ hits' = IF r THEN [hits EXCEPT ![d] = @ + 1] ELSE hits

UserNext ==
  \/ UserEnter \/ UserLeave
  \/ phase = "map" /\
       \/ \E v \in V : UserLoop(v)
       \/ \E it \in Items : \/ UserReadIn(it) \/ UserBreak(it) \/ UserReadOut(it)
                           \/ \E r \in BOOLEAN : Update(it, r)

UserSpec == UserInit /\ [][UserNext]_callVars /\ WF_callVars(UserNext)

-----------------------------------------------------------------------------

\* The result holds a vertex as often as its updates answered TRUE in a sparse
\* traversal, and once in a dense one or when duplicates are removed
\* (nvmEdgeMapSparse, nvmEdgeMapSparse_no_filter, nvmEdgeMapDense,
\* nvmEdgeMapDenseForward): no hit is lost, overwritten or invented.
Occurrences(S, v) ==
  IF S.isDense THEN (IF S.d[v] THEN 1 ELSE 0)
  ELSE Cardinality({i \in 0 .. S.m - 1 : S.s[i] = v})
ResultCountsHits ==
  phase = "ret" /\ ShouldOutput =>
    \A v \in V : Occurrences(res, v) =
      IF (IsSparse /\ "remove_duplicates" \notin fl) \/ hits[v] = 0 THEN hits[v] ELSE 1

\* The plain (non-atomic) update that decodeInNghBreakEarly calls in its
\* sequential loop never runs in two workers for the same destination.
PlainUpdateIsExclusive ==
  phase = "map" /\ mode = "dense" =>
    \A x, y \in Items :
      x # y /\ st[x] \in {"upd", "chk"} /\ st[y] \in {"upd", "chk"} /\ Dst(x) = Dst(y)
        => RunsParallel(x[1])

\* toSparse never finds a stored m that disagrees with the bits, and the index
\* array and the bits of the frontier never disagree when both are there.
RepresentationsAgree ==
  /\ phase # "abort"
  /\ Agrees(vs) /\ Agrees(res)

\* The array passed to filterf or copied out was written by the traversal.
NoUninitializedOutput ==
  phase = "ret" /\ ShouldOutput /\ mode = "sparse" =>
    \A i \in DOMAIN outEdges : outEdges[i] # UNINIT

\* Excepted from the promise is the sparse traversal forced by no_dense under a
\* threshold of zero: it reads degrees while it is NULL.
DegreesFilled == T > 0 \/ "no_dense" \notin fl

\* edgeMap does what EdgeMapSpec promises.
Pending == IF phase # "map" THEN {}
           ELSE {<<Src(it), Dst(it)>> : it \in
                   {it \in Items : st[it] \in {"todo", "upd"} /\
                      (mode = "dense" => IsIn(vs, Src(it)))}}
Gathered ==
  IF phase = "ret" THEN Members(res)
  ELSE IF phase # "map" \/ ~ShouldOutput THEN {}
  ELSE IF IsSparse THEN {outEdges[i] : i \in DOMAIN outEdges} \cap V
  ELSE {v \in V : next[v] = TRUE}
Promise == INSTANCE EdgeMapSpec WITH
             Edges <- Edges, output <- ShouldOutput, handled <- DegreesFilled, Vertices <- V,
             pc <- phase, frontier <- Members(vs), todo <- Pending,
             open <- open, called <- called, out <- Gathered
ImplementsEdgeMapSpec == Promise!Spec

\* When a call returns, every edge out of the frontier has had its update or its target
\* fails cond, and update was called along no other edge; only decode_nvm's
\* dense-forward traversal is excepted (see ForwardFollowsOutEdges).
FrontierIsDelivered ==
  phase = "ret" /\ (mode = "forward" => ~Nvm) =>
    /\ \A e \in Edges : e[1] \in Members(vs) => e \in called \/ e[2] \notin open
    /\ \A e \in called : e \in Edges /\ e[1] \in Members(vs)

\* README_old.md: each frontier vertex loops over its outgoing edges, and the
\* comment above decodeOutNgh: for each out-neighbor satisfying cond.
ForwardFollowsOutEdges ==
  phase = "map" /\ mode = "forward" =>
    \A it \in Items : st[it] = "upd" => <<Src(it), Dst(it)>> \in Edges

\* nvmEdgeMapData comes back from every call it is good for, under weak fairness of
\* the workers: no mode leaves an iteration undone.
CallReturns == <>(phase = "ret" \/ ~DegreesFilled)
=============================================================================
