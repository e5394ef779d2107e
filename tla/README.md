# A TLA+ model of nvmligra

nvmligra is a fork of Ligra, a shared-memory framework for parallel graph
programs. A program keeps a *frontier*, a subset of the vertices, and calls
`edgeMap` in a loop: it applies the program's `update` function to the edges out
of the frontier and returns the next frontier. The fork keeps the edges in
persistent memory. The hard part of the code is that `update`, `updateAtomic`
and `cond` of many workers interleave on shared arrays, mostly without locks, and
that one call is executed by one of four traversals that treat the same edges
quite differently. Around that core stand a priority queue of buckets with stale
copies, six compressed forms of the adjacency lists, and a chain of file formats
that must all stand for the same graph.

## The system

| Part | Source | State | Operations | Right when |
|---|---|---|---|---|
| edgeMap | `ligra/nvmEdgeMap.h`, `ligra.h`, `edgeMap_utils.h`, `nvmVertex.h`, `vertex.h` | the frontier; the output arrays; the cursor of each worker | choose the traversal, traverse, build the output | every edge out of the frontier is taken once (or its target fails `cond`), and the output is exactly the targets whose update answered true |
| vertexSubset | `ligra/nvmVertexSubset.h`, `vertexSubset.h` | index array `s`, bits `d`, count `m`, `isDense` | constructors, `toSparse`, `toDense`, `isIn` | the two arrays and the count stand for one set, through any sequence of conversions |
| vertexMap, vertexFilter | `ligra/nvmVertexMap.h` | none | apply a function to the members | each member once |
| nvm graph reader | `ligra/nvmIO.h`, `pmemmgr.h` | vertex records, edge arrays, the bump allocator | text file to graph | the in-edges are the transpose of the out-edges; the graph's memory stays mapped and is not shared |
| files | `ligra/IO.h`, `hypergraphIO.h`, `encoder.C`, `decoder.C`, `hypergraphEncoder.C`, `hypergraphDecoder.C`, `utils/*` | files; the graph in memory | convert, add weights, make binary, encode, decode, read | whatever the route, the graph in memory is the user's input, and in-edges mirror out-edges |
| codecs | `ligra/byte.h`, `nibble.h`, `byteRLE.h`, their `-pd` versions, `compressedVertex.h` | a list as bytes, a scratch space, the two fingers of the packer | compress, decode, pack | decoding is the inverse of compressing, stops when told to, and packing in place filters |
| primitives | `ligra/utils.h`, `sequence.h` | flags of `remDuplicates` | scan, pack, filter, `remDuplicates`, CAS, `writeMin`, `writeAdd` | they compute what the sequential definition says |
| buckets | `ligra/bucket.h` | buckets with stale copies, the open range, `num_elms` | `next_bucket`, `get_bucket`, `update_buckets` | it is a priority queue |
| programs | `apps/nvm/*.C`, `apps/*.C`, `apps/bucketing/*.C`, `apps/hyper/*.C` | one or two arrays over the vertices, the frontier | `Compute`, `update`, `updateAtomic`, `cond` | the result is the sequential one, whatever the interleaving, and the loop ends |
| the rest | eccentricity, local clustering, sorts, generators, PageRank | | | listed in `PROJECT.json`, with the reason why each is not, or only partly, modelled |

They interact by calls and through shared arrays: a program calls `edgeMap` on a
frontier it built before; `edgeMap` calls back into the program from many workers
at once; the bucketing structure reads keys through a closure over an array that
the program changes under it; the readers hand the graph to everybody, who then
rely on `inE` being the transpose of `E`; the tools write files that other tools
and the readers take.

Nothing persists across a restart although the edges live in persistent memory
(the file is filled anew by each run), and nothing is sent between processes:
crash recovery and message loss are not hazards of this code. Interleavings,
stale reads, representation changes and boundaries are, and are listed at their
lines under `hazards` in `PROJECT.json`.

## The modules

Arrays are functions from 0, as in C. Operators named in a comment as *mutant* are
plausible wrong versions of the definition below them. Nothing uses them; each shows
that a property of a run can fail (`mutants` in `PROJECT.json`).

### edgeMap and the programs over it

* **EdgeMap**: first the subset and its conversions as operators, of which
  `IsSubset` (shape) and `Agrees` (the two representations and the count agree)
  are what its readers rely on; then the graph as the edge maps see it, with its assumptions (offsets are
  non-decreasing, the in-array is the transpose of the out-array; a read past
  the end of the edge array yields the constant `Beyond`), and one call of `nvmEdgeMapData`, with `Nvm = TRUE` for
  `decode_nvm` and `FALSE` for `decode_uncompressed`. `CallEmpty`, `CallDense`,
  `CallSparse` and `CallDies` are the code up to the choice of the traversal; a *work
  item* `<<o, j>>` is one iteration of an inner loop, and goes from `todo` to
  `upd` (its update is being called), perhaps `chk` (the break test of
  the sequential in-neighbour loop) and `done`. Items that the code runs in one
  sequential loop are ordered by `Before`; all others interleave. `ReturnDense` and
  `ReturnSparse` are the joins, `remDuplicates` and the filter. The module has no
  `Next`: who extends it supplies the answers of `cond` and `update`.
* **EdgeMapUser** closes EdgeMap with an arbitrary user: `cond` may become
  false of a target at any update, and never true again in the call, and an update
  answers as it likes. **EdgeMapSpec** is the abstract promise of a call, with no
  traversal and no representation, and EdgeMapUser is shown to implement it.
* **BFS**, **MIS**, **Components**, **Radii** close EdgeMap with the
  program of that name, loop included. Accesses to shared arrays that race are steps of
  their own: the two reads and the write of `MIS_Update`, the read of
  `origID`, the read of `IDs[s]` and the `writeMin` of `CC_F`, the `writeOr`,
  the read and the CAS of `Radii_F`, `cond` and the CAS of `BFS_F`. Where a
  racing value is named twice in the source (`flags[d]` in MIS, `IDs[s]` in the plain
  update of Components), the compiler may read it once or twice: both are allowed.

### Programs over what edgeMap and the buckets promise

**EdgeCall** is a call as EdgeMapSpec promises it, in a form programs can be written
over: the edges of the frontier in `todo`, the locals of the updates under way in `regs`,
the reported targets in `out`. What a program does in its update is steps of its own.

* **BellmanFord**, **DeltaStepping**, **HyperSSSP**: shortest paths; the read of the
  distance, the `writeMin` and the test-and-set of the mark are steps.
* **ComponentsShortcut**, **HyperCC**: connected components by smallest ID.
* **KCore**, **HyperKCore**, **BucketKCore**: cores; `cond` reads a degree that others
  are lowering, degrees are unsigned words of `UintRange` values and wrap.
* **BC**, **HyperBC**: betweenness from one source: the CAS loops that add, the levels
  kept, the phase backwards. **HyperBPath**: directed hyperpaths.
* **HyperMIS**: Beame and Luby's rounds; **SetCover**: the buckets of sets, the two
  rounds of competing by `writeMin`, joining or releasing.
* **Buckets** is the bucketing structure with its stale copies, driven by the
  moves that k-core, delta-stepping and set cover make; **BucketSpec** is the priority
  queue it promises, and DeltaStepping, BucketKCore and SetCover run over it.
* **SparseSet** (the hash table of local clustering) and **RemDuplicates** are tables
  that workers share, access by access.

### Graphs in files and in bytes

* **NvmLoad**: the reader into persistent memory, with its bump allocator and the
  block sums that `scan` puts there and unmaps.
* **ByteCode**, **NibbleCode**, **RunLengthCode**: difference codes of one list, with
  the decoder's `srcTarg` answering when to stop. `B` and `NB` are the bits of a byte and
  of a nibble. **ParallelCode** gives the `-pd` versions their chunks. **Compressor** does to several
  lists at once what `parallelCompressEdges` does: the lists are written side by side into one scratch
  array (`iEdges`), at places computed from the degrees, so that a list that is longer than its room
  goes on in the next one's. Then it decodes them chunk by chunk, and packs them in place.
* **FileTools**: the writers and parsers of the text and binary formats, what
  each tool and reader makes of a file, and any sequence of them from a user's
  input to a graph in memory. The encoder's exit on a target out of range (`encoder.C:167-171`) is
  left out: no input of the runs has one.
* **Storage** extends NvmLoad and Compressor, has an instance of FileTools, and puts the three
  forms side by side in one specification: `form` says which of them a behaviour is about, and they
  do not interact. It assumes what Compressor and FileTools ask of their inputs; the loader's
  assumption is NvmLoad's own.

### All programs in one specification

**Programs** puts the fifteen programs over EdgeCall, BucketSpec and the tables side by side:
`prog` says which one a behaviour runs, each is an instance with constants of its own, variables
of one name are one place, and what a program does not have is `Unused` throughout
(`Places`). **AllPrograms** adds BFS and Radii, which share the variables of one edgeMap call and
its graph. Six properties say of several programs at once what each of their modules says of one; they, what HyperSSSP
can promise (`DistancesUnlessGivenUp`), and the four of BFS and Radii, are what the run `programs` checks and what the theorems below state of `AllSpec` and `ProgramsSpec`.

**MC...** modules hold only the graphs, files and calls that TLC checks. **EdgeMap_proofs**,
**Callers_proofs** (EdgeMapUser, MIS), **Programs_proofs** (Radii, BellmanFord,
ComponentsShortcut, HyperCC, HyperSSSP, DeltaStepping; AllPrograms), **Cores_proofs** (KCore, HyperKCore, BucketKCore, HyperBPath)
and **Buckets_proofs** (Buckets, SetCover, SparseSet, RemDuplicates, BC, HyperBC, HyperMIS; Programs) are proofs; those about BFS, Components and NvmLoad stand at the end of their modules.

## The runs

Six runs pass; six show a finding. All counts are distinct states.

| Run | What it asks | Bounds |
|---|---|---|
| `edgemap` (141,475) | Every interleaving of one call: is what is output what the updates answered (`ResultCountsHits`), is the plain update exclusive, do the representations agree, is nothing uninitialized output, does it return, does it implement `EdgeMapSpec` | 3 vertices, 5 edges, a cycle and a shared target; 4 frontiers in both representations; 18 pairs of flags and threshold, on both sides of it and at the default; `Grain` 1, so that lists of two are parallel, `BSize` 2, so that blocks split |
| `mis` (26,323) | No two neighbours in the set at any time, the greedy set at the end, each round decides somebody, `Compute` ends | a triangle with a pendant vertex; dense, then sparse rounds |
| `components` (26,739) | IDs are minimal at the end, no lost wake-up, `Compute` ends | a vertex by itself and a path of 4 whose smallest ID travels its length; dense and sparse rounds |
| `buckets` (108,857) | One good copy of each identifier, `num_elms` exact, no copy behind the current bucket, a priority queue, `next_bucket` returns | 3 identifiers, keys to 6, 2 open buckets: four ranges, so that ranges are skipped; both orders |
| `storage` (132,659) | What is stored is what is read back. In persistent memory (17,952 of the states): the in-edges are the transpose, the vertices' blocks split the edges of the file, the graph's memory is its own and stays mapped. As compressed lists (106,291): decoding is the inverse and stops where it is told, packing is filtering and never overtakes itself. In files (8,416): the graph in memory is the user's input, in-edges mirror out-edges | every graph of 3 vertices and up to 3 edges, of 5 vertices and up to 2, of 9 vertices and 1; block size 2, page size 4, so that with 5 vertices the scan has block sums and with 9 these have block sums. Six codes; lists to 4 edges with differences of one to four bytes, and equal differences to 9; bytes of 4 bits and nibbles of 2, so that a run is full at 4 edges; chunks of 2. Any sequence of tools on graphs and hypergraphs to 4 vertices, with self edges, duplicates, isolated vertices at both ends and gaps in the foreign IDs |
| `programs` (224,765) | BFS over the detailed edgeMap: parents are one level closer, the frontier is exactly a level. Radii over it: the bits stay in step with the rounds, the radii are the eccentricities from the samples whose bit survived. Fifteen programs over `EdgeCall`, `BucketSpec` and shared tables: exact results (HyperSSSP: unless it gave up), nothing lost between rounds, exact cores, dependencies, sets and tables. The loops end | BFS and Radii: a graph of 6 vertices and 9 edges, on which BFS takes sparse, dense and sparse rounds and has two ways to a vertex; 3 samples, of which 2 are one vertex and their searches meet. The others: inputs chosen for the hard case of each, named in MCPrograms; every graph of 4 vertices for KCore, of 5 for BucketKCore |
| `edgemap_forward_nvm` | finding: dense-forward of the nvm vertices follows wrong edges | one call |
| `codecs_rle_weighted` | finding: a missing `break` in the weighted run-length decoder | the run-length codes, targets of three bytes with weights of one byte and of four |
| `codecs_nibble_scratch` | finding: the scratch space of weighted nibble lists is too small | one list of 40 edges, bytes of 8 bits and nibbles of 4, differences of 2^24 and weights of 2^29 |
| `files_hyper_binary` | finding: the binary hypergraph reader takes weights from the wrong place | one hypergraph with more vertex edges than hyperedge edges |
| `files_hyper_encoder` | finding: the weighted hypergraph encoder sorts too few edges | the same |
| `hyper_sssp` | finding: minus infinity without a negative cycle | two vertices, and one hyperedge that leads from the first to the second, or back as well |

The bounds are small because the hazards are local: two workers and one shared
target are enough for every race of `update`, and a third for a writer that comes in
between two steps of the others. Each graph was chosen so that something
happens on it that its properties are about: a vertex claimed twice in one round,
a round after a change of traversal, an ID that travels the length of a path against
a larger one, a distance lowered twice in one round. The parameters that are large in the
code only to save time (20, 1000, 10000, the block size of the scans, the page size, the chunk of the
codes) are constants here, set low so that both sides of each comparison occur.

Bounds with a meaning of their own:

* `MaxKey`, `MaxRound` (HyperMIS: the sample may be empty, so its loop has no bound; its
  sample is any subset, instead of the hash's) and the sets of inputs.
* `UintRange` 16 and `TopBit` 64 stand for 2^32 and for the top bit of a distance word; the
  degrees and distances of the inputs stay below them as they do in the code.
* `Scale` 12: the fractions of BC are multiples of 1/12, exact on these graphs.
  Rounding is not modelled.
* SetCover's buckets by powers of 1.01 are tables for powers of 2, so that sets of
  different sizes share a bucket on a small instance.
* KCore's loop runs until no vertex is left; its other end, `k = nv`, would take self
  edges, which these inputs have not.
* Run-length lists are not packed: see the observations.

The runs have deadlock checking off because the programs stop: a call that has
returned, a `Compute` that has ended. That they do stop, and do not get stuck
before, is what `CallReturns`, `Terminates`, `EveryProgramEnds` and `NextBucketReturns` say.

### Fairness

`WF_vars(Next)` in the programs, `WF_callVars(UserNext)` in EdgeMapUser: some worker goes on if one can. That is
what the schedulers of Cilk and OpenMP give a `parallel_for`: an iteration that
has begun is not abandoned and one that has not begun is taken by somebody. It is
weaker than fairness of each item, and is enough because no
step of the models waits for another worker: each step of a call
finishes some part of an item. The CAS loops of `writeMin` and `writeOr` are one step,
their successful CAS, since a failed CAS means that another worker has made
progress. In Buckets only the structure's own steps are fair: the caller
may stop calling. HyperMIS is left out of `EveryProgramEnds`: it ends only with probability one.

## What the runs found

Six things the documentation or the comments say are not what the code does; the
quotes are in `PROJECT.json`.

* `decode_nvm::decodeOutNgh` adds the vertex's offset to an index that
  `getOutNeighbor` takes relative to the vertex (`nvmVertex.h:65-66`). Only
  `dense_forward` on nvm vertices is affected, which no program under `apps/nvm` uses.
* The weighted decoders of the run-length codes decode a run of targets of three bytes with
  weights of four bytes (case 6, `byteRLE.h:461-473`) as they should, but then, without a
  `break`, fall into the next case and decode edges that are not in the list.
* The nibble codes give a weighted list `18 D + 64` nibbles of scratch space (`nibble.h:307`,
  `nibble-pd.h:359`). A difference of 2^24 takes 9 and a weight of 2^29 takes 11: the forty such
  edges of the run need 792 where 784 are reserved, and go on in the room of the next list, which
  another iteration of the parallel loop writes. The other codes, and unweighted nibbles, have enough
  for vertex IDs below 2^31: only few differences of one list can be large enough to take more than the share of an edge.
* The binary reader of weighted hypergraphs looks for the weights of the vertices' edges
  behind `mh` targets, where the file has `mv` (`hypergraphIO.h:408`).
* The encoder of weighted hypergraphs sorts `mh` of `mv` edges when it turns the vertices'
  edges around (`hypergraphEncoder.C:796`).
* HyperSSSP takes `nv - 1` rounds for the sign of a negative cycle, even when the last of
  them left nothing to do, and overwrites all distances (`HyperSSSP.C:77`): on a path of
  `nv - 1` hyperedges it answers minus infinity. `DistancesAreShortest` is what the comment there
  and `README_old.md` say; `DistancesUnlessGivenUp`, which the run `programs` checks and
  a theorem proves, is what is left of it.

Observations made on the way, which no document contradicts or no run is spent on:

* With `no_dense` and the default threshold, a graph of fewer than 20 edges makes
  the sparse traversal dereference null pointers (`nvmEdgeMap.h:197`, `233`); the model
  has this as `CallDies`.
* At exactly the threshold the code is sparse (`nvmEdgeMap.h:223`), where `README_old.md`
  says sparse is for *less than* T. The two traversals promise the same.
* `CC_F::updateAtomic` may answer true twice for a vertex, and Components does not ask for
  duplicate removal, as `README_old.md:406-407` advises. The result is right all the same.
* The out-edges of an nvm graph carry the index of the edge as `from` (`nvmIO.h:95`).
* In MIS a vertex that went OUT can be taken back to UNDECIDED by a racing write. It goes
  OUT again: it keeps the smaller neighbour that is IN (see the proof of `MISGreedy`).
* HyperMIS may end with a set that is not maximal, since packing drops the vertices that
  are out; no hyperedge is ever wholly inside, which is what `SetsAreRight` asks.
* HyperBPath records any of the parents of a hyperedge that completed it, so different
  traversals give different ones.
* A run-length list can grow when an edge is taken out of the middle of a run, and
  `packOutNgh` writes in place: so packing is checked for the byte and nibble codes.
* Neither the CAS of `remDuplicates` (a plain write would do) nor KCore's zeroing of removed
  degrees is what makes their results right.

## What is proved

All theorems hold for every value of the constants that satisfies the named assumptions
(`GraphAssumption`, `EdgeMapAssumption`, `SymmetricAssumption`, `FrontiersAssumption`, `CallsAssumption`,
`BucketsAssumption`, `NvmLoadAssumption`, each program's `InputsOK`, which together are `ProgramsAssumption`, and `SearchesAssumption`), which TLC evaluates on its instances. The theorems about MIS
suppose `Symmetric` by themselves, and MCMIS assumes it of its graph.

**EdgeMap_proofs**, for the proofs about a call and about the programs over it. `ToSparseKeepsSubset` and
`ToDenseKeepsSubset`: a conversion of a well-formed subset whose representations agree gives
one again that stands for the same set, and `toSparse` does not abort. The key is that `Nth` enumerates
a finite set of integers one to one (`NthIsBijection`), so that packing the bits loses and doubles nothing; the same
fact counts what the filter, the copies of the blocks and `remDuplicates` keep. `ItemsLieInBlocks`: the places of the
items in the output array are one to one with the edges out of the frontier (`PlacesAreSlots`), and the binary search cuts
them into blocks that hold their items (`BlockBoundaries`). `CallInv` is the invariant of a call: `Mapping` fixes what it
works on, `Working` says which items may be under way, and `Output` that each block has packed
just what its finished items found (`PackedStep`), each entry of the array is written once its item is done (`FilledStep`), each bit
is set by an item that found its vertex (`MarkedStep`). `SparseDelivers` and `LeaveStep` say what the call then returns.

**Callers_proofs.** *EdgeMapUser*, a call on any graph by any user. `PlainUpdateIsExclusiveAlways`: of the two
items of one sequential list one is before the other, and the items before one that is looked
at are done (`Ordered`). `RepresentationsAlwaysAgree`: the frontier and the result have the same members
in each representation they hold. `ResultAlwaysCountsHits` and `OutputIsAlwaysWritten` rest on `Counted`: at every moment the
output has as many places for a vertex as its updates have answered TRUE. `FrontierIsAlwaysDelivered`: when a call returns, every edge out of
the frontier has had its update or its target fails `cond`, and update was called along no
other edge. Its invariant `DInv` says of each finished item why it is finished (`Reached`), and rests on every edge having an
item, in the dense traversal because the in-edges mirror the out-edges. `CallKeepsPromise` is the refinement of EdgeMapSpec: an item's
update is the abstract `Apply` of its edge, a target that fails `cond` is `Skip`, everything else a stutter; `PInv` keeps apart
the items that are still to be taken from the edges that were. It assumes `Promisable`: neighbours and the frontier's arrays
without repetitions (a repeated edge is taken twice, which a set of edges cannot say), and no `dense_forward` on nvm vertices.

*MIS.* `MISIndependent`: on every symmetric graph, at every moment, no two
neighbours are both in the set; `MISTypeCorrect`; and `MISGreedy`: at the end it is the greedy set. `Independent` is not
inductive: the filter takes a vertex in by looking at its own flag only, so what
the edgeMap before it has done must be remembered. `IInv` adds

* `MISType`, the types, with what they rest on: the frontier always has its bits,
  and in a sparse round its index array stands for the same set;
* `FrontierUndecided`: during an edgeMap no member of the frontier is IN;
* `MapInv`: what each work item knows. A finished item of an edge `<<s, d>>` with `s` in the
  frontier has `Settled(s, d)`: if `s` is still CONDITIONALLY_IN then `d` is not IN, nor
  CONDITIONALLY_IN with a smaller ID. An item in the middle of its update has seen
  `flags[d]` say so;
* `AtRest`, `RetInv`, `FilterInv`: the locals of items not under way; after the call
  every edge out of the frontier is settled; while the filter runs, `Settled` still
  holds of its unfiltered members.

`Settled` is stable under all other workers' steps because an edgeMap never writes
CONDITIONALLY_IN or IN (`Weakens`): this is why the missing atomics do no harm. For `MISGreedy` the
invariant `GInv` adds that a vertex that is OUT is `Doomed`: it has a smaller neighbour that is IN. That
flags do not stay OUT does not matter, being doomed does: nothing leaves the set. `EveryRoundDecides`: in `RInv` whatever is UNDECIDED has a
smaller vertex in the frontier, as has the source of an update about to write UNDECIDED, although it may go by a first read
of `flags[d]` that is out of date; so the filter settles the smallest vertex of the frontier. With this the rounds are bounded; that each of them ends is fairness.

**Buckets_proofs.** *Buckets.* `OneGoodCopyAlways`, `NoCopyBehindAlways`, `NumElmsAlwaysCountsCopies` and `ImplementsBucketSpecAlways`, for any number of identifiers and
buckets and both orders at once: a key stands for its *place* in the order of the search
(`Ord`), the open range begins at `Base`, the search has come to `Here`. The invariant `BInv` says: an
identifier in the structure lies at or after `Here` and has one copy at its `Spot` (`LiveCopies`); what was taken and not put back has
no copy where it could be taken again (`TakenGone`); in increasing order every copy in
an open bucket lies at or behind its identifier's place (`CopiesBehind`), so that a move, which goes to a place no later than the old
one, never meets an old copy at its destination; and what the user knows about the bucket it was given (`UserKnows`).
`num_elms` is a sum over all buckets and identifiers: the library's fold over a finite set is shown not to depend on the order
it takes the elements in (`SumsSplit`) and to change by the difference when one summand changes (`SumChanges`), and then each action
adds to `num_elms` what it adds to the sum. So the structure is empty when `num_elms` is 0, and the refinement of BucketSpec is complete.

*SparseSet.* `TableAlwaysHoldsSums`, for any hash, any inserts of fewer keys than the table has slots, and any order of their
accesses: no key has two slots, `find` arrives at a key from the moment its first insert has answered, the sum there is that of
the inserts that have answered, and exactly one of these says that the key was new. The invariant `SSInv`
says where a search is: from the first slot of its key on, the slots before it are taken by other keys (`Path`), for a worker's slot as for
the slot of a key in the table. A slot never loses its key, so a path stays one (`PathKept`), and it has one end (`PathsEnd`): a worker
that claims an empty slot is at the end of the path of its key, which then has no other slot. A path that covers the whole
table would hold as many keys as there are slots (`NotTheLast`), so no search comes back to its first slot. `Summed` counts the inserts that have answered.

*RemDuplicates.* `OneOfEachAlwaysSurvives`, for arrays of any length: in the first loop whoever has joined has seen
its flag taken by an entry of its key (`First`); from then on each key has a winner, and each other entry of the key loses
whether it reads the winner or the reset flag (`Second`).

*SetCover.* `CoverAlwaysCovers` and `CoverAlwaysPays`, for every family of sets and any tables of buckets and thresholds. An element not yet covered is in the list of each
set it belongs to, as packing drops covered ones only, and one of these sets stays outside the cover (`SCSets`): of the sets that compete for it in a round `writeMin` leaves one, which
joins and covers it or stays outside; if none competes, nobody who has it joins. A set outside waits in a bucket or nothing of it is left, so when the buckets are empty all is covered.
What the joining sets of a round have won does not overlap, so together they cover as many new elements as their thresholds ask (`SharesAddUp`).
During the second call whoever holds an element has its edge still to go (`Resetting`).

*BC.* `DependenciesAreAlwaysExact`, for every finite directed graph, every start and every order of the CASes. What the program computes by levels is compared with sums over
paths: `CountIn` is a table of walks, and the shortest ones split at each level they cross (`WalksJoin`, `FirstEdge`), so what a vertex passes back, `Scale` over its paths and what the next level
passes it, is the sum of its shares over all targets (`SharesPass`, `SharesOfPaths`). The invariant `PhasesBC` says what each phase has of that. In a call the sum of a target that is not
visited is what the answered edges add up to (`CallBC`): the CAS that succeeds adds the value of a source that no longer changes, the one that fails adds nothing, and the first
to find 0 reports the target. A level is a frontier without doubles, has a vertex on every level before it (`LevelsAreFew`), and backward the next one is not yet added to (`BackBC`).
The counts are bounded by nothing but `Scale`, a multiple of all of them: fractions are exact, rounding is not part of the model.

*HyperBC.* `HyperDependenciesAreAlwaysExact`, for every finite hypergraph. The levels are vertices and hyperedges by turns (`LevelsAlternate`), and so are the units of Dependencies: what lies before the level
a call sends from has, once divided or multiplied, its own path count times what the answered edges add up to for a vertex, and just that for a hyperedge (`BackCallHB`). The last level of hyperedges is dropped at the turn, as nothing that
counts lies behind it (`TurnRoundHB`); a vertex's own share is added when its level sends, hence never to the start.

*HyperMIS.* `SetIsAlwaysIndependent`, for every hypergraph without an empty hyperedge (which is inside any set), whatever the samples and the order of the calls. A
watched list loses only decided vertices (`Watched`), so its counter, which runs over the packed list, is the number of list entries sampled (`InCount`): short of the list's length
a vertex of it stays out, and at the length all entries of the round are reset, so that the list is not wholly put in (`InReset`). A hyperedge that is not watched any more has a vertex put
out for good, and that vertex, when it was put out, was the only one undecided of a hyperedge (`Justified`).

*Programs.* `EveryDependencyIsExact`, `EverySetIsRight` and `EveryTableIsRight` state of `ProgramsSpec`, hence of any mixture of programs and inputs, what the run `programs` checks
on a few. A step of `ProgramsSpec` leaves `prog` alone and is a step of that program (`ProgramsStep`), so a behaviour that starts as one of them is a behaviour of it, and its
theorem applies; in all others the property asks nothing.

**NvmLoad**, for every adjacency file whose offsets do not decrease. `InIsAlwaysTranspose`, which is what `GraphAssumption` takes for granted of
the graph that edgeMap is given, and `GraphIsAlwaysFile`. The invariant `LoadInv` follows the reader's stages: the pairs are the file's edges, as often as
the file has them (`PairsKept`); a stable sort is a permutation, since no two pairs have one rank (`RankIsPermutation`), so they stay so; the first
place of each target is found although most targets may have none (`FirstsAreSet`); and the minimum from the right makes `i < tOffsets[t]` the same
as `temp[i]` having a target below `t` (`OffsetsBound`), which holds around vertices without edges too. Any such table of offsets gives each edge to one
vertex (`TableSplits`). `GraphAlwaysStaysMapped` rests on `MemInv`: the bump allocator keeps the regions apart, and the block sums are
allotted after the last array of the graph (`ScansBehind`), so that a whole page unmapped from their start cannot reach back into it.

**Components.** `LoweredVertexIsAlwaysOutput` and `IDsAreAlwaysMinimal`, on every symmetric graph and in every interleaving: the
program is right although an update compares an ID it read before others lowered it. The invariant `CCInv` rests on IDs only falling, so that
what an update has read lies between the ID now and the one the call began with (`Knows`): the first write that lowers an ID in a
call was made by an update that had read the old one, and this one answers TRUE (`Woken`). A finished item has brought its target down
to what its source had when the call began (`Told`); a source that has fallen since is in the output and tells its neighbours
again in the next round. So between two rounds an edge that could lower an ID starts in the frontier (`Quiet`), and with an empty frontier each
component has one ID (`OneIDEach`), which is no larger than any of its vertices and names one of them (`Named`). In a dense
round the plain update, which may write back an old value, is alone with its target (`PlainIsAlone`). Both theorems
suppose that no array is the null pointer (`NullIsNoArray`), as in C.

**BFS.** `ParentsAreAlwaysShortest` and `FrontierIsAlwaysLevel`, on every graph that has the start, with every mix of traversals. The
invariant `Searches` says that some level `k` is being searched (`BFSInv(k)`): in the call on it the visited vertices lie between `Ball[k]` and
`Ball[k + 1]`; one visited in this call has one place in the output, so that the CAS reports it once, and any other none (`NewAreFound`);
and an item that came from the frontier and is done has its target visited, by its own CAS, by the one that beat it or by the one whose write
`cond` saw (`Seen`). So at the end of the call all of `Ball[k + 1]` is visited, as each edge out of the frontier has an item. What the stored
count of a frontier is worth rests on `LeaveCounts`: without doubles in the output it is the number of members, so a round with
`m = 0` is the end of the search. The balls grow with each round (`Growing`), which bounds the rounds by `n`. As for Components, no array is the null pointer.

**Programs_proofs** and **Cores_proofs**, of ten programs: Radii over the detailed edgeMap, and nine that need nothing of it, each of which supposes its own `InputsOK`;
those that count neighbours, the three core programs and HyperBPath, are in Cores_proofs.
The balls of Radii and the components of ComponentsShortcut and HyperCC are one table, `CloseIn`: what lies within `k` edges. It grows with `k` until it
stops (`CloseStops`); a pigeonhole then shows that its last row is the least set that no edge leaves (`CloseIsClosed`), and a component where edges have no direction (`ComponentIsOne`).

*Radii.* `SearchesAreAlwaysInStep` and `RadiiAreAlwaysEccentricities`, on every graph, for all samples (several on one vertex as well) and in
either traversal. Let `S` be the samples whose bit survived the racy initialization and `Near(S, v, k)` those within `k` steps of `v`. During the call
of round `k + 1` the bits of `v` lie between `Near(S, v, k)` and `Near(S, v, k + 1)`: no search runs ahead, as `Visited` is left alone, and no bit is lost, as each
edge out of the frontier has an item (`Passed`). A vertex that got a bit has its radius set and one place in the output, or an `updateAtomic` past its
`writeOr` that has read the radius as it is, or still will, so that its CAS, or the one that makes it fail, does both (`Reached`, `Pushed`).
A vertex is thus in the next frontier once, and just when it got a bit. A front at distance `k` means a ball of more than `k` vertices (`FrontsAreFew`), so `k` stays below
`n`, and after an empty frontier nothing more is near (`FrontEnds`). As for BFS, no array is the null pointer.

*BellmanFord.* `NothingIsEverLost`: between two rounds every edge that can still lower its
target starts in the frontier, for any weighted graph. During a call such an edge is still to be taken, or under way with a
distance that is low enough, or its source has been reported or has a worker that will (`Kept`).
`DistancesAreAlwaysShortest`, for every finite graph with weights of either sign. After `r` rounds a distance is no more than the length of
the shortest walk of `r` edges; during a call each edge is still to be taken, in the hands of a worker, or done with (`Fast`).
Without a negative cycle the last row of the table of shortest walks is `Feasible`: no edge lowers it, so no relaxation gets below it, in
whatever order they come, and after `n` rounds nothing is lowered any more (`Exact`): the program does not answer minus infinity. If it ends with an
empty frontier, its own distances are feasible, by `NothingIsEverLost`. Then the table stops changing at `n - 1` edges (`FeasibleStops`, a pigeonhole:
a walk that went on changing it would use `n + 1` different vertices), and the distances are its last row: a negative cycle within reach is never missed.

*ComponentsShortcut.* `NoJumpLosesAnEdge` and `LabelsAreAlwaysMinimal`, for every symmetric graph. In the edgeMap each edge is still to be taken, under way with an ID no higher than its
source's was when the call began, or its target is as low as that (`InMap`). The filter replaces an ID by that of a vertex whose own ID may be replaced meanwhile; but an ID is never above its own vertex's number and always
of its component (`OwnID`), so a jump lowers and stays inside, and a vertex whose ID moved since `prevIDs` was set is kept (`InFilter`). With an empty frontier the IDs are equal along every edge.

*HyperCC.* `NoHyperedgeIsLost` and `HyperLabelsAreAlwaysMinimal`, for every symmetric hypergraph. While one side sends (`Sending`), a receiver whose ID differs from `prevIDs` has been
reported: the first writeMin that lowers it follows a read of the ID it still had, whatever the other workers compare. What was not reported still has `prevIDs` right (`Current`),
although only what the last call reported is copied; this covers both directions, and every ID is `UINT_E_MAX` or the number of a vertex of the component (`Labelled`).

*KCore.* `DegreesAreAlwaysInduced` and `CoresAreAlwaysRight`, for every symmetric graph without loops. The invariant `KCInv` counts: a vertex
still in has as degree its neighbours still in and the decrements still to come (`Counted`). So it stays positive until the last of them, and `cond`, which
reads it in the middle of the call, is true of exactly the vertices still in: none misses a decrement, and none that is out falls below zero, where
the filter's unsigned comparison would take it for a large degree. What is taken out in round `k` lies in the set the
round began with, all of whose vertices have `k - 1` neighbours in it (`Begun`), and in no set where all have `k` (`Peeled`).

*BucketKCore.* `BucketDegreesAreInduced` and `BucketCoresAreRight`, for every symmetric graph with fewer vertices than a `uintE` counts. Between two rounds the key of a vertex that waits
is the number of its neighbours that wait, but no less than the `k` of the last round (`BKDegrees`); so a key above `k` is a plain count, what `edgeMapCount` takes off is a part of it, and the
unsigned `deg - edgesRemoved` does not wrap. What waits holds every `(k + 1)`-core and lies in a `k`-core (`BKPeeled`): the first bucket is the new `k`, and those in it have it as their core number.

*HyperKCore.* `HyperDegreesAreAlwaysInduced` and `HyperCoresAreAlwaysRight`, for every symmetric hypergraph. A hyperedge is claimed once one of its vertices is out, by one CAS (`Claims`). A
vertex still in has a degree of at least its unclaimed hyperedges and the decrements still to come, and of exactly that many while it is `k` or more, as `cond` passes over a decrement only below `k`
(`Owing`). So two stale tests take a degree below `k` but never below what is owed, hence not below zero, where the filters' unsigned comparison would keep the vertex; and one that is out, with `k - 1` or less, is passed over.
The sets of a round are as in KCore (`HyperBegun`, `HyperPeeled`).

*HyperSSSP.* `NoHyperRelaxationIsLost` and `HyperDistancesUnlessGivenUp` (`DistancesUnlessGivenUpAlways` of `AllSpec`), for every finite hypergraph with weights of either sign. They do not
say that the search gives up only for a negative cycle, which is false. A call reads distances of one side and lowers those of
the other, and marks nodes of one side only, so that an index in Visited stands for one node at a time. After `c` calls no distance is below that of the walks of `c` edges (`Relaxing`): a frontier that is
empty before the loop gives up leaves distances that no edge lowers, which are no longer than any walk, hence equal to the shortest, and no longer walk is shorter (`Ended`).

*DeltaStepping.* `NoLoweredVertexIsForgotten` and `DeltaDistancesAreShortest`, for every `delta` and every finite graph with weights from 0 to some `W` with `|V| * W < INT_E_MAX`: larger ones could carry into the top bit, and
the code does not look. That no sum does is itself part of the invariant, since a distance may follow any path and not a shortest one: when `i` vertices have been reached none is farther than `(i - 1) * W`, as the next one is a
single edge away from one of them (`Small`). In a call the top bit is set exactly on what has been reported (`Marks`): a worker that saw it clear wins the CAS only if the word has not moved since, and one that lost, or saw it set,
lowers a vertex that is reported already (`Held`). An edge that can still lower its target starts at a vertex that waits in its bucket or has been reported, is still to be taken or is in hand (`Followed`).
With no bucket left the distances are those no edge lowers, and no sum was shorter than a path (`Long`).

*HyperBPath.* `HyperpathsAreAlwaysFound`, for every finite hypergraph, whichever traversal each round runs. A hyperedge not passed holds minus the number of its in-edges not yet counted: those whose source is not
visited, or is of the round under way and its edge still to be taken or answered (`Counts`). So neither the test nor the xadd ever meets a hyperedge that is counted out: each edge is counted once, the one that leaves none reports its hyperedge, and
no later count disturbs the parent stored in place of the number. What a round reports are the hyperedges with all in-vertices in this ball but not in the one before (`BPToH`), and where these lead is the next ball (`BPToV`). A round that
goes on adds a vertex, so the balls stop growing within `|V|` rounds, and the last one is that of the definition.

*AllPrograms.* `EveryResultIsExact`, `DistancesUnlessGivenUpAlways`, `NothingIsLostAnywhere` and `EveryCoreIsRight` follow from the theorems above, and `EveryParentIsShortest` and `EveryFrontierIsLevel` from those at the end of BFS, in the
way of `EveryDependencyIsExact`, over `AllSpec`. BFS is an instance inside AllPrograms, so its theorems are used through the instance, with their assumption on the graph. The two theorems of Radii are stated of `AllSpec` at once: what they say of
`Near` and `Front` is its own, and `synced` stays TRUE while another program runs (`NoSearchWaits`). The fairness of `AllSpec` is not used.

## What is only checked by TLC

* Everything about fairness: `Terminates`, `EveryProgramEnds`, `CallReturns`, `NextBucketReturns`.
* The codecs and the files, whose results are defined by recursion over lists. The library's induction theorems cannot be used here; where the
  proofs above need induction (the balls of BFS and Radii, the rows of distances, the offsets, the tables of walks) they make do with induction for a set (`SetInduction`).
* The fairness part of EdgeMapSpec.

## What is not modelled

* Floating point: PageRank, PageRankDelta, CF, HyperPageRank, and the diffusions of local clustering.
  The sums depend on the order of the additions and the loops end by a tolerance: no exact property holds.
* BFSCC, BFS-Bitvector, HyperBFS, Triangle and the eccentricity programs: the races are those of BFS
  and Radii, over other words and samples. HyperKCore-Efficient and KCore on histograms beyond what
  the histogram answers; `sequentialHT` and the histogram's blocks. KCoreSerial is sequential.
* The data word that `edgeMapData<E>` carries with a vertex, subsets with data, and the representations
  inside vertexMap and vertexFilter.
* The blocked implementations of scan, pack, filter, of the sorts and of the parallel
  `update_buckets`: their results are used.
* Heap blocks, so neither leaks (`nvmEdgeMap.h:221`) nor frees; the size of the
  persistent-memory file (`pmemmgr.h:28` only warns).
* Weak memory: each access to a shared word is atomic and the accesses of one worker
  are in program order, which is what the x86 this code names in its inline assembly
  gives for reads and for writes, except that a write may be delayed past a later read.
* The converters into the MESH format, generators (their output is a file as any other), the command line,
  timing, the tutorial (simplified copies of the programs) and the DAX example.
