------------------------------ MODULE NvmLoad ------------------------------
(***************************************************************************)
(* readNvmgraphFromFile (ligra/nvmIO.h): from the words of an adjacency    *)
(* file to the vertex records and the edge arrays, which live in a file of *)
(* persistent memory that PMemManager hands out by a bump allocator.  The  *)
(* DRAM reader of ligra/IO.h has the same control.  Each parallel_for has  *)
(* independent iterations and is one step; intSort is stable.              *)
(***************************************************************************)
EXTENDS Integers, FiniteSets, Sequences, FiniteSetTheorems, SequenceTheorems, WellFoundedInduction, TLAPS

CONSTANTS
  Files,       \* records [kind, symmetric, n, m, offsets, targets, words]: the file
               \* and, as symmetric, the -s option it is read with
  INT_T_MAX,   \* larger than every offset
  Page,                                          \* size of a page
  PtrSize, VertexSize, EdgeSize, PairSize, SumSize,  \* sizes of what is put there
  ScanBSize    \* _SCAN_BSIZE

ASSUME NvmLoadAssumption ==
  /\ ScanBSize \in Nat \ {0, 1} /\ Page \in Nat \ {0} /\ INT_T_MAX \in Nat
  /\ {PtrSize, VertexSize, EdgeSize, PairSize, SumSize} \subseteq Nat \ {0}
  /\ \A f \in Files : /\ f.symmetric \in BOOLEAN
                      /\ f.n \in Nat \ {0} /\ f.m \in Nat /\ INT_T_MAX > f.m
                      /\ ~f.symmetric => f.m > 0   \* temp[0] is read
                      /\ f.offsets \in [0 .. f.n - 1 -> 0 .. f.m]
                      /\ f.offsets[0] = 0
                      /\ \A i, j \in 0 .. f.n - 1 : i <= j => f.offsets[i] <= f.offsets[j]
                      /\ f.targets \in [0 .. f.m - 1 -> 0 .. f.n - 1]
                      /\ f.words \in Nat

VARIABLES
  file, pc,
  allocated, regions, unmapped,  \* the manager: next free byte, what was put where,
                                 \* and the bytes an interior pmem_unmap gave back
  v, e, inE,                     \* the graph
  largeVertex, temp, tOffsets,
  sums                           \* the block sums of the scans under way, outermost first
vars == <<file, pc, allocated, regions, unmapped, v, e, inE, largeVertex, temp, tOffsets, sums>>
memory == <<allocated, regions, unmapped>>

N == 0 .. file.n - 1
M == 0 .. file.m - 1
LeastOf(S) == CHOOSE x \in S : \A y \in S : x <= y

\* The start of the next vertex's edges, in a table of n offsets over m edges.
EndOf(off, i) == IF i = file.n - 1 THEN file.m ELSE off[i + 1]

Init == /\ file \in Files /\ pc = "words"
        /\ allocated = 0 /\ regions = <<>> /\ unmapped = {}
        /\ v = <<>> /\ e = <<>> /\ inE = <<>>
        /\ largeVertex = FALSE /\ temp = <<>> /\ tOffsets = <<>> /\ sums = <<>>

-----------------------------------------------------------------------------
\* PMemManager::allocate never refuses: past the end of the file it only warns, so
\* the size of the file is not part of the model.
Span(from, len) == from .. from + len - 1
Put(name, len) ==
  [x \in DOMAIN regions \cup {name} |->
     (IF x \in DOMAIN regions THEN regions[x] ELSE {})
       \cup (IF x = name THEN Span(allocated, len) ELSE {})]

\* Mutant: the next block starts on the last byte of this one.
AllocateOneShort(name, len) == allocated' = allocated + len - 1 /\ regions' = Put(name, len)

Allocate(name, len) == allocated' = allocated + len /\ regions' = Put(name, len)

ReadWords == /\ pc = "words"
             /\ Allocate("words", file.words * PtrSize)
             /\ pc' = IF file.kind = "AdjacencyGraph" /\ file.words - 1 = file.n + file.m + 2
                      THEN "vertices" ELSE "abort"
             /\ UNCHANGED <<file, unmapped, v, e, inE, largeVertex, temp, tOffsets, sums>>

\* newA may return NULL; the vertices then go to persistent memory too.
AllocateVertices ==
  /\ pc = "vertices" /\ pc' = "edges"
  /\ largeVertex' \in BOOLEAN
  /\ IF largeVertex' THEN Allocate("vertices", file.n * VertexSize)
     ELSE UNCHANGED <<allocated, regions>>
  /\ UNCHANGED <<file, unmapped, v, e, inE, temp, tOffsets, sums>>

ReadEdges ==
  /\ pc = "edges" /\ pc' = "out"
  /\ Allocate("edges", file.m * EdgeSize)
  /\ e' = [i \in M |-> [from |-> i, to |-> file.targets[i]]]
  /\ UNCHANGED <<file, unmapped, v, inE, largeVertex, temp, tOffsets, sums>>

SetOut ==
  /\ pc = "out" /\ pc' = IF file.symmetric THEN "done" ELSE "temp"
  /\ v' = [i \in N |-> LET o == file.offsets[i] IN
             [offset |-> o, outDegree |-> EndOf(file.offsets, i) - o, outNeighbors |-> o,
              inDegree |-> 0, inNeighbors |-> 0]]
  /\ UNCHANGED <<file, memory, e, inE, largeVertex, temp, tOffsets, sums>>

-----------------------------------------------------------------------------
(* The in-edges: pairs <<target, source>> sorted by target *)

FillTemp ==
  /\ pc = "temp" /\ pc' = "sort"
  /\ LET inLen == file.m * EdgeSize
         tempLen == file.m * PairSize
     IN  /\ allocated' = allocated + inLen + tempLen
         /\ regions' = [x \in DOMAIN regions \cup {"inEdges", "temp"} |->
                          CASE x = "inEdges" -> Span(allocated, inLen)
                            [] x = "temp"    -> Span(allocated + inLen, tempLen)
                            [] OTHER         -> regions[x]]
  /\ tOffsets' = [i \in N |-> INT_T_MAX]
  /\ temp' = [k \in M |->
       LET i == CHOOSE i \in N : v[i].offset <= k /\ k < v[i].offset + v[i].outDegree
       IN  <<e[k].to, i>>]
  /\ UNCHANGED <<file, unmapped, v, e, inE, largeVertex, sums>>

\* intSort::iSort on the targets, which keeps pairs of equal targets in order
Before(j, k) == temp[j][1] < temp[k][1] \/ (temp[j][1] = temp[k][1] /\ j < k)
Rank(k) == Cardinality({j \in M : Before(j, k)})
Sort == /\ pc = "sort" /\ pc' = "inEdges"
        /\ temp' = [i \in M |-> temp[CHOOSE k \in M : Rank(k) = i]]
        /\ UNCHANGED <<file, memory, v, e, inE, largeVertex, tOffsets, sums>>

\* Mutant: the first pair is not given to its target.
FirstAfterFirst(i) == i > 0 /\ temp[i][1] # temp[i - 1][1]

\* The first pair of each target gives the target's offset.
FirstOfTarget(i) == i = 0 \/ temp[i][1] # temp[i - 1][1]
SetInEdges ==
  /\ pc = "inEdges" /\ pc' = "scan"
  /\ inE' = [i \in M |-> [from |-> temp[i][1], to |-> temp[i][2]]]
  /\ tOffsets' = [t \in N |->
       LET firsts == {i \in M : FirstOfTarget(i) /\ temp[i][1] = t}
       IN  IF firsts = {} THEN tOffsets[t] ELSE LeastOf(firsts)]
  /\ UNCHANGED <<file, memory, v, e, largeVertex, temp, sums>>

\* The scan of the offsets, back with min.  With large vertices the block sums of the
\* scan, and of the scan of these sums, are put in persistent memory.
NBlocks(k) == 1 + (k - 1) \div ScanBSize
ScanSize == IF sums = <<>> THEN file.n ELSE sums[Len(sums)].blocks
InBlocks == largeVertex /\ NBlocks(ScanSize) > 2

PutSums ==
  /\ pc = "scan" /\ InBlocks
  /\ Allocate("sums", NBlocks(ScanSize) * SumSize)
  /\ sums' = Append(sums, [from |-> allocated, blocks |-> NBlocks(ScanSize)])
  /\ UNCHANGED <<file, pc, unmapped, v, e, inE, largeVertex, temp, tOffsets>>

ScanSerial == /\ pc = "scan" /\ ~InBlocks /\ pc' = "scanned"
              /\ UNCHANGED <<file, memory, v, e, inE, largeVertex, temp, tOffsets, sums>>

\* A scan unmaps its block sums when it is done with them, whole pages; munmap refuses
\* an address that does not start a page.
PagesOf(from, len) ==
  IF from % Page # 0 THEN {} ELSE Span(from, ((len + Page - 1) \div Page) * Page)

UnmapSums ==
  LET last == sums[Len(sums)] IN
  /\ pc = "scanned" /\ sums # <<>>
  /\ unmapped' = unmapped \cup PagesOf(last.from, last.blocks * SumSize)
  /\ sums' = SubSeq(sums, 1, Len(sums) - 1)
  /\ UNCHANGED <<file, pc, allocated, regions, v, e, inE, largeVertex, temp, tOffsets>>

\* Mutant: scanBack for scanIBack, which leaves the vertex's own offset out.
LeastFromNext(i) == LeastOf({tOffsets[j] : j \in i + 1 .. file.n - 1} \cup {file.m})

\* A vertex without in-edges takes the offset to its right, the last ones m.
LeastFrom(i) == LeastOf({tOffsets[j] : j \in i .. file.n - 1} \cup {file.m})

FillOffsets ==
  /\ pc = "scanned" /\ sums = <<>> /\ pc' = "in"
  /\ tOffsets' = [i \in N |-> LeastFrom(i)]
  /\ UNCHANGED <<file, memory, v, e, inE, largeVertex, temp, sums>>

SetIn ==
  /\ pc = "in" /\ pc' = "done"
  /\ v' = [i \in N |-> [v[i] EXCEPT !.inDegree = EndOf(tOffsets, i) - tOffsets[i],
                                    !.inNeighbors = tOffsets[i]]]
  /\ UNCHANGED <<file, memory, e, inE, largeVertex, temp, tOffsets, sums>>

Next == \/ ReadWords \/ AllocateVertices \/ ReadEdges \/ SetOut
        \/ FillTemp \/ Sort \/ SetInEdges
        \/ PutSums \/ ScanSerial \/ UnmapSums \/ FillOffsets \/ SetIn

Spec == Init /\ [][Next]_vars

-----------------------------------------------------------------------------
Neighbors(edges, base, degree) == [j \in 0 .. degree - 1 |-> edges[base + j].to]
OutOf(i) == Neighbors(e, v[i].outNeighbors, v[i].outDegree)
InOf(i)  == IF file.symmetric THEN OutOf(i) ELSE Neighbors(inE, v[i].inNeighbors, v[i].inDegree)
Times(f, x) == Cardinality({j \in DOMAIN f : f[j] = x})

\* The assumption the edge maps rest on (CSR, IsTranspose): an edge is seen as often
\* from its target as from its source, also for vertices without in-edges and for
\* repeated edges.
InIsTranspose ==
  pc = "done" /\ ~file.symmetric =>
    \A s, d \in N : Times(OutOf(s), d) = Times(InOf(d), s)

\* The edges that are vertex i's, as places in the edge arrays.
OutBlock(i) == Span(v[i].outNeighbors, v[i].outDegree)
InBlock(i)  == Span(v[i].inNeighbors, v[i].inDegree)

\* Each edge is in the block of just one vertex.
SplitsEdges(block) ==
  /\ \A i \in N : block[i] \subseteq M
  /\ \A k \in M : \E i \in N : k \in block[i] /\ \A j \in N \ {i} : k \notin block[j]

\* The graph has the edges of the file, and the vertices' blocks split them among the
\* vertices: the out-edges where the file's offsets say, the in-edges where the offsets
\* from the sorted pairs say, also around vertices without edges.
GraphIsFile ==
  pc = "done" =>
    /\ \A k \in M : e[k].to = file.targets[k]
    /\ \A i \in N : v[i].outNeighbors = file.offsets[i]
    /\ SplitsEdges([i \in N |-> OutBlock(i)])
    /\ ~file.symmetric => SplitsEdges([i \in N |-> InBlock(i)])

\* The graph's vertices and edges share no byte with anything else in persistent
\* memory, and unmapping the block sums takes no page that holds a byte of them.
GraphStaysMapped ==
  \A x \in DOMAIN regions \cap {"vertices", "edges", "inEdges"} :
    /\ regions[x] \cap unmapped = {}
    /\ \A y \in DOMAIN regions \ {x} : regions[x] \cap regions[y] = {}

-----------------------------------------------------------------------------
(* Memory.  The bump allocator never gives a byte twice, and what the scans *)
(* unmap lies behind the graph: they begin when its last array is allotted. *)
GraphRegions == {"vertices", "edges", "inEdges"}
Scanning == {"scan", "scanned", "in", "done"}

Apart == /\ allocated \in Nat
         /\ \A x \in DOMAIN regions : regions[x] \subseteq 0 .. allocated - 1
         /\ \A x, y \in DOMAIN regions : x # y => regions[x] \cap regions[y] = {}

Behind(rs, b) == \A x \in DOMAIN rs \cap GraphRegions : \A c \in rs[x] : c < b
Scan == [from : Nat, blocks : Nat \ {0}]

ScansBehind ==
  /\ sums \in Seq(Scan)
  /\ \A l \in 1 .. Len(sums) : Behind(regions, sums[l].from)
  /\ unmapped \subseteq Nat /\ \A b \in unmapped : Behind(regions, b)
  /\ pc \notin Scanning => sums = <<>> /\ unmapped = {}

MemInv == file \in Files /\ Apart /\ ScansBehind

LEMMA FileIs ==
  ASSUME file \in Files
  PROVE  /\ file.n \in Nat /\ file.n > 0 /\ file.m \in Nat
         /\ INT_T_MAX \in Nat /\ INT_T_MAX > file.m
         /\ file.symmetric \in BOOLEAN
         /\ N = 0 .. file.n - 1 /\ M = 0 .. file.m - 1
         /\ file.offsets \in [N -> 0 .. file.m] /\ file.offsets[0] = 0
         /\ \A i, j \in N : i <= j => file.offsets[i] <= file.offsets[j]
         /\ file.targets \in [M -> N]
         /\ (~file.symmetric => file.m > 0) /\ file.words \in Nat
  BY NvmLoadAssumption DEF N, M

LEMMA ProductIsNat == ASSUME NEW a \in Nat, NEW b \in Nat PROVE a * b \in Nat
  BY Z3

LEMMA Sizes ==
  ASSUME NEW k \in Nat
  PROVE  /\ k * PtrSize \in Nat /\ k * VertexSize \in Nat /\ k * EdgeSize \in Nat
         /\ k * PairSize \in Nat /\ k * SumSize \in Nat
<1>1. /\ PtrSize \in Nat /\ VertexSize \in Nat /\ EdgeSize \in Nat /\ PairSize \in Nat /\ SumSize \in Nat
  BY NvmLoadAssumption
<1> QED BY <1>1, ProductIsNat

\* A block put behind all the others keeps them apart.
LEMMA AllocateKeepsApart ==
  ASSUME Apart, NEW name, NEW len \in Nat, Allocate(name, len)
  PROVE  /\ Apart' /\ allocated <= allocated'
         /\ DOMAIN regions' = DOMAIN regions \cup {name}
         /\ \A x \in DOMAIN regions : x # name => regions'[x] = regions[x]
         /\ \A c \in regions'[name] :
              allocated <= c \/ (name \in DOMAIN regions /\ c \in regions[name])
<1>1. allocated' = allocated + len /\ allocated \in Nat /\ allocated' \in Nat
  BY DEF Allocate, Apart
<1>2. /\ DOMAIN regions' = DOMAIN regions \cup {name}
      /\ \A x \in DOMAIN regions : x # name => regions'[x] = regions[x]
      /\ \A c \in regions'[name] : c \in Span(allocated, len) \/ (name \in DOMAIN regions /\ c \in regions[name])
  BY DEF Allocate, Put
<1>3. \A c \in Span(allocated, len) : c \in Int /\ allocated <= c /\ c <= allocated' - 1
  BY <1>1 DEF Span
<1>4. ASSUME NEW x \in DOMAIN regions' PROVE regions'[x] \subseteq 0 .. allocated' - 1
  <2>1. ASSUME NEW c, c \in 0 .. allocated - 1 PROVE c \in 0 .. allocated' - 1
    BY <1>1, <2>1
  <2>2. CASE x # name
    BY <1>2, <2>1, <2>2 DEF Apart
  <2>3. CASE x = name
    <3> SUFFICES ASSUME NEW c \in regions'[name] PROVE c \in 0 .. allocated' - 1
      BY <2>3
    <3>1. CASE c \in Span(allocated, len)
      BY <1>1, <1>3, <3>1
    <3>2. CASE name \in DOMAIN regions /\ c \in regions[name]
      BY <2>1, <3>2 DEF Apart
    <3> QED BY <1>2, <3>1, <3>2
  <2> QED BY <2>2, <2>3
<1>5. ASSUME NEW x \in DOMAIN regions, x # name PROVE regions'[x] \cap regions'[name] = {}
  <2> SUFFICES ASSUME NEW c, c \in regions[x], c \in regions'[name] PROVE FALSE
    BY <1>2, <1>5
  <2>1. c \in Int /\ c <= allocated - 1
    BY <1>1 DEF Apart
  <2>2. c \notin Span(allocated, len)
    BY <1>1, <1>3, <2>1
  <2> QED BY <1>2, <1>5, <2>2 DEF Apart
<1>6. \A x, y \in DOMAIN regions' : x # y => regions'[x] \cap regions'[y] = {}
  <2> SUFFICES ASSUME NEW x \in DOMAIN regions', NEW y \in DOMAIN regions', x # y
               PROVE  regions'[x] \cap regions'[y] = {}
    OBVIOUS
  <2>1. CASE x # name /\ y # name
    BY <1>2, <2>1 DEF Apart
  <2>2. CASE x = name \/ y = name
    BY <1>2, <1>5, <2>2
  <2> QED BY <2>1, <2>2
<1>7. \A c \in regions'[name] : allocated <= c \/ (name \in DOMAIN regions /\ c \in regions[name])
  BY <1>2, <1>3
<1> QED BY <1>1, <1>2, <1>4, <1>6, <1>7 DEF Apart

\* Nothing of the graph lies behind what is handed out next.
LEMMA AllocatedIsBehind == Apart => Behind(regions, allocated)
  BY DEF Apart, Behind

LEMMA PagesLieBehind ==
  ASSUME NEW from \in Nat, NEW len \in Nat
  PROVE  PagesOf(from, len) \subseteq Nat /\ \A b \in PagesOf(from, len) : from <= b
<1> DEFINE q == (len + Page - 1) \div Page
<1>1. Page \in Int /\ Page > 0
  BY NvmLoadAssumption
<1>2. q \in Int
  BY <1>1, Z3
<1> HIDE DEF q
<1>3. q * Page \in Int
  BY <1>1, <1>2, Z3
<1> QED BY <1>3 DEF PagesOf, Span, q

LEMMA BlocksAreNat ==
  ASSUME NEW k \in Nat, k > 0
  PROVE  NBlocks(k) \in Nat /\ NBlocks(k) > 0
<1>1. ScanBSize \in Int /\ ScanBSize > 0
  BY NvmLoadAssumption
<1>2. (k - 1) \div ScanBSize \in Int /\ (k - 1) \div ScanBSize >= 0
  BY <1>1, Z3
<1> QED BY <1>2 DEF NBlocks

\* An action that allots a part of the graph, or anything else before the scans.
LEMMA AllotKeepsMemInv ==
  ASSUME MemInv, file' = file, sums' = sums, unmapped' = unmapped, pc \notin Scanning, Apart'
  PROVE  MemInv'
<1>1. sums' = <<>> /\ unmapped' = {}
  BY DEF MemInv, ScansBehind
<1>2. ScansBehind'
  BY <1>1 DEF ScansBehind
<1> QED BY <1>2 DEF MemInv

LEMMA FillTempKeepsApart == Apart /\ file \in Files /\ FillTemp => Apart'
<1> SUFFICES ASSUME Apart, file \in Files, FillTemp PROVE Apart'
  OBVIOUS
<1> DEFINE inLen == file.m * EdgeSize
           tempLen == file.m * PairSize
<1>1. inLen \in Nat /\ tempLen \in Nat
  BY FileIs, Sizes
<1>2. /\ allocated' = allocated + inLen + tempLen
      /\ regions' = [x \in DOMAIN regions \cup {"inEdges", "temp"} |->
                       CASE x = "inEdges" -> Span(allocated, inLen)
                         [] x = "temp"    -> Span(allocated + inLen, tempLen)
                         [] OTHER         -> regions[x]]
  BY DEF FillTemp
<1> HIDE DEF inLen, tempLen
<1>3. allocated \in Nat /\ allocated' \in Nat
  BY <1>1, <1>2 DEF Apart
<1>4. \A c \in Span(allocated, inLen) : c \in Int /\ allocated <= c /\ c <= allocated + inLen - 1
  BY <1>1, <1>3 DEF Span
<1>5. \A c \in Span(allocated + inLen, tempLen) : c \in Int /\ allocated + inLen <= c /\ c <= allocated' - 1
  BY <1>1, <1>2, <1>3 DEF Span
<1>6. /\ DOMAIN regions' = DOMAIN regions \cup {"inEdges", "temp"}
      /\ regions'["inEdges"] = Span(allocated, inLen) /\ regions'["temp"] = Span(allocated + inLen, tempLen)
      /\ \A x \in DOMAIN regions \ {"inEdges", "temp"} : regions'[x] = regions[x]
  BY <1>2
<1>7. \A x \in DOMAIN regions \ {"inEdges", "temp"} : \A c \in regions'[x] : c \in Int /\ 0 <= c /\ c <= allocated - 1
  BY <1>3, <1>6 DEF Apart
<1>8. ASSUME NEW x \in DOMAIN regions' PROVE regions'[x] \subseteq 0 .. allocated' - 1
  <2> SUFFICES ASSUME NEW c \in regions'[x] PROVE c \in Int /\ 0 <= c /\ c <= allocated' - 1
    BY <1>3
  <2>1. CASE x = "inEdges"
    BY <1>1, <1>2, <1>3, <1>4, <1>6, <2>1
  <2>2. CASE x = "temp"
    BY <1>1, <1>3, <1>5, <1>6, <2>2
  <2>3. CASE x \notin {"inEdges", "temp"}
    BY <1>1, <1>2, <1>3, <1>6, <1>7, <2>3
  <2> QED BY <2>1, <2>2, <2>3
<1>9. regions'["inEdges"] \cap regions'["temp"] = {}
  BY <1>1, <1>3, <1>4, <1>5, <1>6
<1>10. ASSUME NEW x \in DOMAIN regions \ {"inEdges", "temp"}
       PROVE  regions'[x] \cap regions'["inEdges"] = {} /\ regions'[x] \cap regions'["temp"] = {}
  <2>1. \A c \in regions'[x] : c \notin Span(allocated, inLen)
    BY <1>3, <1>4, <1>7
  <2>2. \A c \in regions'[x] : c \notin Span(allocated + inLen, tempLen)
    BY <1>1, <1>3, <1>5, <1>7
  <2> QED BY <1>6, <2>1, <2>2
<1>11. \A x, y \in DOMAIN regions \ {"inEdges", "temp"} : x # y => regions'[x] \cap regions'[y] = {}
  BY <1>6 DEF Apart
<1>12. \A x, y \in DOMAIN regions' : x # y => regions'[x] \cap regions'[y] = {}
  <2> SUFFICES ASSUME NEW x \in DOMAIN regions', NEW y \in DOMAIN regions', x # y
               PROVE  regions'[x] \cap regions'[y] = {}
    OBVIOUS
  <2>1. CASE x \notin {"inEdges", "temp"}
    BY <1>6, <1>10, <1>11, <2>1
  <2>2. CASE y \notin {"inEdges", "temp"}
    BY <1>6, <1>10, <1>11, <2>2
  <2>3. CASE x \in {"inEdges", "temp"} /\ y \in {"inEdges", "temp"}
    BY <1>9, <2>3
  <2> QED BY <2>1, <2>2, <2>3
<1> QED BY <1>3, <1>8, <1>12 DEF Apart

LEMMA SequenceIs ==
  ASSUME NEW T, NEW s \in Seq(T)
  PROVE  /\ Len(s) \in Nat /\ \A l \in 1 .. Len(s) : s[l] \in T
         /\ s # <<>> => Len(s) \in 1 .. Len(s)
         /\ \A x \in T : /\ Append(s, x) \in Seq(T) /\ Len(Append(s, x)) = Len(s) + 1
                         /\ \A l \in 1 .. Len(s) + 1 : Append(s, x)[l] = IF l = Len(s) + 1 THEN x ELSE s[l]
         /\ s # <<>> => LET f == SubSeq(s, 1, Len(s) - 1) IN
              f \in Seq(T) /\ Len(f) = Len(s) - 1 /\ \A l \in 1 .. Len(s) - 1 : f[l] = s[l]
<1>1. Len(s) \in Nat /\ \A l \in 1 .. Len(s) : s[l] \in T
  OBVIOUS
<1>2. s # <<>> => Len(s) \in 1 .. Len(s)
  BY EmptySeq
<1>3. ASSUME NEW x \in T
      PROVE  /\ Append(s, x) \in Seq(T) /\ Len(Append(s, x)) = Len(s) + 1
             /\ \A l \in 1 .. Len(s) + 1 : Append(s, x)[l] = IF l = Len(s) + 1 THEN x ELSE s[l]
  BY AppendProperties
<1>4. ASSUME s # <<>>
      PROVE  LET f == SubSeq(s, 1, Len(s) - 1) IN
               f \in Seq(T) /\ Len(f) = Len(s) - 1 /\ \A l \in 1 .. Len(s) - 1 : f[l] = s[l]
  <2>1. /\ Len(s) - 1 \in Int /\ 1 \in Int /\ Len(s) >= 1
        /\ \A l \in 1 .. Len(s) - 1 : s[l] \in T
    BY <1>1, <1>2, <1>4
  <2> DEFINE h == Len(s) - 1
             f == SubSeq(s, 1, h)
  <2> HIDE DEF h
  <2>2. /\ f \in Seq(T) /\ Len(f) = IF 1 <= h THEN h - 1 + 1 ELSE 0
        /\ \A l \in 1 .. h - 1 + 1 : f[l] = s[1 + l - 1]
    BY <2>1, SubSeqProperties DEF h
  <2>3. h \in Nat /\ h - 1 + 1 = h /\ \A l \in 1 .. h : 1 + l - 1 = l
    BY <2>1 DEF h
  <2>4. Len(f) = h /\ \A l \in 1 .. h : f[l] = s[l]
    BY <2>2, <2>3
  <2> QED BY <2>2, <2>4 DEF h
<1> QED BY <1>1, <1>2, <1>3, <1>4

LEMMA PutSumsKeepsMemInv == MemInv /\ PutSums => MemInv'
<1> SUFFICES ASSUME MemInv, PutSums PROVE MemInv'
  OBVIOUS
<1> DEFINE k == NBlocks(ScanSize)
<1>1. /\ pc = "scan" /\ pc' = pc /\ file' = file /\ unmapped' = unmapped
      /\ Allocate("sums", k * SumSize)
      /\ sums' = Append(sums, [from |-> allocated, blocks |-> k])
  BY DEF PutSums
<1>2. sums \in Seq(Scan) /\ file \in Files
  BY DEF MemInv, ScansBehind
<1>3. ScanSize \in Nat /\ ScanSize > 0
  <2>1. CASE sums = <<>>
    BY <1>2, <2>1, FileIs DEF ScanSize
  <2>2. CASE sums # <<>>
    <3>1. sums[Len(sums)] \in Scan
      BY <1>2, <2>2, SequenceIs
    <3> QED BY <2>2, <3>1 DEF ScanSize, Scan
  <2> QED BY <2>1, <2>2
<1>4. k \in Nat \ {0}
  BY <1>3, BlocksAreNat
<1> HIDE DEF k
<1>5. k * SumSize \in Nat
  BY <1>4, Sizes
<1>6. Apart' /\ \A x \in DOMAIN regions' \cap GraphRegions : x \in DOMAIN regions /\ regions'[x] = regions[x]
  <2>1. /\ Apart' /\ DOMAIN regions' = DOMAIN regions \cup {"sums"}
        /\ \A x \in DOMAIN regions : x # "sums" => regions'[x] = regions[x]
    BY <1>1, <1>5, AllocateKeepsApart DEF MemInv
  <2> QED BY <2>1 DEF GraphRegions
<1>7. \A b : Behind(regions, b) => Behind(regions', b)
  BY <1>6 DEF Behind
<1>8. allocated \in Nat /\ Behind(regions, allocated)
  BY AllocatedIsBehind DEF MemInv, Apart
<1>9. /\ sums' \in Seq(Scan) /\ Len(sums') = Len(sums) + 1 /\ Len(sums) \in Nat
      /\ \A l \in 1 .. Len(sums) + 1 :
           sums'[l] = IF l = Len(sums) + 1 THEN [from |-> allocated, blocks |-> k] ELSE sums[l]
  <2>1. [from |-> allocated, blocks |-> k] \in Scan
    BY <1>4, <1>8 DEF Scan
  <2> QED BY <1>1, <1>2, <2>1, SequenceIs
<1>10. ASSUME NEW l \in 1 .. Len(sums') PROVE Behind(regions', sums'[l].from)
  <2>1. CASE l = Len(sums) + 1
    BY <1>7, <1>8, <1>9, <2>1
  <2>2. CASE l # Len(sums) + 1
    <3>1. l \in 1 .. Len(sums) /\ sums'[l] = sums[l]
      BY <1>9, <2>2
    <3> QED BY <1>7, <3>1 DEF MemInv, ScansBehind
  <2> QED BY <2>1, <2>2
<1>11. \A b \in unmapped' : Behind(regions', b)
  BY <1>1, <1>7 DEF MemInv, ScansBehind
<1> QED BY <1>1, <1>2, <1>6, <1>9, <1>10, <1>11 DEF MemInv, ScansBehind, Scanning

LEMMA UnmapSumsKeepsMemInv == MemInv /\ UnmapSums => MemInv'
<1> SUFFICES ASSUME MemInv, UnmapSums PROVE MemInv'
  OBVIOUS
<1> DEFINE last == sums[Len(sums)]
           len == last.blocks * SumSize
<1>1. /\ pc = "scanned" /\ pc' = pc /\ sums # <<>> /\ UNCHANGED <<file, allocated, regions>>
      /\ unmapped' = unmapped \cup PagesOf(last.from, len)
      /\ sums' = SubSeq(sums, 1, Len(sums) - 1)
  BY DEF UnmapSums
<1>2. sums \in Seq(Scan) /\ Len(sums) \in 1 .. Len(sums) /\ sums[Len(sums)] \in Scan
  BY <1>1, SequenceIs DEF MemInv, ScansBehind
<1>3. last.from \in Nat /\ last.blocks \in Nat /\ Behind(regions, last.from)
  BY <1>2 DEF MemInv, ScansBehind, Scan
<1>4. len \in Nat
  BY <1>3, Sizes
<1> HIDE DEF last, len
<1>5. /\ sums' \in Seq(Scan)
      /\ \A l \in 1 .. Len(sums') : l \in 1 .. Len(sums) /\ sums'[l] = sums[l]
  <2>1. /\ sums' \in Seq(Scan) /\ Len(sums) \in Nat /\ Len(sums') = Len(sums) - 1
        /\ \A l \in 1 .. Len(sums) - 1 : sums'[l] = sums[l]
    BY <1>1, <1>2, SequenceIs
  <2> QED BY <2>1
<1>6. Apart' /\ regions' = regions
  BY <1>1 DEF MemInv, Apart
<1>7. ASSUME NEW b \in PagesOf(last.from, len) PROVE b \in Nat /\ Behind(regions, b)
  <2>1. b \in Nat /\ last.from <= b
    BY <1>3, <1>4, PagesLieBehind
  <2>2. ASSUME NEW x \in DOMAIN regions \cap GraphRegions, NEW c \in regions[x] PROVE c < b
    <3>1. c \in Int /\ c < last.from
      BY <1>3 DEF MemInv, Apart, Behind
    <3> QED BY <1>3, <2>1, <3>1
  <2> QED BY <2>1, <2>2 DEF Behind
<1>8. unmapped' \subseteq Nat /\ \A b \in unmapped' : Behind(regions, b)
  BY <1>1, <1>7 DEF MemInv, ScansBehind
<1>9. \A l \in 1 .. Len(sums') : Behind(regions, sums'[l].from)
  BY <1>5 DEF MemInv, ScansBehind
<1>10. (\A b \in unmapped' : Behind(regions', b)) /\ \A l \in 1 .. Len(sums') : Behind(regions', sums'[l].from)
  BY <1>1, <1>8, <1>9
<1> QED BY <1>1, <1>5, <1>6, <1>8, <1>10 DEF MemInv, ScansBehind, Scanning

LEMMA MemInvariant == Spec => []MemInv
<1>1. Init => MemInv
  BY DEF Init, MemInv, Apart, ScansBehind, Behind, Scanning
<1>2. ASSUME MemInv, [Next]_vars PROVE MemInv'
  <2>0. file \in Files /\ Apart /\ file.n \in Nat /\ file.m \in Nat
    BY <1>2, FileIs DEF MemInv
  <2>1. CASE ReadWords
    <3>1. file.words * PtrSize \in Nat
      BY <2>0, FileIs, Sizes
    <3> QED BY <1>2, <2>0, <2>1, <3>1, AllocateKeepsApart, AllotKeepsMemInv DEF ReadWords, Scanning
  <2>2. CASE AllocateVertices
    <3>1. file.n * VertexSize \in Nat
      BY <2>0, Sizes
    <3>2. Apart'
      <4>1. CASE Allocate("vertices", file.n * VertexSize)
        BY <2>0, <3>1, <4>1, AllocateKeepsApart
      <4>2. CASE UNCHANGED <<allocated, regions>>
        BY <2>0, <4>2 DEF Apart
      <4> QED BY <2>2, <4>1, <4>2 DEF AllocateVertices
    <3> QED BY <1>2, <2>2, <3>2, AllotKeepsMemInv DEF AllocateVertices, Scanning
  <2>3. CASE ReadEdges
    <3>1. file.m * EdgeSize \in Nat
      BY <2>0, Sizes
    <3> QED BY <1>2, <2>0, <2>3, <3>1, AllocateKeepsApart, AllotKeepsMemInv DEF ReadEdges, Scanning
  <2>4. CASE SetOut
    <3>1. Apart'
      BY <2>0, <2>4 DEF SetOut, memory, Apart
    <3> QED BY <1>2, <2>4, <3>1, AllotKeepsMemInv DEF SetOut, memory, Scanning
  <2>5. CASE FillTemp
    BY <1>2, <2>0, <2>5, FillTempKeepsApart, AllotKeepsMemInv DEF FillTemp, Scanning
  <2>6. CASE Sort
    BY <1>2, <2>6 DEF Sort, memory, MemInv, Apart, ScansBehind, Behind, Scanning
  <2>7. CASE SetInEdges
    BY <1>2, <2>7 DEF SetInEdges, memory, MemInv, Apart, ScansBehind, Behind, Scanning
  <2>8. CASE PutSums
    BY <1>2, <2>8, PutSumsKeepsMemInv
  <2>9. CASE ScanSerial
    BY <1>2, <2>9 DEF ScanSerial, memory, MemInv, Apart, ScansBehind, Behind, Scanning
  <2>10. CASE UnmapSums
    BY <1>2, <2>10, UnmapSumsKeepsMemInv
  <2>11. CASE FillOffsets
    BY <1>2, <2>11 DEF FillOffsets, memory, MemInv, Apart, ScansBehind, Behind, Scanning
  <2>12. CASE SetIn
    BY <1>2, <2>12 DEF SetIn, memory, MemInv, Apart, ScansBehind, Behind, Scanning
  <2>13. CASE UNCHANGED vars
    BY <1>2, <2>13 DEF vars, memory, MemInv, Apart, ScansBehind, Behind, Scanning
  <2> QED BY <1>2, <2>1, <2>2, <2>3, <2>4, <2>5, <2>6, <2>7, <2>8, <2>9, <2>10, <2>11, <2>12, <2>13 DEF Next
<1> QED BY <1>1, <1>2, PTL DEF Spec

\* The graph keeps its memory: for files of any size and block sums of any depth, no
\* allocation overlaps the vertices and the edges, and the whole pages that the scans
\* unmap begin behind them.
THEOREM GraphAlwaysStaysMapped == Spec => []GraphStaysMapped
<1>1. MemInv => GraphStaysMapped
  <2> SUFFICES ASSUME MemInv, NEW x \in DOMAIN regions \cap GraphRegions
               PROVE  /\ regions[x] \cap unmapped = {}
                      /\ \A y \in DOMAIN regions \ {x} : regions[x] \cap regions[y] = {}
    BY DEF GraphStaysMapped, GraphRegions
  <2>1. ASSUME NEW b, b \in regions[x], b \in unmapped PROVE FALSE
    <3>1. b \in Int /\ b < b
      BY <2>1 DEF MemInv, Apart, ScansBehind, Behind
    <3> QED BY <3>1
  <2>2. \A y \in DOMAIN regions \ {x} : regions[x] \cap regions[y] = {}
    BY DEF MemInv, Apart
  <2> QED BY <2>1, <2>2
<1> QED BY <1>1, MemInvariant, PTL

-----------------------------------------------------------------------------
(* The graph.  A table of offsets gives each edge to one vertex; the pairs  *)
(* are the file's edges, as often as the file has them; once they are       *)
(* sorted, the first place of a target and the offsets filled in from the   *)
(* right bound its pairs.                                                   *)
Own(off, i) == off[i] .. EndOf(off, i) - 1
Table(off) == /\ off \in [N -> 0 .. file.m] /\ off[0] = 0
              /\ \A i, j \in N : i <= j => off[i] <= off[j]

GotEdges == {"out", "temp", "sort", "inEdges", "scan", "scanned", "in", "done"}
GotOut == GotEdges \ {"out"}
GotPairs == GotOut \ {"temp"}
VertexRecord == [offset : Int, outDegree : Int, outNeighbors : Int, inDegree : Int, inNeighbors : Int]

EdgesRead == e \in [M -> [from : M, to : N]] /\ \A k \in M : e[k].to = file.targets[k]
OutIsSet == /\ v \in [N -> VertexRecord]
            /\ \A i \in N : /\ v[i].offset = file.offsets[i] /\ v[i].outNeighbors = file.offsets[i]
                           /\ v[i].outDegree = EndOf(file.offsets, i) - file.offsets[i]
\* The places of a table that hold x.
Places(t, x) == {k \in M : t[k] = x}

PairsKept == /\ temp \in [M -> N \X N]
             /\ \A d, s \in N : Cardinality(Places(temp, <<d, s>>)) =
                  Cardinality({k \in M : file.targets[k] = d /\ k \in Own(file.offsets, s)})
Sorted == \A i, j \in M : i <= j => temp[i][1] <= temp[j][1]
PairsTaken == inE = [i \in M |-> [from |-> temp[i][1], to |-> temp[i][2]]]
FirstsAreSet ==
  \A t \in N : \/ /\ tOffsets[t] \in M /\ temp[tOffsets[t]][1] = t
                   /\ \A i \in M : temp[i][1] = t => tOffsets[t] <= i
                \/ /\ tOffsets[t] = INT_T_MAX
                   /\ \A i \in M : temp[i][1] # t
OffsetsBound == /\ tOffsets \in [N -> 0 .. file.m]
                /\ \A t \in N, i \in M : i < tOffsets[t] <=> temp[i][1] < t
InIsSet == \A i \in N : /\ v[i].inNeighbors = tOffsets[i]
                        /\ v[i].inDegree = EndOf(tOffsets, i) - tOffsets[i]

LoadInv ==
  /\ file \in Files
  /\ pc \in GotEdges => EdgesRead
  /\ pc \in GotOut => OutIsSet
  /\ pc \in GotOut \ {"done"} => ~file.symmetric
  /\ ~file.symmetric =>
       /\ pc \in GotPairs => PairsKept
       /\ pc \in GotPairs \ {"sort"} => Sorted
       /\ pc \in {"sort", "inEdges"} => tOffsets = [i \in N |-> INT_T_MAX]
       /\ pc \in {"scan", "scanned", "in", "done"} => PairsTaken
       /\ pc \in {"scan", "scanned"} => tOffsets \in [N -> Nat] /\ FirstsAreSet
       /\ pc \in {"in", "done"} => OffsetsBound
       /\ pc = "done" => InIsSet

LEMMA LeastMember ==
  ASSUME NEW S \in SUBSET Nat, S # {}
  PROVE  LeastOf(S) \in S /\ \A y \in S : LeastOf(S) <= y
<1> DEFINE R == {ss \in Nat \X Nat : ss[1] < ss[2]}
<1>1. IsWellFoundedOn(R, Nat)
  BY NatLessThanWellFounded DEF OpToRel
<1>2. \A x, y \in Nat : y < x => <<y, x>> \in R
  OBVIOUS
<1> HIDE DEF R
<1>3. PICK x \in S : \A y \in S : <<y, x>> \notin R
  BY <1>1, WFMin
<1>4. \A y \in S : ~(y < x) /\ y \in Nat /\ x \in Nat
  BY <1>2, <1>3
<1>5. \E z \in S : \A y \in S : z <= y
  BY <1>4
<1> QED BY <1>5 DEF LeastOf

\* A table of offsets gives each edge to one vertex.
LEMMA TableSplits ==
  ASSUME file \in Files, NEW off, Table(off)
  PROVE  /\ \A i \in N : off[i] \in Nat /\ EndOf(off, i) \in Nat /\ off[i] <= EndOf(off, i) /\ EndOf(off, i) <= file.m
         /\ \A i \in N : Own(off, i) \subseteq M
         /\ \A k \in M : \E i \in N : k \in Own(off, i)
         /\ \A i, j \in N : i # j => Own(off, i) \cap Own(off, j) = {}
<1>1. /\ file.n \in Nat /\ file.n > 0 /\ file.m \in Nat
      /\ N = 0 .. file.n - 1 /\ M = 0 .. file.m - 1
  BY FileIs
<1>2. off \in [N -> 0 .. file.m] /\ off[0] = 0 /\ \A i, j \in N : i <= j => off[i] <= off[j]
  BY DEF Table
<1>3. ASSUME NEW i \in N
      PROVE  /\ off[i] \in Nat /\ EndOf(off, i) \in Nat /\ off[i] <= EndOf(off, i) /\ EndOf(off, i) <= file.m
             /\ \A j \in N : i < j => EndOf(off, i) <= off[j]
  <2>1. CASE i = file.n - 1
    BY <1>1, <1>2, <2>1 DEF EndOf
  <2>2. CASE i # file.n - 1
    <3>1. i + 1 \in N /\ EndOf(off, i) = off[i + 1]
      BY <1>1, <2>2 DEF EndOf
    <3>2. \A j \in N : i < j => i + 1 <= j
      BY <1>1
    <3> QED BY <1>1, <1>2, <3>1, <3>2
  <2> QED BY <2>1, <2>2
<1>4. ASSUME NEW i \in N PROVE Own(off, i) \subseteq M
  BY <1>1, <1>3 DEF Own
<1>5. ASSUME NEW k \in M PROVE \E i \in N : k \in Own(off, i)
  <2> DEFINE S == {i \in N : k < EndOf(off, i)}
  <2>1. S \in SUBSET Nat /\ file.n - 1 \in S
    BY <1>1 DEF EndOf
  <2> DEFINE l == LeastOf(S)
  <2>2. l \in S /\ \A y \in S : l <= y
    BY <2>1, LeastMember
  <2> HIDE DEF l
  <2>3. off[l] <= k
    <3>1. CASE l = 0
      BY <1>1, <1>2, <3>1
    <3>2. CASE l # 0
      <4>1. l - 1 \in N /\ l - 1 \notin S
        BY <1>1, <2>2, <3>2
      <4>2. EndOf(off, l - 1) = off[l] /\ EndOf(off, l - 1) \in Nat
        BY <1>1, <1>3, <2>2, <4>1 DEF EndOf
      <4> QED BY <1>1, <4>1, <4>2
    <3> QED BY <3>1, <3>2
  <2> QED BY <1>1, <1>3, <2>2, <2>3 DEF Own
<1>6. ASSUME NEW i \in N, NEW j \in N, i < j PROVE Own(off, i) \cap Own(off, j) = {}
  BY <1>1, <1>3, <1>6 DEF Own
<1>7. ASSUME NEW i \in N, NEW j \in N, i # j PROVE Own(off, i) \cap Own(off, j) = {}
  <2>1. i < j \/ j < i
    BY <1>1, <1>7
  <2> QED BY <1>6, <2>1
<1> QED BY <1>3, <1>4, <1>5, <1>7

LEMMA FileTable == file \in Files => Table(file.offsets)
  BY FileIs DEF Table

LEMMA BlockIsOwn ==
  ASSUME NEW a \in Int, NEW b \in Int
  PROVE  Span(a, b - a) = a .. b - 1
<1>1. a + (b - a) - 1 = b - 1
  OBVIOUS
<1> QED BY <1>1 DEF Span

LEMMA TableSplitsEdges ==
  ASSUME file \in Files, NEW off, Table(off)
  PROVE  SplitsEdges([i \in N |-> Own(off, i)])
  BY TableSplits DEF SplitsEdges

LEMMA MIsFinite == file \in Files => IsFiniteSet(M) /\ \A S \in SUBSET M : IsFiniteSet(S)
<1> SUFFICES ASSUME file \in Files PROVE IsFiniteSet(M) /\ \A S \in SUBSET M : IsFiniteSet(S)
  OBVIOUS
<1>1. 0 \in Int /\ file.m - 1 \in Int
  BY FileIs
<1>2. IsFiniteSet(M)
  BY <1>1, FS_Interval DEF M
<1> QED BY <1>2, FS_Subset

LEMMA FillTempPairs ==
  ASSUME file \in Files, EdgesRead, OutIsSet, FillTemp
  PROVE  PairsKept'
<1>1. file' = file /\ N' = N /\ M' = M
  BY DEF FillTemp, N, M
<1>2. M = 0 .. file.m - 1 /\ \A i \in N : file.offsets[i] \in Nat /\ EndOf(file.offsets, i) \in Nat
  BY FileIs, FileTable, TableSplits
<1>3. ASSUME NEW k \in M, NEW i \in N
      PROVE  (v[i].offset <= k /\ k < v[i].offset + v[i].outDegree) <=> k \in Own(file.offsets, i)
  <2>1. /\ v[i].offset = file.offsets[i] /\ v[i].outDegree = EndOf(file.offsets, i) - file.offsets[i]
        /\ k \in Int /\ file.offsets[i] \in Int /\ EndOf(file.offsets, i) \in Int
    BY <1>2 DEF OutIsSet
  <2> QED BY <2>1 DEF Own
<1> DEFINE own(k) == CHOOSE i \in N : v[i].offset <= k /\ k < v[i].offset + v[i].outDegree
<1>4. \A k \in M : own(k) \in N /\ \A s \in N : k \in Own(file.offsets, s) <=> s = own(k)
  <2> SUFFICES ASSUME NEW k \in M
               PROVE  own(k) \in N /\ \A s \in N : k \in Own(file.offsets, s) <=> s = own(k)
    OBVIOUS
  <2>1. PICK i \in N : k \in Own(file.offsets, i)
    BY FileTable, TableSplits
  <2>2. \A s \in N : k \in Own(file.offsets, s) => s = i
    BY <2>1, FileTable, TableSplits
  <2>3. own(k) = i
    <3>1. \A s \in N : (v[s].offset <= k /\ k < v[s].offset + v[s].outDegree) <=> s = i
      BY <1>3, <2>1, <2>2
    <3> QED BY <3>1
  <2> QED BY <2>1, <2>2, <2>3
<1>5. temp' = [k \in M |-> <<e[k].to, own(k)>>]
  BY DEF FillTemp
<1> HIDE DEF own
<1>6. \A k \in M : e[k].to = file.targets[k] /\ file.targets[k] \in N
  BY FileIs DEF EdgesRead
<1>7. temp' \in [M -> N \X N]
  BY <1>4, <1>5, <1>6
<1>8. ASSUME NEW d \in N, NEW s \in N
      PROVE  Places(temp', <<d, s>>) = {k \in M : file.targets[k] = d /\ k \in Own(file.offsets, s)}
  BY <1>4, <1>5, <1>6 DEF Places
<1>9. temp' \in [M -> N \X N] /\ \A d, s \in N : Cardinality(Places(temp', <<d, s>>)) =
        Cardinality({k \in M : file.targets[k] = d /\ k \in Own(file.offsets, s)})
  BY <1>7, <1>8
<1> QED BY ONLY <1>1, <1>9 DEF PairsKept, Places, Own, EndOf, N, M

\* The rank is a permutation of the places: no two pairs come at the same place.
LEMMA RankIsPermutation ==
  ASSUME file \in Files, temp \in [M -> N \X N]
  PROVE  /\ \A k \in M : Rank(k) \in M
         /\ \A j, k \in M : Before(j, k) => Rank(j) < Rank(k)
         /\ \A i \in M : \E k \in M : Rank(k) = i
<1>1. /\ file.m \in Nat /\ M = 0 .. file.m - 1 /\ file.n \in Nat /\ N = 0 .. file.n - 1
      /\ IsFiniteSet(M) /\ \A S \in SUBSET M : IsFiniteSet(S)
  BY FileIs, MIsFinite
<1>2. \A k \in M : k \in Int /\ temp[k][1] \in Int
  BY <1>1
<1> DEFINE Below(k) == {j \in M : Before(j, k)}
<1>3. \A k \in M : Below(k) \subseteq M /\ IsFiniteSet(Below(k)) /\ k \notin Below(k)
  BY <1>1, <1>2 DEF Before
<1>4. \A k \in M : Rank(k) = Cardinality(Below(k))
  BY DEF Rank
<1>5. ASSUME NEW j \in M, NEW k \in M, Before(j, k)
      PROVE  Below(j) \subseteq Below(k) /\ j \in Below(k)
  <2>1. ASSUME NEW i \in M, Before(i, j) PROVE Before(i, k)
    <3>1. temp[i][1] \in Int /\ temp[j][1] \in Int /\ temp[k][1] \in Int /\ i \in Int /\ j \in Int /\ k \in Int
      BY <1>2
    <3> QED BY <1>5, <2>1, <3>1 DEF Before
  <2> QED BY <1>5, <2>1
<1>6. \A j, k \in M : j = k \/ Before(j, k) \/ Before(k, j)
  BY <1>2 DEF Before
<1> HIDE DEF Below
<1>7. ASSUME NEW k \in M PROVE Rank(k) \in M
  <2>1. Cardinality(M) = file.m
    <3>1. 0 \in Int /\ file.m - 1 \in Int
      BY <1>1
    <3> QED BY <1>1, <3>1, FS_Interval
  <2>2. IsFiniteSet(M \ {k}) /\ Cardinality(M \ {k}) = file.m - 1
    <3>1. IsFiniteSet(M) /\ k \in M
      BY <1>1
    <3> QED BY ONLY <2>1, <3>1, FS_RemoveElement
  <2>3. Below(k) \in SUBSET (M \ {k})
    BY <1>3
  <2>4. Cardinality(Below(k)) <= file.m - 1
    BY <2>2, <2>3, FS_Subset
  <2>5. Cardinality(Below(k)) \in Nat
    BY <1>3, FS_CardinalityType
  <2> QED BY <1>1, <1>4, <2>4, <2>5
<1>8. ASSUME NEW j \in M, NEW k \in M, Before(j, k) PROVE Rank(j) < Rank(k)
  <2>1. Below(j) \in SUBSET Below(k) /\ j \in Below(k) /\ j \notin Below(j) /\ IsFiniteSet(Below(k))
    BY <1>3, <1>5, <1>8
  <2>2. Cardinality(Below(j)) <= Cardinality(Below(k)) /\ Cardinality(Below(k)) # Cardinality(Below(j))
    BY <2>1, FS_Subset
  <2>3. Rank(j) \in Int /\ Rank(k) \in Int
    BY <1>1, <1>7
  <2> QED BY <1>4, <2>2, <2>3
<1>9. ASSUME NEW i \in M PROVE \E k \in M : Rank(k) = i
  <2> DEFINE f == [k \in M |-> Rank(k)]
  <2>1. f \in Injection(M, M)
    <3>1. f \in [M -> M]
      BY <1>7
    <3>2. \A j, k \in M : f[j] = f[k] => j = k
      <4> SUFFICES ASSUME NEW j \in M, NEW k \in M, Rank(j) = Rank(k) PROVE j = k
        OBVIOUS
      <4>1. Rank(j) \in Int /\ Rank(k) \in Int
        BY <1>1, <1>7
      <4> QED BY <1>6, <1>8, <4>1
    <3> QED BY <3>1, <3>2 DEF Injection, IsInjective
  <2> HIDE DEF f
  <2>2. f \in Surjection(M, M)
    BY <1>1, <2>1, FS_Injection
  <2>3. \E k \in M : f[k] = i
    BY <2>2 DEF Surjection
  <2> QED BY <2>3 DEF f
<1> QED BY <1>7, <1>8, <1>9

\* As many places hold a pair after a permutation of the places.
LEMMA PermutationKeepsCount ==
  ASSUME file \in Files, NEW p \in [M -> M], \A i, j \in M : p[i] = p[j] => i = j, NEW t, NEW x
  PROVE  Cardinality(Places([i \in M |-> t[p[i]]], x)) = Cardinality(Places(t, x))
<1> DEFINE S == Places([i \in M |-> t[p[i]]], x)
           T == Places(t, x)
           g == [i \in S |-> p[i]]
<1>1. IsFiniteSet(M) /\ IsFiniteSet(S) /\ IsFiniteSet(T)
  BY MIsFinite DEF Places
<1>2. p \in Surjection(M, M)
  <2>1. p \in Injection(M, M)
    BY DEF Injection, IsInjective
  <2> QED BY <1>1, <2>1, FS_Injection
<1>3. g \in [S -> T] /\ \A i, j \in S : g[i] = g[j] => i = j
  BY DEF Places
<1>4. \A k \in T : \E i \in S : g[i] = k
  BY <1>2 DEF Surjection, Places
<1> HIDE DEF S, T, g
<1>5. g \in Bijection(S, T)
  BY <1>3, <1>4 DEF Bijection, Injection, Surjection, IsInjective
<1>6. ExistsBijection(S, T)
  BY <1>5 DEF ExistsBijection
<1> QED BY <1>1, <1>6, FS_Bijection DEF S, T

LEMMA SortSorts ==
  ASSUME file \in Files, PairsKept, Sort
  PROVE  PairsKept' /\ Sorted'
<1>1. file' = file /\ N' = N /\ M' = M
  BY DEF Sort, N, M
<1>2. /\ file.m \in Nat /\ M = 0 .. file.m - 1 /\ file.n \in Nat /\ N = 0 .. file.n - 1
      /\ temp \in [M -> N \X N]
  BY FileIs DEF PairsKept
<1> DEFINE p == [i \in M |-> CHOOSE k \in M : Rank(k) = i]
<1>3. \A i \in M : p[i] \in M /\ Rank(p[i]) = i
  BY <1>2, RankIsPermutation
<1>4. temp' = [i \in M |-> temp[p[i]]] /\ p \in [M -> M]
  BY <1>3 DEF Sort
<1> HIDE DEF p
<1>5. \A i, j \in M : p[i] = p[j] => i = j
  BY <1>3
<1>6. temp' \in [M -> N \X N]
  BY <1>2, <1>4
<1>7. ASSUME NEW d \in N, NEW s \in N
      PROVE  Cardinality(Places(temp', <<d, s>>)) =
             Cardinality({k \in M : file.targets[k] = d /\ k \in Own(file.offsets, s)})
  BY <1>4, <1>5, PermutationKeepsCount DEF PairsKept
<1>8. PairsKept'
  <2>1. temp' \in [M -> N \X N] /\ \A d, s \in N : Cardinality(Places(temp', <<d, s>>)) =
          Cardinality({k \in M : file.targets[k] = d /\ k \in Own(file.offsets, s)})
    BY <1>6, <1>7
  <2> QED BY ONLY <1>1, <2>1 DEF PairsKept, Places, Own, EndOf, N, M
<1>9. ASSUME NEW i \in M, NEW j \in M, i <= j PROVE temp'[i][1] <= temp'[j][1]
  <2>1. p[i] \in M /\ p[j] \in M /\ Rank(p[i]) = i /\ Rank(p[j]) = j /\ i \in Int /\ j \in Int
    BY <1>2, <1>3
  <2>2. ~Before(p[j], p[i])
    <3>1. Before(p[j], p[i]) => Rank(p[j]) < Rank(p[i])
      BY <1>2, <2>1, RankIsPermutation
    <3> QED BY <1>9, <2>1, <3>1
  <2>3. temp[p[i]][1] \in Int /\ temp[p[j]][1] \in Int
    BY <1>2, <2>1
  <2> QED BY <1>4, <2>2, <2>3 DEF Before
<1>10. Sorted'
  BY <1>1, <1>9 DEF Sorted
<1> QED BY <1>8, <1>10

LEMMA SetInEdgesSetsFirsts ==
  ASSUME file \in Files, PairsKept, tOffsets = [i \in N |-> INT_T_MAX], SetInEdges
  PROVE  PairsTaken' /\ tOffsets' \in [N -> Nat] /\ FirstsAreSet'
<1>1. file' = file /\ temp' = temp /\ N' = N /\ M' = M
  BY DEF SetInEdges, N, M
<1>2. /\ file.m \in Nat /\ M = 0 .. file.m - 1 /\ file.n \in Nat /\ N = 0 .. file.n - 1
      /\ temp \in [M -> N \X N] /\ INT_T_MAX \in Nat
  BY FileIs DEF PairsKept
<1> DEFINE firsts(t) == {i \in M : FirstOfTarget(i) /\ temp[i][1] = t}
           all(t) == {i \in M : temp[i][1] = t}
<1>3. \A t \in N : tOffsets'[t] = IF firsts(t) = {} THEN INT_T_MAX ELSE LeastOf(firsts(t))
  BY DEF SetInEdges
<1>4. tOffsets' = [t \in N |-> tOffsets'[t]] /\ inE' = [i \in M |-> [from |-> temp[i][1], to |-> temp[i][2]]]
  BY DEF SetInEdges
<1>5. ASSUME NEW t \in N, all(t) # {}
      PROVE  LeastOf(all(t)) \in firsts(t) /\ \A i \in all(t) : LeastOf(all(t)) <= i
  <2>1. all(t) \in SUBSET Nat
    BY <1>2
  <2> DEFINE l == LeastOf(all(t))
  <2>2. l \in all(t) /\ \A i \in all(t) : l <= i
    BY <1>5, <2>1, LeastMember
  <2> HIDE DEF l
  <2>3. l \in M /\ temp[l][1] = t /\ \A i \in M : temp[i][1] = t => l <= i
    BY <2>2
  <2>4. FirstOfTarget(l)
    <3>1. CASE l = 0
      BY <3>1 DEF FirstOfTarget
    <3>2. CASE l # 0
      <4>1. l - 1 \in M /\ ~(l <= l - 1)
        BY <1>2, <2>3, <3>2
      <4> QED BY <2>3, <4>1 DEF FirstOfTarget
    <3> QED BY <3>1, <3>2
  <2> QED BY <2>2, <2>3, <2>4 DEF l
<1>6. \A t \in N : firsts(t) \subseteq all(t) /\ firsts(t) \in SUBSET Nat /\ all(t) \subseteq M
  BY <1>2
<1>7. ASSUME NEW t \in N, firsts(t) # {}
      PROVE  tOffsets'[t] \in all(t) /\ \A i \in all(t) : tOffsets'[t] <= i
  <2> DEFINE l == LeastOf(all(t))
             x == LeastOf(firsts(t))
  <2>1. x \in firsts(t) /\ \A y \in firsts(t) : x <= y
    BY <1>6, <1>7, LeastMember
  <2>2. l \in firsts(t) /\ \A i \in all(t) : l <= i
    BY <1>5, <1>6, <1>7
  <2>3. tOffsets'[t] = x
    BY <1>3, <1>7
  <2> HIDE DEF x, l, firsts, all
  <2>4. x <= l /\ x \in Nat /\ l \in Nat /\ x \in all(t)
    BY <1>6, <2>1, <2>2
  <2>5. \A i \in all(t) : i \in Nat
    BY <1>2, <1>6
  <2> QED BY <2>2, <2>3, <2>4, <2>5
<1>8. ASSUME NEW t \in N, firsts(t) = {}
      PROVE  tOffsets'[t] = INT_T_MAX /\ all(t) = {}
  BY <1>3, <1>5, <1>8
<1>9. tOffsets' \in [N -> Nat]
  <2>1. \A t \in N : tOffsets'[t] \in Nat
    BY <1>2, <1>6, <1>7, <1>8
  <2> HIDE DEF firsts, all
  <2> QED BY <1>4, <2>1
<1>10. \A t \in N : \/ /\ tOffsets'[t] \in M /\ temp[tOffsets'[t]][1] = t
                       /\ \A i \in M : temp[i][1] = t => tOffsets'[t] <= i
                    \/ /\ tOffsets'[t] = INT_T_MAX
                       /\ \A i \in M : temp[i][1] # t
  BY <1>7, <1>8
<1>11. FirstsAreSet'
  BY ONLY <1>1, <1>10 DEF FirstsAreSet
<1>12. PairsTaken'
  BY ONLY <1>1, <1>4 DEF PairsTaken
<1> QED BY <1>9, <1>11, <1>12

LEMMA FillOffsetsBounds ==
  ASSUME file \in Files, temp \in [M -> N \X N], Sorted, tOffsets \in [N -> Nat], FirstsAreSet, FillOffsets
  PROVE  OffsetsBound'
<1>1. file' = file /\ temp' = temp /\ N' = N /\ M' = M /\ tOffsets' = [i \in N |-> LeastFrom(i)]
  BY DEF FillOffsets, N, M
<1>2. /\ file.m \in Nat /\ M = 0 .. file.m - 1 /\ file.n \in Nat /\ N = 0 .. file.n - 1
      /\ INT_T_MAX \in Nat /\ INT_T_MAX > file.m
  BY FileIs
<1>3. ASSUME NEW t \in N
      PROVE  LeastFrom(t) \in 0 .. file.m /\ \A k \in M : k < LeastFrom(t) <=> temp[k][1] < t
  <2> DEFINE S == {tOffsets[j] : j \in t .. file.n - 1} \cup {file.m}
             l == LeastOf(S)
  <2>1. \A j \in t .. file.n - 1 : j \in N /\ tOffsets[j] \in Nat
    BY <1>2
  <2>2. S \in SUBSET Nat /\ file.m \in S
    BY <1>2, <2>1
  <2>3. l \in S /\ \A y \in S : l <= y
    BY <2>2, LeastMember
  <2>4. l = LeastFrom(t)
    BY DEF LeastFrom
  <2>5. (l = file.m \/ \E j \in t .. file.n - 1 : l = tOffsets[j]) /\ l <= file.m
        /\ \A j \in t .. file.n - 1 : l <= tOffsets[j]
    BY <2>3
  <2>6. l \in Nat
    BY <2>2, <2>3
  <2> HIDE DEF S, l
  <2>7. ASSUME NEW k \in M PROVE k < l <=> temp[k][1] < t
    <3>1. k \in Nat /\ k < file.m /\ temp[k][1] \in N /\ temp[k][1] \in Int /\ t \in Int
      BY <1>2
    <3>2. ASSUME k < l, ~(temp[k][1] < t) PROVE FALSE
      <4>1. temp[k][1] \in t .. file.n - 1
        BY <1>2, <3>1, <3>2
      <4>2. l <= tOffsets[temp[k][1]]
        BY <2>5, <4>1
      <4>3. tOffsets[temp[k][1]] <= k /\ tOffsets[temp[k][1]] \in Nat
        BY <3>1 DEF FirstsAreSet
      <4> QED BY <2>6, <3>1, <3>2, <4>2, <4>3
    <3>3. ASSUME temp[k][1] < t, ~(k < l) PROVE FALSE
      <4>1. l # file.m
        BY <3>1, <3>3
      <4>2. PICK j \in t .. file.n - 1 : l = tOffsets[j]
        BY <2>5, <4>1
      <4>3. j \in N /\ j \in Int /\ t <= j
        BY <1>2
      <4>4. l \in M /\ temp[l][1] = j
        BY <1>2, <2>5, <4>2, <4>3 DEF FirstsAreSet
      <4>5. temp[l][1] <= temp[k][1]
        BY <2>6, <3>1, <3>3, <4>4 DEF Sorted
      <4> QED BY <3>1, <3>3, <4>3, <4>4, <4>5
    <3> QED BY <3>2, <3>3
  <2> QED BY <2>4, <2>5, <2>6, <2>7, <1>2
<1>4. tOffsets' \in [N -> 0 .. file.m] /\ \A t \in N, i \in M : i < tOffsets'[t] <=> temp[i][1] < t
  BY <1>1, <1>3
<1> QED BY ONLY <1>1, <1>4 DEF OffsetsBound

LEMMA OffsetsMakeTable ==
  ASSUME file \in Files, ~file.symmetric, temp \in [M -> N \X N], OffsetsBound
  PROVE  Table(tOffsets) /\ \A t \in N : Own(tOffsets, t) = {k \in M : temp[k][1] = t}
<1>1. /\ file.m \in Nat /\ file.m > 0 /\ M = 0 .. file.m - 1
      /\ file.n \in Nat /\ file.n > 0 /\ N = 0 .. file.n - 1
  BY FileIs
<1>2. \A t \in N : tOffsets[t] \in Nat /\ tOffsets[t] <= file.m
  BY <1>1 DEF OffsetsBound
<1>3. \A k \in M : temp[k][1] \in Int /\ temp[k][1] >= 0 /\ temp[k][1] <= file.n - 1
  BY <1>1
<1>4. tOffsets[0] = 0
  <2>1. 0 \in N /\ 0 \in M /\ ~(temp[0][1] < 0)
    BY <1>1, <1>3
  <2>2. ~(0 < tOffsets[0])
    BY <2>1 DEF OffsetsBound
  <2> QED BY <1>2, <2>1, <2>2
<1>5. ASSUME NEW i \in N, NEW j \in N, i <= j PROVE tOffsets[i] <= tOffsets[j]
  <2> SUFFICES ASSUME tOffsets[j] < tOffsets[i] PROVE FALSE
    BY <1>2
  <2>1. tOffsets[j] \in M
    BY <1>1, <1>2
  <2>2. temp[tOffsets[j]][1] < i
    BY <2>1 DEF OffsetsBound
  <2>3. temp[tOffsets[j]][1] < j
    BY <1>1, <1>3, <1>5, <2>1, <2>2
  <2>4. tOffsets[j] < tOffsets[j]
    BY <2>1, <2>3 DEF OffsetsBound
  <2> QED BY <1>2, <2>4
<1>6. Table(tOffsets)
  BY <1>4, <1>5 DEF Table, OffsetsBound
<1>7. ASSUME NEW t \in N, NEW k \in M PROVE k \in Own(tOffsets, t) <=> temp[k][1] = t
  <2>1. k < tOffsets[t] <=> temp[k][1] < t
    BY DEF OffsetsBound
  <2>2. /\ k \in Int /\ t \in Int /\ temp[k][1] \in Int /\ temp[k][1] <= file.n - 1
        /\ tOffsets[t] \in Int /\ EndOf(tOffsets, t) \in Int /\ k < file.m
    BY <1>1, <1>3, <1>6, TableSplits
  <2>3. k < EndOf(tOffsets, t) <=> temp[k][1] <= t
    <3>1. CASE t = file.n - 1
      BY <2>2, <3>1 DEF EndOf
    <3>2. CASE t # file.n - 1
      <4>1. t + 1 \in N /\ EndOf(tOffsets, t) = tOffsets[t + 1]
        BY <1>1, <3>2 DEF EndOf
      <4>2. k < tOffsets[t + 1] <=> temp[k][1] < t + 1
        BY <4>1 DEF OffsetsBound
      <4> QED BY <2>2, <4>1, <4>2
    <3> QED BY <3>1, <3>2
  <2> QED BY <2>1, <2>2, <2>3 DEF Own
<1>8. \A t \in N : Own(tOffsets, t) \subseteq M
  BY <1>6, TableSplits
<1> QED BY <1>6, <1>7, <1>8

LEMMA SetOutSets ==
  ASSUME file \in Files, SetOut
  PROVE  OutIsSet'
<1>1. /\ file' = file /\ N' = N
      /\ v' = [i \in N |-> [offset |-> file.offsets[i], outDegree |-> EndOf(file.offsets, i) - file.offsets[i],
                            outNeighbors |-> file.offsets[i], inDegree |-> 0, inNeighbors |-> 0]]
  BY DEF SetOut, N
<1>2. \A i \in N : file.offsets[i] \in Int /\ EndOf(file.offsets, i) \in Int
  BY FileTable, TableSplits
<1>3. /\ v' \in [N -> VertexRecord]
      /\ \A i \in N : /\ v'[i].offset = file.offsets[i] /\ v'[i].outNeighbors = file.offsets[i]
                      /\ v'[i].outDegree = EndOf(file.offsets, i) - file.offsets[i]
  BY <1>1, <1>2 DEF VertexRecord
<1> QED BY ONLY <1>1, <1>3 DEF OutIsSet, EndOf, N

LEMMA SetInSets ==
  ASSUME file \in Files, ~file.symmetric, OutIsSet, temp \in [M -> N \X N], OffsetsBound, SetIn
  PROVE  OutIsSet' /\ InIsSet'
<1>1. /\ file' = file /\ N' = N /\ tOffsets' = tOffsets
      /\ v' = [i \in N |-> [v[i] EXCEPT !.inDegree = EndOf(tOffsets, i) - tOffsets[i],
                                        !.inNeighbors = tOffsets[i]]]
  BY DEF SetIn, N
<1>2. \A i \in N : tOffsets[i] \in Int /\ EndOf(tOffsets, i) \in Int /\ EndOf(tOffsets, i) - tOffsets[i] \in Int
  BY OffsetsMakeTable, TableSplits
<1>3. ASSUME NEW i \in N
      PROVE  /\ v'[i] \in VertexRecord /\ v'[i].offset = v[i].offset /\ v'[i].outNeighbors = v[i].outNeighbors
             /\ v'[i].outDegree = v[i].outDegree
             /\ v'[i].inNeighbors = tOffsets[i] /\ v'[i].inDegree = EndOf(tOffsets, i) - tOffsets[i]
  BY <1>1, <1>2 DEF OutIsSet, VertexRecord
<1>4. /\ v' \in [N -> VertexRecord]
      /\ \A i \in N : /\ v'[i].offset = file.offsets[i] /\ v'[i].outNeighbors = file.offsets[i]
                      /\ v'[i].outDegree = EndOf(file.offsets, i) - file.offsets[i]
      /\ \A i \in N : /\ v'[i].inNeighbors = tOffsets[i]
                      /\ v'[i].inDegree = EndOf(tOffsets, i) - tOffsets[i]
  BY <1>1, <1>3 DEF OutIsSet
<1>5. file' = file /\ N' = N /\ tOffsets' = tOffsets
  BY <1>1
<1>6. OutIsSet'
  BY ONLY <1>4, <1>5 DEF OutIsSet, EndOf
<1>7. InIsSet'
  BY ONLY <1>4, <1>5 DEF InIsSet, EndOf
<1> QED BY <1>6, <1>7

LEMMA ReadEdgesReads ==
  ASSUME file \in Files, ReadEdges
  PROVE  EdgesRead'
<1>1. file' = file /\ M' = M /\ N' = N /\ e' = [i \in M |-> [from |-> i, to |-> file.targets[i]]]
  BY DEF ReadEdges, M, N
<1>2. e' \in [M -> [from : M, to : N]] /\ \A k \in M : e'[k].to = file.targets[k]
  BY <1>1, FileIs
<1> QED BY ONLY <1>1, <1>2 DEF EdgesRead, M, N

\* What each part of the invariant depends on.
LEMMA WhatPartsReadIs ==
  ASSUME file' = file
  PROVE  /\ N' = N /\ M' = M
         /\ e' = e => (EdgesRead' <=> EdgesRead)
         /\ v' = v => (OutIsSet' <=> OutIsSet)
         /\ temp' = temp => (PairsKept' <=> PairsKept) /\ (Sorted' <=> Sorted)
         /\ temp' = temp /\ inE' = inE => (PairsTaken' <=> PairsTaken)
         /\ temp' = temp /\ tOffsets' = tOffsets => (FirstsAreSet' <=> FirstsAreSet) /\ (OffsetsBound' <=> OffsetsBound)
         /\ v' = v /\ tOffsets' = tOffsets => (InIsSet' <=> InIsSet)
<1>1. N' = N /\ M' = M
  BY DEF N, M
<1>2. e' = e => (EdgesRead' <=> EdgesRead)
  BY <1>1 DEF EdgesRead
<1>3. v' = v => (OutIsSet' <=> OutIsSet)
  BY <1>1 DEF OutIsSet, EndOf
<1>4. temp' = temp => (Sorted' <=> Sorted)
  BY <1>1 DEF Sorted
<1>5. ASSUME temp' = temp PROVE PairsKept' <=> PairsKept
  <2>1. file' = file /\ N' = N /\ M' = M /\ temp' = temp
    BY <1>1, <1>5
  <2> QED BY ONLY <2>1 DEF PairsKept, Places, Own, EndOf, N, M
<1>6. temp' = temp /\ inE' = inE => (PairsTaken' <=> PairsTaken)
  BY <1>1 DEF PairsTaken
<1>7. temp' = temp /\ tOffsets' = tOffsets => (FirstsAreSet' <=> FirstsAreSet)
  BY <1>1 DEF FirstsAreSet
<1>8. temp' = temp /\ tOffsets' = tOffsets => (OffsetsBound' <=> OffsetsBound)
  BY <1>1 DEF OffsetsBound
<1>9. v' = v /\ tOffsets' = tOffsets => (InIsSet' <=> InIsSet)
  BY <1>1 DEF InIsSet, EndOf
<1> QED BY <1>1, <1>2, <1>3, <1>4, <1>5, <1>6, <1>7, <1>8, <1>9

LEMMA LoadInvariant == Spec => []LoadInv
<1> USE DEF GotEdges, GotOut, GotPairs
<1>1. Init => LoadInv
  BY DEF Init, LoadInv
<1>2. ASSUME LoadInv, [Next]_vars PROVE LoadInv'
  <2>0. file \in Files /\ file.symmetric \in BOOLEAN
    BY <1>2, FileIs DEF LoadInv
  <2>1. CASE ReadWords
    BY <1>2, <2>0, <2>1 DEF ReadWords, LoadInv
  <2>2. CASE AllocateVertices
    BY <1>2, <2>0, <2>2 DEF AllocateVertices, LoadInv
  <2>3. CASE ReadEdges
    <3>1. EdgesRead' /\ pc' = "out" /\ file' = file
      BY <2>0, <2>3, ReadEdgesReads DEF ReadEdges
    <3> QED BY <2>0, <3>1 DEF LoadInv
  <2>4. CASE SetOut
    <3>1. /\ OutIsSet' /\ pc = "out" /\ pc' = (IF file.symmetric THEN "done" ELSE "temp")
          /\ file' = file /\ e' = e
      BY <2>0, <2>4, SetOutSets DEF SetOut
    <3>2. EdgesRead'
      BY <1>2, <3>1, WhatPartsReadIs DEF LoadInv
    <3> QED BY <2>0, <3>1, <3>2 DEF LoadInv
  <2>5. CASE FillTemp
    <3>1. /\ pc = "temp" /\ pc' = "sort" /\ file' = file /\ e' = e /\ v' = v
          /\ tOffsets' = [i \in N |-> INT_T_MAX]
      BY <2>5 DEF FillTemp
    <3>2. EdgesRead /\ OutIsSet /\ ~file.symmetric
      BY <1>2, <3>1 DEF LoadInv
    <3>3. EdgesRead' /\ OutIsSet' /\ PairsKept' /\ N' = N
      BY <2>0, <2>5, <3>1, <3>2, WhatPartsReadIs, FillTempPairs
    <3> QED BY <2>0, <3>1, <3>2, <3>3 DEF LoadInv
  <2>6. CASE Sort
    <3>1. pc = "sort" /\ pc' = "inEdges" /\ file' = file /\ e' = e /\ v' = v /\ tOffsets' = tOffsets
      BY <2>6 DEF Sort
    <3>2. EdgesRead /\ OutIsSet /\ ~file.symmetric /\ PairsKept /\ tOffsets = [i \in N |-> INT_T_MAX]
      BY <1>2, <3>1 DEF LoadInv
    <3>3. EdgesRead' /\ OutIsSet' /\ PairsKept' /\ Sorted' /\ N' = N
      BY <2>0, <2>6, <3>1, <3>2, WhatPartsReadIs, SortSorts
    <3> QED BY <2>0, <3>1, <3>2, <3>3 DEF LoadInv
  <2>7. CASE SetInEdges
    <3>1. pc = "inEdges" /\ pc' = "scan" /\ file' = file /\ e' = e /\ v' = v /\ temp' = temp
      BY <2>7 DEF SetInEdges
    <3>2. EdgesRead /\ OutIsSet /\ ~file.symmetric /\ PairsKept /\ Sorted /\ tOffsets = [i \in N |-> INT_T_MAX]
      BY <1>2, <3>1 DEF LoadInv
    <3>3. EdgesRead' /\ OutIsSet' /\ PairsKept' /\ Sorted' /\ N' = N
      BY <3>1, <3>2, WhatPartsReadIs
    <3>4. PairsTaken' /\ tOffsets' \in [N' -> Nat] /\ FirstsAreSet'
      BY <2>0, <2>7, <3>2, <3>3, SetInEdgesSetsFirsts
    <3> QED BY <2>0, <3>1, <3>2, <3>3, <3>4 DEF LoadInv
  <2>8. CASE PutSums \/ ScanSerial \/ UnmapSums
    <3>1. /\ pc \in {"scan", "scanned"} /\ pc' \in {"scan", "scanned"}
          /\ UNCHANGED <<file, e, v, inE, temp, tOffsets>>
      BY <2>8 DEF PutSums, ScanSerial, UnmapSums
    <3>2. /\ EdgesRead /\ OutIsSet /\ ~file.symmetric /\ PairsKept /\ Sorted /\ PairsTaken
          /\ tOffsets \in [N -> Nat] /\ FirstsAreSet
      BY <1>2, <3>1 DEF LoadInv
    <3>3. /\ EdgesRead' /\ OutIsSet' /\ PairsKept' /\ Sorted' /\ PairsTaken'
          /\ tOffsets' \in [N' -> Nat] /\ FirstsAreSet'
      BY <3>1, <3>2, WhatPartsReadIs
    <3> QED BY <2>0, <3>1, <3>2, <3>3 DEF LoadInv
  <2>9. CASE FillOffsets
    <3>1. pc = "scanned" /\ pc' = "in" /\ UNCHANGED <<file, e, v, inE, temp>>
      BY <2>9 DEF FillOffsets
    <3>2. /\ EdgesRead /\ OutIsSet /\ ~file.symmetric /\ PairsKept /\ Sorted /\ PairsTaken
          /\ tOffsets \in [N -> Nat] /\ FirstsAreSet
      BY <1>2, <3>1 DEF LoadInv
    <3>3. EdgesRead' /\ OutIsSet' /\ PairsKept' /\ Sorted' /\ PairsTaken'
      BY <3>1, <3>2, WhatPartsReadIs
    <3>4. OffsetsBound'
      BY <2>0, <2>9, <3>2, FillOffsetsBounds DEF PairsKept
    <3> QED BY <2>0, <3>1, <3>2, <3>3, <3>4 DEF LoadInv
  <2>10. CASE SetIn
    <3>1. pc = "in" /\ pc' = "done" /\ UNCHANGED <<file, e, inE, temp, tOffsets>>
      BY <2>10 DEF SetIn
    <3>2. EdgesRead /\ OutIsSet /\ ~file.symmetric /\ PairsKept /\ Sorted /\ PairsTaken /\ OffsetsBound
      BY <1>2, <3>1 DEF LoadInv
    <3>3. EdgesRead' /\ PairsKept' /\ Sorted' /\ PairsTaken' /\ OffsetsBound'
      BY <3>1, <3>2, WhatPartsReadIs
    <3>4. OutIsSet' /\ InIsSet'
      BY <2>0, <2>10, <3>2, SetInSets DEF PairsKept
    <3> QED BY <2>0, <3>1, <3>2, <3>3, <3>4 DEF LoadInv
  <2>11. CASE UNCHANGED vars
    <3>1. UNCHANGED <<pc, file, e, v, inE, temp, tOffsets>>
      BY <2>11 DEF vars
    <3> QED BY <1>2, <3>1, WhatPartsReadIs DEF LoadInv
  <2> QED BY <1>2, <2>1, <2>2, <2>3, <2>4, <2>5, <2>6, <2>7, <2>8, <2>9, <2>10, <2>11 DEF Next
<1> QED BY <1>1, <1>2, PTL DEF Spec

\* The graph is the file's: for every file, every edge lies in the block of just one
\* vertex, in the out-edges where the file's offsets say and in the in-edges where the
\* offsets that the reader computes say.
THEOREM GraphIsAlwaysFile == Spec => []GraphIsFile
<1>1. LoadInv => GraphIsFile
  <2> SUFFICES ASSUME LoadInv, pc = "done"
               PROVE  /\ \A k \in M : e[k].to = file.targets[k]
                      /\ \A i \in N : v[i].outNeighbors = file.offsets[i]
                      /\ SplitsEdges([i \in N |-> OutBlock(i)])
                      /\ ~file.symmetric => SplitsEdges([i \in N |-> InBlock(i)])
    BY DEF GraphIsFile
  <2>1. file \in Files /\ EdgesRead /\ OutIsSet
    BY DEF LoadInv, GotEdges, GotOut
  <2>2. SplitsEdges([i \in N |-> OutBlock(i)])
    <3>1. \A i \in N : OutBlock(i) = Own(file.offsets, i)
      <4> SUFFICES ASSUME NEW i \in N PROVE OutBlock(i) = Own(file.offsets, i)
        OBVIOUS
      <4>1. file.offsets[i] \in Int /\ EndOf(file.offsets, i) \in Int
        BY <2>1, FileTable, TableSplits
      <4>2. Span(file.offsets[i], EndOf(file.offsets, i) - file.offsets[i]) = Own(file.offsets, i)
        BY <4>1, BlockIsOwn DEF Own
      <4> QED BY <2>1, <4>2 DEF OutBlock, OutIsSet
    <3>2. [i \in N |-> OutBlock(i)] = [i \in N |-> Own(file.offsets, i)]
      BY <3>1
    <3> QED BY <2>1, <3>2, FileTable, TableSplitsEdges
  <2>3. ASSUME ~file.symmetric PROVE SplitsEdges([i \in N |-> InBlock(i)])
    <3>1. Table(tOffsets) /\ InIsSet
      BY <2>1, <2>3, OffsetsMakeTable DEF LoadInv, GotPairs, GotOut, GotEdges, PairsKept
    <3>2. \A i \in N : InBlock(i) = Own(tOffsets, i)
      <4> SUFFICES ASSUME NEW i \in N PROVE InBlock(i) = Own(tOffsets, i)
        OBVIOUS
      <4>1. tOffsets[i] \in Int /\ EndOf(tOffsets, i) \in Int
        BY <2>1, <3>1, TableSplits
      <4>2. Span(tOffsets[i], EndOf(tOffsets, i) - tOffsets[i]) = Own(tOffsets, i)
        BY <4>1, BlockIsOwn DEF Own
      <4> QED BY <3>1, <4>2 DEF InBlock, InIsSet
    <3>3. [i \in N |-> InBlock(i)] = [i \in N |-> Own(tOffsets, i)]
      BY <3>2
    <3> QED BY <2>1, <3>1, <3>3, TableSplitsEdges
  <2> QED BY <2>1, <2>2, <2>3 DEF EdgesRead, OutIsSet
<1> QED BY <1>1, LoadInvariant, PTL

\* As many of a vertex's neighbours are x as places of its block hold x.
LEMMA NeighborsAreBlock ==
  ASSUME NEW edges, NEW base \in Int, NEW degree \in Int, NEW x
  PROVE  Times(Neighbors(edges, base, degree), x) =
         Cardinality({k \in Span(base, degree) : edges[k].to = x})
<1> DEFINE S == {j \in 0 .. degree - 1 : edges[base + j].to = x}
           T == {k \in Span(base, degree) : edges[k].to = x}
           g == [j \in S |-> base + j]
<1>1. Times(Neighbors(edges, base, degree), x) = Cardinality(S)
  BY DEF Times, Neighbors
<1>2. IsFiniteSet(S)
  <2>1. 0 \in Int /\ degree - 1 \in Int
    OBVIOUS
  <2>2. IsFiniteSet(0 .. degree - 1)
    BY <2>1, FS_Interval
  <2>3. S \in SUBSET (0 .. degree - 1)
    OBVIOUS
  <2> QED BY ONLY <2>2, <2>3, FS_Subset
<1>3. \A j \in 0 .. degree - 1 : j \in Int /\ base + j \in Span(base, degree)
  BY DEF Span
<1>4. \A k \in Span(base, degree) : k - base \in 0 .. degree - 1 /\ base + (k - base) = k
  BY DEF Span
<1>5. g \in [S -> T] /\ \A i, j \in S : g[i] = g[j] => i = j
  <2>1. \A j \in S : g[j] = base + j /\ base + j \in T
    BY <1>3
  <2>2. \A i, j \in S : base + i = base + j => i = j
    BY <1>3
  <2> QED BY <2>1, <2>2
<1>6. ASSUME NEW k \in T PROVE \E j \in S : g[j] = k
  <2>1. k - base \in S /\ base + (k - base) = k
    BY <1>4
  <2> QED BY <2>1
<1> HIDE DEF S, T, g
<1>7. g \in Bijection(S, T)
  BY <1>5, <1>6 DEF Bijection, Injection, Surjection, IsInjective
<1>8. ExistsBijection(S, T)
  BY <1>7 DEF ExistsBijection
<1> QED BY <1>1, <1>2, <1>8, FS_Bijection DEF T

\* The in-edges are the transpose of the out-edges, as the edge maps assume: for every
\* file, an edge is as often among the in-edges of its target as among the out-edges of
\* its source.
THEOREM InIsAlwaysTranspose == Spec => []InIsTranspose
<1>1. LoadInv => InIsTranspose
  <2> SUFFICES ASSUME LoadInv, pc = "done", ~file.symmetric, NEW s \in N, NEW d \in N
               PROVE  Times(OutOf(s), d) = Times(InOf(d), s)
    BY DEF InIsTranspose
  <2>1. /\ file \in Files /\ EdgesRead /\ OutIsSet /\ PairsKept /\ PairsTaken /\ OffsetsBound /\ InIsSet
        /\ temp \in [M -> N \X N]
    BY DEF LoadInv, GotPairs, GotEdges, GotOut, PairsKept
  <2>2. Times(OutOf(s), d) = Cardinality({k \in M : file.targets[k] = d /\ k \in Own(file.offsets, s)})
    <3>1. file.offsets[s] \in Int /\ EndOf(file.offsets, s) \in Int /\ Own(file.offsets, s) \subseteq M
      BY <2>1, FileTable, TableSplits
    <3>2. Span(v[s].outNeighbors, v[s].outDegree) = Own(file.offsets, s)
      BY <2>1, <3>1, BlockIsOwn DEF Own, OutIsSet
    <3>3. v[s].outNeighbors \in Int /\ v[s].outDegree \in Int
      BY <2>1, <3>1 DEF OutIsSet
    <3>4. Times(OutOf(s), d) = Cardinality({k \in Own(file.offsets, s) : e[k].to = d})
      BY <3>2, <3>3, NeighborsAreBlock DEF OutOf
    <3>5. {k \in Own(file.offsets, s) : e[k].to = d} =
          {k \in M : file.targets[k] = d /\ k \in Own(file.offsets, s)}
      BY <2>1, <3>1 DEF EdgesRead
    <3> QED BY <3>4, <3>5
  <2>3. Times(InOf(d), s) = Cardinality(Places(temp, <<d, s>>))
    <3>1. /\ tOffsets[d] \in Int /\ EndOf(tOffsets, d) \in Int
          /\ Own(tOffsets, d) = {k \in M : temp[k][1] = d}
      BY <2>1, OffsetsMakeTable, TableSplits
    <3>2. Span(v[d].inNeighbors, v[d].inDegree) = Own(tOffsets, d)
      BY <2>1, <3>1, BlockIsOwn DEF Own, InIsSet
    <3>3. v[d].inNeighbors \in Int /\ v[d].inDegree \in Int
      BY <2>1, <3>1 DEF InIsSet
    <3>4. Times(InOf(d), s) = Cardinality({k \in Own(tOffsets, d) : inE[k].to = s})
      BY <3>2, <3>3, NeighborsAreBlock DEF InOf
    <3>5. {k \in Own(tOffsets, d) : inE[k].to = s} = Places(temp, <<d, s>>)
      <4>1. \A k \in M : inE[k].to = temp[k][2] /\ (temp[k] = <<d, s>> <=> temp[k][1] = d /\ temp[k][2] = s)
        BY <2>1 DEF PairsTaken
      <4> QED BY <3>1, <4>1 DEF Places
    <3> QED BY <3>4, <3>5
  <2> QED BY <2>1, <2>2, <2>3 DEF PairsKept
<1> QED BY <1>1, LoadInvariant, PTL
=============================================================================
