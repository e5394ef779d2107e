----------------------------- MODULE Compressor -----------------------------
(***************************************************************************)
(* Compressed adjacency lists from the parallel compression of the encoder *)
(* (parallelCompressEdges of the six code headers) to their uses in        *)
(* compressedVertex.h: decoding chunk by chunk, until srcTarg returns      *)
(* false, and packing a list in place.  Which header is compiled in, and   *)
(* whether the edges are weighted, is part of the input.                   *)
(***************************************************************************)
EXTENDS Integers, Sequences, FiniteSets, SequencesExt

CONSTANTS B, NB, INT_MAX, PARALLEL_DEGREE,
          Sources,   \* the vertices that have edges
          Inputs     \* records code, weighted, adj (a list per source), keeps (predicates to pack by)

\* What the constants have to be; Storage assumes it.
InputsOK == /\ B >= 4 /\ NB >= 2 /\ PARALLEL_DEGREE >= 1
            /\ IsFiniteSet(Sources) /\ Sources \subseteq Nat
            /\ \A i \in Inputs : DOMAIN i.adj = Sources

Bytes   == INSTANCE ByteCode
Nibbles == INSTANCE NibbleCode
Runs    == INSTANCE RunLengthCode

VARIABLES input,      \* the build and the graph
          phase,
          iEdges,     \* the scratch space, one array; words nobody wrote are left out
          charsUsed,  \* of each list, -1 before it is compressed
          finalArr, offsets,
          degree,     \* of the compressed vertices
          job,        \* the traversal or the packing going on
          calls       \* calls[c]: the edges srcTarg was called with for chunk c

listVars == <<input, phase, iEdges, charsUsed, finalArr, offsets, degree, job, calls>>

code == input.code
parallel == code \in {"byte-pd", "nibble-pd", "rle-pd"}
Target(e) == IF input.weighted THEN e[1] ELSE e
Targets(edges) == {Target(edges[k]) : k \in DOMAIN edges}

-----------------------------------------------------------------------------
\* The header compressedVertex.h includes decides what these names mean.
compressedList(i, edges) ==
  IF input.weighted
  THEN CASE code = "byte"      -> Bytes!parallelCompressWeightedEdges(i, edges)
         [] code = "nibble"    -> Nibbles!parallelCompressWeightedEdges(i, edges)
         [] code = "rle"       -> Runs!parallelCompressWeightedEdges(i, edges)
         [] code = "byte-pd"   -> Bytes!parallelCompressWeightedEdges_pd(i, edges)
         [] code = "nibble-pd" -> Nibbles!parallelCompressWeightedEdges_pd(i, edges)
         [] code = "rle-pd"    -> Runs!parallelCompressWeightedEdges_pd(i, edges)
  ELSE CASE code = "byte"      -> Bytes!parallelCompressEdges(i, edges)
         [] code = "nibble"    -> Nibbles!parallelCompressEdges(i, edges)
         [] code = "rle"       -> Runs!parallelCompressEdges(i, edges)
         [] code = "byte-pd"   -> Bytes!parallelCompressEdges_pd(i, edges)
         [] code = "nibble-pd" -> Nibbles!parallelCompressEdges_pd(i, edges)
         [] code = "rle-pd"    -> Runs!parallelCompressEdges_pd(i, edges)

sequentialCompressed(i, edges) ==
  CASE code = "byte"      -> Bytes!sequentialCompressEdgeSet(i, edges)
    [] code = "nibble"    -> Nibbles!sequentialCompressEdgeSet(i, edges)
    [] code = "rle"       -> Runs!sequentialCompressEdgeSet(i, edges)
    [] code = "byte-pd"   -> Bytes!sequentialCompressEdgeSet_pd(i, edges)
    [] code = "nibble-pd" -> Nibbles!sequentialCompressEdgeSet_pd(i, edges)
    [] code = "rle-pd"    -> Runs!sequentialCompressEdgeSet_pd(i, edges)

chunks(v) == IF parallel /\ degree[v] > 0 THEN 1 + (degree[v] - 1) \div PARALLEL_DEGREE ELSE 1

\* The calls of srcTarg for chunk c of v, when it returns false for the targets in stop.
decoded(v, c, stop) ==
  LET s == finalArr
      p == offsets[v] + 1
      d == degree[v]
  IN  IF d = 0 THEN <<>>
      ELSE IF input.weighted
      THEN CASE code = "byte"      -> Bytes!decodeWgh(s, p, v, d, stop)
             [] code = "nibble"    -> Nibbles!decodeWgh(s, p, v, d, stop)
             [] code = "rle"       -> Runs!decodeWgh(s, p, v, d, stop)
             [] code = "byte-pd"   -> Bytes!decodeWgh_pd(s, p, v, d, c, stop)
             [] code = "nibble-pd" -> Nibbles!decodeWgh_pd(s, p, v, d, c, stop)
             [] code = "rle-pd"    -> Runs!decodeWgh_pd(s, p, v, d, c, stop)
      ELSE CASE code = "byte"      -> Bytes!decode(s, p, v, d, stop)
             [] code = "nibble"    -> Nibbles!decode(s, p, v, d, stop)
             [] code = "rle"       -> Runs!decode(s, p, v, d, stop)
             [] code = "byte-pd"   -> Bytes!decode_pd(s, p, v, d, c, stop)
             [] code = "nibble-pd" -> Nibbles!decode_pd(s, p, v, d, c, stop)
             [] code = "rle-pd"    -> Runs!decode_pd(s, p, v, d, c, stop)

\* copyOutNgh: the whole list, srcTarg always true.
wholeList(v) == FlattenSeq([k \in 1 .. chunks(v) |-> decoded(v, k - 1, {})])

\* chars written at offset at of the array.
Written(s, at, chars) ==
  [k \in 1 .. (IF at + Len(chars) > Len(s) THEN at + Len(chars) ELSE Len(s)) |->
     IF k > at /\ k <= at + Len(chars) THEN chars[k - at] ELSE s[k]]

-----------------------------------------------------------------------------
ListInit ==
  /\ input \in Inputs
  /\ phase = "compress"
  /\ iEdges = <<>>
  /\ charsUsed = [v \in Sources |-> -1]
  /\ finalArr = <<>>
  /\ offsets = [v \in Sources |-> -1]
  /\ degree = [v \in Sources |-> Len(input.adj[v])]
  /\ job = <<>>
  /\ calls = <<>>

SumBelow(i, len) == SumFunction([u \in {w \in Sources : w < i} |-> len[u]])

\* The first scan over charsUsedArr: the lists before i have their room before its own.
scratchStart(i) == SumBelow(i, [u \in Sources |-> compressedList(u, input.adj[u]).room])

\* The first parallel loop.  Nothing keeps a list inside its room: one that is longer
\* goes on into that of the next.  Of iterations that overlap there one comes later.
CompressVertex(i) ==
  LET chars == compressedList(i, input.adj[i]).chars
      start == scratchStart(i)
  IN  /\ phase = "compress" /\ charsUsed[i] = -1
      /\ iEdges' = [k \in DOMAIN iEdges \cup start + 1 .. start + Len(chars) |->
                      IF k > start /\ k <= start + Len(chars) THEN chars[k - start] ELSE iEdges[k]]
      /\ charsUsed' = [charsUsed EXCEPT ![i] = Len(chars)]
      /\ UNCHANGED <<input, phase, finalArr, offsets, degree, job, calls>>

compressionStart(i) == SumBelow(i, charsUsed)

\* The second scan, and newA for the final array.
ScanSizes ==
  /\ phase = "compress" /\ \A v \in Sources : charsUsed[v] /= -1
  /\ phase' = "copy"
  /\ finalArr' = [k \in 1 .. SumFunction(charsUsed) |-> 0]
  /\ UNCHANGED <<input, iEdges, charsUsed, offsets, degree, job, calls>>

\* The second parallel loop: the memcpy, and the offset of the list.
CopyVertex(i) ==
  /\ phase = "copy" /\ offsets[i] = -1
  /\ finalArr' = Written(finalArr, compressionStart(i),
                         [k \in 1 .. charsUsed[i] |-> iEdges[scratchStart(i) + k]])
  /\ offsets' = [offsets EXCEPT ![i] = compressionStart(i)]
  /\ UNCHANGED <<input, phase, iEdges, charsUsed, degree, job, calls>>

-----------------------------------------------------------------------------
Compressed == phase = "copy" /\ \A v \in Sources : offsets[v] /= -1

\* decode of one list begins with its first chunk, whose stop ends it.
DecodeFirst(v, stop) ==
  /\ Compressed
  /\ phase' = "decode"
  /\ job' = [v |-> v, stop |-> stop]
  /\ calls' = [c \in 0 .. chunks(v) - 1 |-> IF c = 0 THEN decoded(v, 0, stop) ELSE <<>>]
  /\ UNCHANGED <<input, iEdges, charsUsed, finalArr, offsets, degree>>

\* Mutant: a stop in the first chunk does not keep the others from being decoded.
DecodeChunkAnyway(c) ==
  /\ phase = "decode" /\ calls[c] = <<>>
  /\ calls' = [calls EXCEPT ![c] = decoded(job.v, c, job.stop)]
  /\ UNCHANGED <<input, phase, iEdges, charsUsed, finalArr, offsets, degree, job>>

DecodeChunk(c) ==
  /\ phase = "decode" /\ calls[c] = <<>>
  /\ Targets(calls[0]) \cap job.stop = {}
  /\ calls' = [calls EXCEPT ![c] = decoded(job.v, c, job.stop)]
  /\ UNCHANGED <<input, phase, iEdges, charsUsed, finalArr, offsets, degree, job>>

\* packEdges: packOutNgh for every vertex in parallel, by a predicate on the target.
BeginPack(vs, keep) ==
  /\ Compressed
  /\ phase' = "pack"
  /\ job' = [keep |-> keep, vs |-> vs, todo |-> vs]
  /\ UNCHANGED <<input, iEdges, charsUsed, finalArr, offsets, degree, calls>>


packOutNgh(v) ==
  LET tmp2 == SelectSeq(wholeList(v), LAMBDA e : e \in job.keep)
  IN  /\ phase = "pack" /\ v \in job.todo
      /\ job' = [job EXCEPT !.todo = @ \ {v}]
      /\ IF Len(tmp2) < degree[v]
         THEN /\ finalArr' = Written(finalArr, offsets[v], sequentialCompressed(v, tmp2))
              /\ degree' = [degree EXCEPT ![v] = Len(tmp2)]
         ELSE UNCHANGED <<finalArr, degree>>
      /\ UNCHANGED <<input, phase, iEdges, charsUsed, offsets, calls>>

-----------------------------------------------------------------------------
(* byte.h's pack: the same in one pass, a read finger and a write finger   *)
(* in the same list.                                                       *)
BeginBytePack(v, keep) ==
  /\ Compressed /\ code = "byte"
  /\ phase' = "bytepack"
  /\ job' = [v |-> v, keep |-> keep, i |-> 0, cur |-> offsets[v], tail |-> offsets[v],
             lastRead |-> v, lastWrite |-> v, newDeg |-> 0]
  /\ UNCHANGED <<input, iEdges, charsUsed, finalArr, offsets, degree, calls>>

\* Mutant: the target itself is coded.
packTarget(edge) == edge

\* What the next kept edge is coded against: an edge that was written, not read.
packDifference(edge) == edge - job.lastWrite

packStep ==
  LET v    == job.v
      r    == IF job.i = 0 THEN Bytes!eatFirstEdge(finalArr, job.cur + 1, v)
              ELSE LET d == Bytes!eatEdge(finalArr, job.cur + 1) IN <<job.lastRead + d[1], d[2]>>
      edge == r[1]
      kept == edge \in job.keep
      out  == IF job.tail = offsets[v] THEN Bytes!compressFirstEdge(v, edge)
              ELSE Bytes!compressEdge(packDifference(edge))
  IN  /\ phase = "bytepack" /\ job.i < degree[v]
      /\ finalArr' = IF kept THEN Written(finalArr, job.tail, out) ELSE finalArr
      /\ job' = [job EXCEPT !.i = @ + 1, !.cur = r[2] - 1, !.lastRead = edge,
                            !.tail = IF kept THEN @ + Len(out) ELSE @,
                            !.lastWrite = IF kept THEN edge ELSE @,
                            !.newDeg = IF kept THEN @ + 1 ELSE @]
      /\ UNCHANGED <<input, phase, iEdges, charsUsed, offsets, degree, calls>>

\* The caller takes the new degree.
packReturn ==
  /\ phase = "bytepack" /\ job.i = degree[job.v]
  /\ degree' = [degree EXCEPT ![job.v] = job.newDeg]
  /\ phase' = "pack" /\ job' = [keep |-> job.keep, vs |-> {job.v}, todo |-> {}]
  /\ UNCHANGED <<input, iEdges, charsUsed, finalArr, offsets, calls>>

ListNext ==
  \/ \E v \in Sources : CompressVertex(v) \/ CopyVertex(v) \/ packOutNgh(v)
  \/ ScanSizes
  \/ \E v \in Sources : \E stop \in {{}} \cup {{t} : t \in Targets(input.adj[v])} : DecodeFirst(v, stop)
  \/ \E c \in DOMAIN calls : c > 0 /\ DecodeChunk(c)
  \/ \E keep \in input.keeps : \/ \E vs \in SUBSET Sources \ {{}} : BeginPack(vs, keep)
                               \/ \E v \in Sources : BeginBytePack(v, keep)
  \/ packStep \/ packReturn

ListSpec == ListInit /\ [][ListNext]_listVars
-----------------------------------------------------------------------------
ChunkOf(edges, c) ==
  IF parallel THEN SubSeq(edges, c * PARALLEL_DEGREE + 1,
                          IF (c + 1) * PARALLEL_DEGREE < Len(edges) THEN (c + 1) * PARALLEL_DEGREE ELSE Len(edges))
  ELSE edges

\* Decoding gives back the list that was compressed, whatever the other iterations wrote
\* into the scratch space: the calls for a chunk are the edges of that chunk in order,
\* all of them unless srcTarg stopped it.
DecodedIsInput ==
  phase = "decode" =>
    \A c \in DOMAIN calls :
      LET chunk == ChunkOf(input.adj[job.v], c)
      IN  /\ IsPrefix(calls[c], chunk)
          /\ calls[c] \notin {<<>>, chunk} => Targets(calls[c]) \cap job.stop /= {}

\* After srcTarg has returned false, a list sees no further call, and a chunk of a
\* parallel list none in its own chunk (byteRLE-pd.h apart: its later chunks
\* finish their run).
StopEndsDecoding ==
  phase = "decode" =>
    /\ Targets(calls[0]) \cap job.stop /= {} => \A c \in DOMAIN calls \ {0} : calls[c] = <<>>
    /\ \A c \in DOMAIN calls : code /= "rle-pd" \/ c = 0 =>
         \A k \in 1 .. Len(calls[c]) - 1 : Target(calls[c][k]) \notin job.stop


\* The write finger of pack never passes the read finger: what it has still to
\* read is intact, although it writes larger differences than it read.
PackNeverOvertakes ==
  phase = "bytepack" /\ job.i > 0 =>
    /\ job.tail <= job.cur
    /\ Bytes!decodeFrom(finalArr, job.cur + 1, job.lastRead, degree[job.v] - job.i, {})
         = SubSeq(input.adj[job.v], job.i + 1, degree[job.v])
=============================================================================
