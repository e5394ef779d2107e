------------------------------ MODULE ByteCode ------------------------------
(***************************************************************************)
(* ligra/byte.h: an edge list as differences, in bytes that carry B - 1    *)
(* bits of the number and one bit that says whether another byte follows.  *)
(* The first byte of the list, and of every weight, gives one more bit to  *)
(* the sign.  B is 8 in the code.  A list is a sequence of bytes, position *)
(* p of it the 1-based p.  What ends in _pd is ligra/byte-pd.h: the same   *)
(* with the lists cut into chunks.                                         *)
(***************************************************************************)
EXTENDS Integers, Sequences, SequencesExt

CONSTANTS B, PARALLEL_DEGREE

Chunks == INSTANCE ParallelCode WITH base <- 2 ^ B, word <- 4

Byte == 2 ^ B
LAST_BIT == 2 ^ (B - 1)   \* the bit LAST_BIT_SET tests, 0x80
SIGN_BIT == 2 ^ (B - 2)   \* 0x40

\* What a read finds at p; past the last byte written malloc left anything, here 0.
At(s, p) == IF p \in DOMAIN s THEN s[p] ELSE 0
Magnitude(i) == IF i < 0 THEN -i ELSE i

\* The bytes compressEdge appends for the difference e.
RECURSIVE compressEdge(_)
compressEdge(e) ==
  IF e = 0 THEN <<>>
  ELSE <<(e % LAST_BIT) + (IF e >= LAST_BIT THEN LAST_BIT ELSE 0)>> \o compressEdge(e \div LAST_BIT)

compressFirstEdge(source, target) ==
  LET d == Magnitude(target - source)
  IN  <<(d % SIGN_BIT) + (IF target < source THEN SIGN_BIT ELSE 0)
                       + (IF d >= SIGN_BIT THEN LAST_BIT ELSE 0)>>
      \o compressEdge(d \div SIGN_BIT)

-----------------------------------------------------------------------------
\* The eat functions return what they read and the position after it.
RECURSIVE eatEdge(_, _)
eatEdge(s, p) ==
  LET b == At(s, p)
      rest == eatEdge(s, p + 1)
  IN  IF b < LAST_BIT THEN <<b, p + 1>> ELSE <<(b % LAST_BIT) + LAST_BIT * rest[1], rest[2]>>

eatWeight(s, p) ==
  LET b == At(s, p)
      rest == IF b < LAST_BIT THEN <<0, p + 1>> ELSE eatEdge(s, p + 1)
      w == (b % SIGN_BIT) + SIGN_BIT * rest[1]
  IN  <<IF b % LAST_BIT < SIGN_BIT THEN w ELSE -w, rest[2]>>

eatFirstEdge(s, p, source) ==
  LET r == eatWeight(s, p) IN <<source + r[1], r[2]>>

-----------------------------------------------------------------------------
(* decode hands each edge to srcTarg, until it returns false: stop holds   *)
(* the targets it returns false for.  The value is the list of the calls.  *)
RECURSIVE decodeFrom(_, _, _, _, _)
decodeFrom(s, p, last, left, stop) ==
  IF left = 0 \/ last \in stop THEN <<>>
  ELSE LET r == eatEdge(s, p)
           edge == last + r[1]
       IN  <<edge>> \o decodeFrom(s, r[2], edge, left - 1, stop)

decode(s, p, source, degree, stop) ==
  LET r == eatFirstEdge(s, p, source)
  IN  IF degree = 0 THEN <<>> ELSE <<r[1]>> \o decodeFrom(s, r[2], r[1], degree - 1, stop)

RECURSIVE decodeWghFrom(_, _, _, _, _)
decodeWghFrom(s, p, last, left, stop) ==
  IF left = 0 \/ last \in stop THEN <<>>
  ELSE LET r == eatEdge(s, p)
           edge == last + r[1]
           w == eatWeight(s, r[2])
       IN  <<<<edge, w[1]>>>> \o decodeWghFrom(s, w[2], edge, left - 1, stop)

decodeWgh(s, p, source, degree, stop) ==
  LET r == eatFirstEdge(s, p, source)
      w == eatWeight(s, r[2])
  IN  IF degree = 0 THEN <<>>
      ELSE <<<<r[1], w[1]>>>> \o decodeWghFrom(s, w[2], r[1], degree - 1, stop)

-----------------------------------------------------------------------------
\* savedEdges: the sorted targets; pairs <<target, weight>> in a weighted graph.
sequentialCompressEdgeSet(vertexNum, savedEdges) ==
  IF savedEdges = <<>> THEN <<>>
  ELSE compressFirstEdge(vertexNum, savedEdges[1])
       \o FlattenSeq([k \in 1 .. Len(savedEdges) - 1 |-> compressEdge(savedEdges[k + 1] - savedEdges[k])])

sequentialCompressWeightedEdgeSet(vertexNum, savedEdges) ==
  LET Weight(k) == compressFirstEdge(0, savedEdges[k][2]) IN
  IF savedEdges = <<>> THEN <<>>
  ELSE compressFirstEdge(vertexNum, savedEdges[1][1]) \o Weight(1)
       \o FlattenSeq([k \in 1 .. Len(savedEdges) - 1 |->
                        compressEdge(savedEdges[k + 1][1] - savedEdges[k][1]) \o Weight(k + 1)])

\* The bytes of scratch space the parallel compression sets aside for a list:
\* uintE words, of four bytes; the division is the integer one, inside the ceil.
charsReserved(degree) == 4 * ((9 * degree) \div 8 + 4)

\* What one iteration of the loops of parallelCompressEdges does for a vertex.
parallelCompressEdges(i, edges) ==
  [room |-> charsReserved(Len(edges)), chars |-> sequentialCompressEdgeSet(i, edges)]

parallelCompressWeightedEdges(i, edges) ==
  [room |-> 2 * charsReserved(Len(edges)), chars |-> sequentialCompressWeightedEdgeSet(i, edges)]
-----------------------------------------------------------------------------
\* Mutant: a later chunk starts with the difference to the edge before it.
compressFromPrevious(vertexNum, savedEdges) ==
  IF savedEdges = <<>> THEN <<>>
  ELSE Chunks!Layout([k \in 1 .. Chunks!numChunks(Len(savedEdges)) |->
         sequentialCompressEdgeSet(IF k = 1 THEN vertexNum ELSE savedEdges[(k - 1) * PARALLEL_DEGREE],
                                   Chunks!Chunk(savedEdges, k - 1))])

sequentialCompressEdgeSet_pd(vertexNum, savedEdges) ==
  IF savedEdges = <<>> THEN <<>>
  ELSE Chunks!Layout([k \in 1 .. Chunks!numChunks(Len(savedEdges)) |->
                        sequentialCompressEdgeSet(vertexNum, Chunks!Chunk(savedEdges, k - 1))])

sequentialCompressWeightedEdgeSet_pd(vertexNum, savedEdges) ==
  IF savedEdges = <<>> THEN <<>>
  ELSE Chunks!Layout([k \in 1 .. Chunks!numChunks(Len(savedEdges)) |->
                        sequentialCompressWeightedEdgeSet(vertexNum, Chunks!Chunk(savedEdges, k - 1))])

parallelCompressEdges_pd(i, edges) ==
  [room |-> charsReserved(Len(edges)), chars |-> sequentialCompressEdgeSet_pd(i, edges)]

parallelCompressWeightedEdges_pd(i, edges) ==
  [room |-> 2 * charsReserved(Len(edges)), chars |-> sequentialCompressWeightedEdgeSet_pd(i, edges)]

\* The calls of srcTarg for chunk c of a list that is not empty; a stop ends its chunk.
decode_pd(s, p, source, degree, c, stop) ==
  decode(s, Chunks!chunkStart(s, p, degree, c), source, Chunks!chunkDegree(degree, c), stop)

decodeWgh_pd(s, p, source, degree, c, stop) ==
  decodeWgh(s, Chunks!chunkStart(s, p, degree, c), source, Chunks!chunkDegree(degree, c), stop)
=============================================================================
