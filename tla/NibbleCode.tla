----------------------------- MODULE NibbleCode -----------------------------
(***************************************************************************)
(* ligra/nibble.h: differences in nibbles of NB bits, one of which says    *)
(* that another follows; NB is 4 in the code.  The sign of a signed number *)
(* is its lowest bit.  A list is the sequence of its nibbles, location k   *)
(* of it the k-th; where in its byte a nibble is kept is left out.         *)
(***************************************************************************)
EXTENDS Integers, Sequences, SequencesExt

CONSTANTS NB,
          INT_MAX,  \* 2^31 - 1: what an intE holds
          PARALLEL_DEGREE

Chunks == INSTANCE ParallelCode WITH base <- 2 ^ NB, word <- 8

CONT == 2 ^ (NB - 1)   \* 0x8

At(s, p) == IF p \in DOMAIN s THEN s[p] ELSE 0
Magnitude(i) == IF i < 0 THEN -i ELSE i

\* The nibbles of val; none when val is not positive.
RECURSIVE encode_nibbleval(_)
encode_nibbleval(val) ==
  IF val <= 0 THEN <<>>
  ELSE <<(val % CONT) + (IF val >= CONT THEN CONT ELSE 0)>> \o encode_nibbleval(val \div CONT)

RECURSIVE decode_val_nibblecode(_, _)
decode_val_nibblecode(s, p) ==
  LET b == At(s, p)
      rest == decode_val_nibblecode(s, p + 1)
  IN  IF b < CONT THEN <<b, p + 1>> ELSE <<(b % CONT) + CONT * rest[1], rest[2]>>

decode_first_edge(s, p, source) ==
  LET r == decode_val_nibblecode(s, p)
      val == r[1] \div 2
  IN  <<IF r[1] % 2 = 1 THEN source + val ELSE source - val, r[2]>>

decode_next_edge(s, p) == decode_val_nibblecode(s, p)

-----------------------------------------------------------------------------
RECURSIVE decodeFrom(_, _, _, _, _)
decodeFrom(s, p, last, left, stop) ==
  IF left = 0 \/ last \in stop THEN <<>>
  ELSE LET r == decode_next_edge(s, p)
           edge == last + r[1]
       IN  <<edge>> \o decodeFrom(s, r[2], edge, left - 1, stop)

decode(s, p, source, degree, stop) ==
  LET r == decode_first_edge(s, p, source)
  IN  IF degree = 0 THEN <<>> ELSE <<r[1]>> \o decodeFrom(s, r[2], r[1], degree - 1, stop)

RECURSIVE decodeWghFrom(_, _, _, _, _)
decodeWghFrom(s, p, last, left, stop) ==
  IF left = 0 \/ last \in stop THEN <<>>
  ELSE LET r == decode_next_edge(s, p)
           edge == last + r[1]
           w == decode_first_edge(s, r[2], 0)
       IN  <<<<edge, w[1]>>>> \o decodeWghFrom(s, w[2], edge, left - 1, stop)

decodeWgh(s, p, source, degree, stop) ==
  LET r == decode_first_edge(s, p, source)
      w == decode_first_edge(s, r[2], 0)
  IN  IF degree = 0 THEN <<>>
      ELSE <<<<r[1], w[1]>>>> \o decodeWghFrom(s, w[2], r[1], degree - 1, stop)

-----------------------------------------------------------------------------
\* (magnitude << 1) | sign, in a long.
Sign(i) == IF i < 0 THEN 0 ELSE 1
Signed(i) == 2 * Magnitude(i) + Sign(i)

\* The same in an intE: of a magnitude above INT_MAX / 2 the highest bit is lost, and
\* it comes out negative when the next one is set.
SignedInt(i) ==
  LET half == INT_MAX \div 2 + 1
      low  == 2 * (Magnitude(i) % half) + Sign(i)
  IN  IF (Magnitude(i) \div half) % 2 = 1 THEN low - INT_MAX - 1 ELSE low

sequentialCompressEdgeSet(vertexNum, savedEdges) ==
  IF savedEdges = <<>> THEN <<>>
  ELSE encode_nibbleval(Signed(savedEdges[1] - vertexNum))
       \o FlattenSeq([k \in 1 .. Len(savedEdges) - 1 |->
                        encode_nibbleval(savedEdges[k + 1] - savedEdges[k])])

sequentialCompressWeightedEdgeSet(vertexNum, savedEdges) ==
  LET Weight(k) == encode_nibbleval(SignedInt(savedEdges[k][2])) IN
  IF savedEdges = <<>> THEN <<>>
  ELSE encode_nibbleval(SignedInt(savedEdges[1][1] - vertexNum)) \o Weight(1)
       \o FlattenSeq([k \in 1 .. Len(savedEdges) - 1 |->
                        encode_nibbleval(savedEdges[k + 1][1] - savedEdges[k][1]) \o Weight(k + 1)])

\* charsUsed = (charsUsed + 1) / 2: a list ends on a byte, that is after an even
\* number of nibbles.
ByteAligned(nibbles) == IF Len(nibbles) % 2 = 1 THEN Append(nibbles, 0) ELSE nibbles

charsReserved(degree) == 8 * ((9 * degree) \div 8 + 4)

parallelCompressEdges(i, edges) ==
  [room |-> charsReserved(Len(edges)), chars |-> ByteAligned(sequentialCompressEdgeSet(i, edges))]

parallelCompressWeightedEdges(i, edges) ==
  [room |-> 2 * charsReserved(Len(edges)),
   chars |-> ByteAligned(sequentialCompressWeightedEdgeSet(i, edges))]
-----------------------------------------------------------------------------
\* ligra/nibble-pd.h: the chunks need not begin on a byte, the words in front of them
\* count nibbles.
sequentialCompressEdgeSet_pd(vertexNum, savedEdges) ==
  IF savedEdges = <<>> THEN <<>>
  ELSE Chunks!Layout([k \in 1 .. Chunks!numChunks(Len(savedEdges)) |->
                        sequentialCompressEdgeSet(vertexNum, Chunks!Chunk(savedEdges, k - 1))])

sequentialCompressWeightedEdgeSet_pd(vertexNum, savedEdges) ==
  IF savedEdges = <<>> THEN <<>>
  ELSE Chunks!Layout([k \in 1 .. Chunks!numChunks(Len(savedEdges)) |->
                        sequentialCompressWeightedEdgeSet(vertexNum, Chunks!Chunk(savedEdges, k - 1))])

parallelCompressEdges_pd(i, edges) ==
  [room |-> charsReserved(Len(edges)), chars |-> ByteAligned(sequentialCompressEdgeSet_pd(i, edges))]

parallelCompressWeightedEdges_pd(i, edges) ==
  [room |-> 2 * charsReserved(Len(edges)),
   chars |-> ByteAligned(sequentialCompressWeightedEdgeSet_pd(i, edges))]

decode_pd(s, p, source, degree, c, stop) ==
  decode(s, Chunks!chunkStart(s, p, degree, c), source, Chunks!chunkDegree(degree, c), stop)

decodeWgh_pd(s, p, source, degree, c, stop) ==
  decodeWgh(s, Chunks!chunkStart(s, p, degree, c), source, Chunks!chunkDegree(degree, c), stop)
=============================================================================
