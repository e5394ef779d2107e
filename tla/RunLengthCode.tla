--------------------------- MODULE RunLengthCode ---------------------------
(***************************************************************************)
(* ligra/byteRLE.h, the default code: after the first edge, runs of        *)
(* differences that need the same number of bytes, each run behind a       *)
(* header byte with that number and the length of the run.  A weighted run *)
(* has a third header bit: its weights take one byte or four.              *)
(***************************************************************************)
EXTENDS Integers, Sequences, SequencesExt

CONSTANTS B, PARALLEL_DEGREE

Chunks == INSTANCE ParallelCode WITH base <- 2 ^ B, word <- 4

First == INSTANCE ByteCode   \* the first edge and its weight: byte.h's functions again

Byte == 2 ^ B
ONE_BYTE == Byte
TWO_BYTES == Byte ^ 2
THREE_BYTES == Byte ^ 3
ONE_BYTE_SIGNED_MAX == 2 ^ (B - 1)
maxRun == 2 ^ (B - 2)        \* 64: the run length has B - 2 bits of the header
maxWeightedRun == 2 ^ (B - 3)

eatWeight(s, p) == First!eatWeight(s, p)
eatFirstEdge(s, p, source) == First!eatFirstEdge(s, p, source)
compressFirstEdge(source, target) == First!compressFirstEdge(source, target)

\* k bytes of e, the lowest first, and the number they stand for.
Bytes(e, k) == [j \in 1 .. k |-> (e \div Byte ^ (j - 1)) % Byte]
RECURSIVE Number(_, _, _)
Number(s, p, k) == IF k = 0 THEN 0 ELSE First!At(s, p) + Byte * Number(s, p + 1, k - 1)

numBytesOf(difference) == CASE difference < ONE_BYTE    -> 1
                            [] difference < TWO_BYTES   -> 2
                            [] difference < THREE_BYTES -> 3
                            [] OTHER                    -> 4

numBytesSigned(x) == IF x < ONE_BYTE_SIGNED_MAX /\ x > 1 - ONE_BYTE_SIGNED_MAX THEN 1 ELSE 4

-----------------------------------------------------------------------------
(* Compression.  The first edge of the list E has index 0 in the code and  *)
(* 1 here; edgeI keeps the code's numbering.                               *)
Diff(E, k) == E[k + 1] - E[k]

\* Header and differences of a run; runlength - 1 of an empty run fills the byte.
compressEdges(E, edgeI, numBytes, runlength) ==
  IF runlength = 0 THEN <<Byte - 1>>
  ELSE <<(numBytes - 1) + 4 * (runlength - 1)>>
       \o FlattenSeq([i \in 1 .. runlength |-> Bytes(Diff(E, edgeI + i - 1), numBytes)])

\* The loop of sequentialCompressEdgeSet: the run grows while the differences need
\* numBytes, and is written when they do not, when it is full, and at the end.
RECURSIVE compressRuns(_, _, _, _)
compressRuns(E, edgeI, runlength, numBytes) ==
  LET need  == numBytesOf(Diff(E, edgeI + runlength))
      joins == numBytes \in {0, need}
      run   == runlength + 1
      Written(k) == compressEdges(E, edgeI, IF joins THEN need ELSE numBytes, k)
  IN  IF ~joins THEN Written(runlength) \o compressRuns(E, edgeI + runlength, 0, 0)
      ELSE IF run = maxRun
           THEN Written(run) \o (IF edgeI + run = Len(E) THEN compressEdges(E, Len(E), 0, 0)
                                 ELSE compressRuns(E, edgeI + run, 0, 0))
      ELSE IF edgeI + run = Len(E) THEN Written(run)
      ELSE compressRuns(E, edgeI, run, need)

sequentialCompressEdgeSet(vertexNum, savedEdges) ==
  IF savedEdges = <<>> THEN <<>>
  ELSE compressFirstEdge(vertexNum, savedEdges[1])
       \o (IF Len(savedEdges) = 1 THEN <<>> ELSE compressRuns(savedEdges, 1, 0, 0))

\* Weights: the lowest B - 1 bits and the sign in a first byte, three more if needed.
WeightBytes(w, k) ==
  LET mag == First!Magnitude(w)
  IN  <<(mag % ONE_BYTE_SIGNED_MAX) + (IF w < 0 THEN ONE_BYTE_SIGNED_MAX ELSE 0)>>
      \o Bytes(mag \div ONE_BYTE_SIGNED_MAX, k - 1)

compressWeightedEdges(E, edgeI, numBytes, numBytesWeight, runlength) ==
  IF runlength = 0 THEN <<Byte - 1>>
  ELSE <<(numBytes - 1) + (IF numBytesWeight = 4 THEN 4 ELSE 0) + 8 * (runlength - 1)>>
       \o FlattenSeq([i \in 1 .. runlength |->
            Bytes(E[edgeI + i][1] - E[edgeI + i - 1][1], numBytes)
            \o WeightBytes(E[edgeI + i][2], numBytesWeight)])

\* size: the bytes of the difference and of the weight, <<0, 0>> of an empty run.
RECURSIVE compressWeightedRuns(_, _, _, _)
compressWeightedRuns(E, edgeI, runlength, size) ==
  LET k     == edgeI + runlength
      need  == <<numBytesOf(E[k + 1][1] - E[k][1]), numBytesSigned(E[k + 1][2])>>
      joins == size \in {<<0, 0>>, need}
      run   == runlength + 1
      Written(r) == compressWeightedEdges(E, edgeI, (IF joins THEN need ELSE size)[1],
                                          (IF joins THEN need ELSE size)[2], r)
  IN  IF ~joins THEN Written(runlength) \o compressWeightedRuns(E, k, 0, <<0, 0>>)
      ELSE IF run = maxWeightedRun
           THEN Written(run) \o (IF k + 1 = Len(E) THEN compressWeightedEdges(E, k + 1, 0, 0, 0)
                                 ELSE compressWeightedRuns(E, k + 1, 0, <<0, 0>>))
      ELSE IF k + 1 = Len(E) THEN Written(run)
      ELSE compressWeightedRuns(E, edgeI, run, need)

sequentialCompressWeightedEdgeSet(vertexNum, savedEdges) ==
  IF savedEdges = <<>> THEN <<>>
  ELSE compressFirstEdge(vertexNum, savedEdges[1][1]) \o compressFirstEdge(0, savedEdges[1][2])
       \o (IF Len(savedEdges) = 1 THEN <<>> ELSE compressWeightedRuns(savedEdges, 1, 0, <<0, 0>>))

charsReserved(degree) == 4 * ((9 * degree) \div 8 + 4)

parallelCompressEdges(i, edges) ==
  [room |-> 2 * charsReserved(Len(edges)), chars |-> sequentialCompressEdgeSet(i, edges)]

parallelCompressWeightedEdges(i, edges) ==
  [room |-> 4 * charsReserved(Len(edges)), chars |-> sequentialCompressWeightedEdgeSet(i, edges)]

-----------------------------------------------------------------------------
(* Decoding.  A run is the edges it holds and the position after it; the   *)
(* header is trusted, whatever the degree.                                 *)
RunEdges(s, p, last, numbytes, runlength) ==
  LET edge[j \in 0 .. runlength] ==
        IF j = 0 THEN last ELSE edge[j - 1] + Number(s, p + (j - 1) * numbytes, numbytes)
  IN  <<[j \in 1 .. runlength |-> edge[j]], p + numbytes * runlength>>

ReadWeight(s, p, k) ==
  LET w == First!At(s, p)
      mag == (w % ONE_BYTE_SIGNED_MAX) + ONE_BYTE_SIGNED_MAX * Number(s, p + 1, k - 1)
  IN  IF w >= ONE_BYTE_SIGNED_MAX THEN -mag ELSE mag

WeightedRunEdges(s, p, last, numbytes, weightbytes, runlength) ==
  LET step == numbytes + weightbytes
      edge[j \in 0 .. runlength] ==
        IF j = 0 THEN last ELSE edge[j - 1] + Number(s, p + (j - 1) * step, numbytes)
  IN  <<[j \in 1 .. runlength |-> <<edge[j], ReadWeight(s, p + (j - 1) * step + numbytes, weightbytes)>>],
        p + step * runlength>>

\* The run whose header is at p.  case 6 has no break: the edges of its run are
\* followed by as many that the default case reads.
RunAt(s, p, last) ==
  LET header == First!At(s, p)
  IN  RunEdges(s, p + 1, last, 1 + (header % 4), 1 + header \div 4)

WeightedRunAt(s, p, last) ==
  LET header == First!At(s, p)
      info == header % 8
      runlength == 1 + header \div 8
      r == WeightedRunEdges(s, p + 1, last, 1 + (info % 4), IF info >= 4 THEN 4 ELSE 1, runlength)
      more == WeightedRunEdges(s, r[2], r[1][runlength][1], 4, 4, runlength)
  IN  IF info = 6 THEN <<r[1] \o more[1], more[2]>> ELSE r

\* edges up to the first one srcTarg returns false for.
UpTo(edges, Stops(_)) ==
  LET hit == {j \in DOMAIN edges : Stops(edges[j])}
  IN  IF hit = {} THEN edges ELSE SubSeq(edges, 1, CHOOSE j \in hit : \A k \in hit : j <= k)

\* The loop over the runs; left reaches 0 only if the runs add up to the degree.
RECURSIVE decodeRuns(_, _, _, _, _)
decodeRuns(s, p, last, left, stop) ==
  IF left = 0 \/ p \notin DOMAIN s THEN <<>>
  ELSE LET r == RunAt(s, p, last)
           seen == UpTo(r[1], LAMBDA e : e \in stop)
           lastSeen == seen[Len(seen)]
       IN  seen \o (IF lastSeen \in stop THEN <<>>
                    ELSE decodeRuns(s, r[2], lastSeen, left - Len(seen), stop))

RECURSIVE decodeWeightedRuns(_, _, _, _, _)
decodeWeightedRuns(s, p, last, left, stop) ==
  IF left = 0 \/ p \notin DOMAIN s THEN <<>>
  ELSE LET r == WeightedRunAt(s, p, last)
           seen == UpTo(r[1], LAMBDA e : e[1] \in stop)
           lastSeen == seen[Len(seen)][1]
       IN  seen \o (IF lastSeen \in stop THEN <<>>
                    ELSE decodeWeightedRuns(s, r[2], lastSeen, left - Len(seen), stop))

decode(s, p, source, degree, stop) ==
  LET r == eatFirstEdge(s, p, source)
  IN  IF degree = 0 THEN <<>>
      ELSE IF r[1] \in stop THEN <<r[1]>>
      ELSE <<r[1]>> \o decodeRuns(s, r[2], r[1], degree - 1, stop)

decodeWgh(s, p, source, degree, stop) ==
  LET r == eatFirstEdge(s, p, source)
      w == eatWeight(s, r[2])
  IN  IF degree = 0 THEN <<>>
      ELSE IF r[1] \in stop THEN <<<<r[1], w[1]>>>>
      ELSE <<<<r[1], w[1]>>>> \o decodeWeightedRuns(s, w[2], r[1], degree - 1, stop)
-----------------------------------------------------------------------------
\* ligra/byteRLE-pd.h: the lists are cut into chunks.
sequentialCompressEdgeSet_pd(vertexNum, savedEdges) ==
  IF savedEdges = <<>> THEN <<>>
  ELSE Chunks!Layout([k \in 1 .. Chunks!numChunks(Len(savedEdges)) |->
                        sequentialCompressEdgeSet(vertexNum, Chunks!Chunk(savedEdges, k - 1))])

sequentialCompressWeightedEdgeSet_pd(vertexNum, savedEdges) ==
  IF savedEdges = <<>> THEN <<>>
  ELSE Chunks!Layout([k \in 1 .. Chunks!numChunks(Len(savedEdges)) |->
                        sequentialCompressWeightedEdgeSet(vertexNum, Chunks!Chunk(savedEdges, k - 1))])

parallelCompressEdges_pd(i, edges) ==
  [room |-> 2 * charsReserved(Len(edges)), chars |-> sequentialCompressEdgeSet_pd(i, edges)]

parallelCompressWeightedEdges_pd(i, edges) ==
  [room |-> 4 * charsReserved(Len(edges)), chars |-> sequentialCompressWeightedEdgeSet_pd(i, edges)]

\* The first chunk returns from srcTarg's false as byteRLE.h does.  In the others a
\* false sets end to 0, which only the next header looks at: the run it falls in
\* goes on to its last edge.
RECURSIVE laterRuns(_, _, _, _, _)
laterRuns(s, p, last, left, stop) ==
  IF left <= 0 \/ p \notin DOMAIN s THEN <<>>
  ELSE LET r == RunAt(s, p, last)
           k == Len(r[1])
       IN  r[1] \o (IF \E j \in 1 .. k : r[1][j] \in stop THEN <<>>
                    ELSE laterRuns(s, r[2], r[1][k], left - k, stop))

laterChunk(s, p, source, degree, stop) ==
  LET r == eatFirstEdge(s, p, source)
  IN  <<r[1]>> \o (IF r[1] \in stop THEN <<>> ELSE laterRuns(s, r[2], r[1], degree - 1, stop))

decode_pd(s, p, source, degree, c, stop) ==
  LET q == Chunks!chunkStart(s, p, degree, c)
      d == Chunks!chunkDegree(degree, c)
  IN  IF c = 0 THEN decode(s, q, source, d, stop) ELSE laterChunk(s, q, source, d, stop)

RECURSIVE laterWeightedRuns(_, _, _, _, _)
laterWeightedRuns(s, p, last, left, stop) ==
  IF left <= 0 \/ p \notin DOMAIN s THEN <<>>
  ELSE LET r == WeightedRunAt(s, p, last)
           k == Len(r[1])
       IN  r[1] \o (IF \E j \in 1 .. k : r[1][j][1] \in stop THEN <<>>
                    ELSE laterWeightedRuns(s, r[2], r[1][k][1], left - k, stop))

laterWeightedChunk(s, p, source, degree, stop) ==
  LET r == eatFirstEdge(s, p, source)
      w == eatWeight(s, r[2])
  IN  <<<<r[1], w[1]>>>> \o (IF r[1] \in stop THEN <<>>
                             ELSE laterWeightedRuns(s, w[2], r[1], degree - 1, stop))

decodeWgh_pd(s, p, source, degree, c, stop) ==
  LET q == Chunks!chunkStart(s, p, degree, c)
      d == Chunks!chunkDegree(degree, c)
  IN  IF c = 0 THEN decodeWgh(s, q, source, d, stop) ELSE laterWeightedChunk(s, q, source, d, stop)
=============================================================================
