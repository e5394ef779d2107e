---------------------------- MODULE ParallelCode ----------------------------
(***************************************************************************)
(* The layout the -pd.h headers share: a list is cut into chunks of        *)
(* PARALLEL_DEGREE edges, each coded as a list of its own, so that they    *)
(* can be decoded in parallel.  The list starts with a word per chunk but  *)
(* the first: where it begins.  A unit is a byte, or a nibble; a word is   *)
(* word units, the lowest first, each below base.                          *)
(***************************************************************************)
EXTENDS Integers, Sequences, SequencesExt

CONSTANTS PARALLEL_DEGREE,  \* 1000 in the code
          base, word

numChunks(degree) == 1 + (degree - 1) \div PARALLEL_DEGREE
LOCAL Least(a, b) == IF a < b THEN a ELSE b

\* The edges of chunk i, and how many a list of this degree has there.
Chunk(edges, i) == SubSeq(edges, i * PARALLEL_DEGREE + 1, Least((i + 1) * PARALLEL_DEGREE, Len(edges)))
chunkDegree(degree, i) == Least(PARALLEL_DEGREE, degree - i * PARALLEL_DEGREE)

LOCAL Word(e) == [j \in 1 .. word |-> (e \div base ^ (j - 1)) % base]

\* chunks: the code of each chunk of a list that is not empty.
Layout(chunks) ==
  LET header == (Len(chunks) - 1) * word
      before[i \in 1 .. Len(chunks)] ==   \* where chunk i begins, from the start of the list
        IF i = 1 THEN header ELSE before[i - 1] + Len(chunks[i - 1])
  IN  FlattenSeq([i \in 1 .. Len(chunks) - 1 |-> Word(before[i + 1])]) \o FlattenSeq(chunks)

\* Where chunk i of a list at p begins: the first behind the words, the others
\* where pOffsets[i - 1] says.
chunkStart(s, p, degree, i) ==
  LET at == p + (i - 1) * word
      offset == SumFunction([j \in 1 .. word |->
                  (IF at + j - 1 \in DOMAIN s THEN s[at + j - 1] ELSE 0) * base ^ (j - 1)])
  IN  IF i = 0 THEN p + (numChunks(degree) - 1) * word ELSE p + offset
=============================================================================
