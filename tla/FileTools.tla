------------------------------ MODULE FileTools ------------------------------
(***************************************************************************)
(* The graph files of Ligra.  First utils/graphIO.h, what the converters   *)
(* read and write: a text file is [header, words], In[i] of the code being *)
(* words[i + 1]; an edge is <<u, v, w>>, w = 1 in files without weights; a *)
(* vertex's list holds <<target, weight>>; a graph is [n, m, V], V[i] the  *)
(* list of vertex i.  Input files are sequences of lines, each a sequence  *)
(* of numbers; leading comment lines, which every reader drops, are left   *)
(* out.                                                                    *)
(*                                                                         *)
(* Then adjToBinary.C and adjGraphAddWeights.C, the readers of ligra/IO.h, *)
(* encoder.C and decoder.C in the byte code.  A binary graph is [config,   *)
(* idx, adj], the three files; a compressed one is a sequence of cells,    *)
(* each holding one number of whatever width: the skips of the reader      *)
(* count cells instead of bytes.  A graph in memory is [n, m, out, in],    *)
(* lists of <<neighbor, weight>> by vertex.                                *)
(***************************************************************************)
EXTENDS Integers, FiniteSets, FiniteSetsExt, SequencesExt

AdjGraphHeader         == "AdjacencyGraph"
WghAdjGraphHeader      == "WeightedAdjacencyGraph"
AdjHypergraphHeader    == "AdjacencyHypergraph"
WghAdjHypergraphHeader == "WeightedAdjacencyHypergraph"

\* len entries of an array from position o, counted from 0.
Part(w, o, len) == SubSeq(w, o + 1, o + len)
Ones(m) == [i \in 1 .. m |-> 1]
Column(s, c) == [k \in DOMAIN s |-> s[k][c]]

\* The vertex records of a table of n offsets over m edges.
ListsOf(n, m, offsets, targets, weights) ==
  [i \in 0 .. n - 1 |->
     LET o == offsets[i + 1]
         l == (IF i = n - 1 THEN m ELSE offsets[i + 2]) - o
     IN  [j \in 1 .. l |-> <<targets[o + j], weights[o + j]>>]]

\* plusScan of the degrees, and the lists one after the other.
OffsetsOf(n, V) == [i \in 1 .. n |-> SumFunctionOnSet([k \in 0 .. n - 1 |-> Len(V[k])], 0 .. i - 2)]
Joined(n, V) == FlattenSeq([i \in 1 .. n |-> V[i - 1]])

\* intSort::iSort by first component: stable.
iSort(E, n) == FlattenSeq([k \in 1 .. n |-> SelectSeq(E, LAMBDA e : e[1] = k - 1)])
\* What iSort, the offsets and the copy of second components make of a list of edges.
Grouped(E, n) == [i \in 0 .. n - 1 |-> LET L == SelectSeq(E, LAMBDA e : e[1] = i) IN [j \in DOMAIN L |-> <<L[j][2], L[j][3]>>]]
Ascending(S) == SelectSeq([k \in 1 .. Max(S \cup {0}) + 1 |-> k - 1], LAMBDA x : x \in S)
\* The sequences whose k-th element is one of Sets(k).
ProductOf(n, Sets(_)) ==
  LET P[k \in 0 .. n] == IF k = 0 THEN {<<>>} ELSE {Append(p, x) : p \in P[k - 1], x \in Sets(k)} IN P[n]

-----------------------------------------------------------------------------
(* Edge lists.  quickSort is not stable: of the edges with one pair of     *)
(* endpoints any may come first, and the first one stays.                  *)
PairsOf(A) ==
  LET Us == Ascending({e[1] : e \in Range(A)})
      Vs(u) == Ascending({e[2] : e \in {e \in Range(A) : e[1] = u}})
  IN  FlattenSeq([k \in DOMAIN Us |-> [j \in DOMAIN Vs(Us[k]) |-> <<Us[k], Vs(Us[k])[j]>>]])
remDuplicates(A) ==
  {[k \in DOMAIN PairsOf(A) |-> PairsOf(A)[k] \o <<1>>]}
wghRemDuplicates(A) ==
  LET P == PairsOf(A) IN
  ProductOf(Len(P), LAMBDA k : {e \in Range(A) : <<e[1], e[2]>> = P[k]})

NoLoops(A) == SelectSeq(A, LAMBDA e : e[1] # e[2])
Mirrored(A) == [k \in DOMAIN A |-> <<A[k][2], A[k][1], A[k][3]>>]
makeSymmetric(A) == LET F == NoLoops(A) IN remDuplicates(F \o Mirrored(F))
wghMakeSymmetric(A) == LET F == NoLoops(A) IN wghRemDuplicates(F \o Mirrored(F))

\* Both are sets: the graphs that may come out.
graphFromEdges(EA, makeSym) ==
  {[n |-> EA.n, m |-> Len(A), V |-> Grouped(A, EA.n)] : A \in IF makeSym THEN makeSymmetric(EA.E) ELSE {EA.E}}
wghGraphFromWghEdges(EA, makeSym) ==
  {[n |-> EA.n, m |-> Len(A), V |-> Grouped(A, EA.n)] : A \in IF makeSym THEN wghMakeSymmetric(EA.E) ELSE {EA.E}}

hypergraphFromHyperedges(EA) ==
  [nv |-> EA.nv, mv |-> Len(EA.VE), nh |-> EA.nh, mh |-> Len(EA.HE),
   V |-> Grouped(EA.VE, EA.nv), H |-> Grouped(EA.HE, EA.nh)]
wghHypergraphFromWghHyperedges(EA) ==
  [nv |-> EA.nv, mv |-> Len(EA.VE), nh |-> EA.nh, mh |-> Len(EA.HE),
   V |-> Grouped(EA.VE, EA.nv), H |-> Grouped(EA.HE, EA.nh)]

-----------------------------------------------------------------------------
(* Readers of the input formats.                                           *)
stringToWords(lines) == FlattenSeq(lines)
\* Where each line starts in the words.
stringToLinesOfWords(lines) ==
  [W |-> FlattenSeq(lines), Lines |-> [i \in DOMAIN lines |-> Len(FlattenSeq(SubSeq(lines, 1, i - 1)))]]

LargestID(E) == Max({e[1] : e \in Range(E)} \cup {e[2] : e \in Range(E)})
readSNAP(lines) ==
  LET W == stringToWords(lines)
      E == [i \in 1 .. Len(W) \div 2 |-> <<W[2 * i - 1], W[2 * i], 1>>]
  IN  [n |-> LargestID(E) + 1, E |-> E]
readWghSNAP(lines) ==
  LET W == stringToWords(lines)
      E == [i \in 1 .. Len(W) \div 3 |-> <<W[3 * i - 2], W[3 * i - 1], W[3 * i]>>]
  IN  [n |-> LargestID(E) + 1, E |-> E]

\* "compress IDs into contiguous range": the rank of an ID among those that occur.
Rank(IDs, x) == Cardinality({y \in IDs : y < x})
IDsIn(E, c) == {e[c] : e \in Range(E)}

readHyperedges(lines) ==
  LET L == stringToLinesOfWords(lines)
      nh == Len(L.Lines)   m == Len(L.W)
      Line(k) == Max({i \in 1 .. nh : L.Lines[i] < k}) - 1
      E == [k \in 1 .. m |-> <<L.W[k], Line(k), 1>>]
      ID(x) == Rank(IDsIn(E, 1), x)
  IN  [nv |-> Cardinality(IDsIn(E, 1)), nh |-> nh,
       VE |-> [k \in 1 .. m |-> <<ID(E[k][1]), E[k][2], 1>>],
       HE |-> [k \in 1 .. m |-> <<E[k][2], ID(E[k][1]), 1>>]]

\* Every other line is the weight of the hyperedge on the line before it.
readWghHyperedges(lines) ==
  LET L == stringToLinesOfWords(lines)
      n == Len(L.Lines) \div 2
      At(i) == L.Lines[2 * i + 1]
      Degree(i) == L.Lines[2 * i + 2] - L.Lines[2 * i + 1]
      Of(i) == [j \in 1 .. Degree(i) |-> <<L.W[At(i) + j], i, L.W[L.Lines[2 * i + 2] + 1]>>]
      E == FlattenSeq([i \in 1 .. n |-> Of(i - 1)])
      ID(x) == Rank(IDsIn(E, 1), x)
  IN  [nv |-> Cardinality(IDsIn(E, 1)), nh |-> n,
       VE |-> [k \in DOMAIN E |-> <<ID(E[k][1]), E[k][2], E[k][3]>>],
       HE |-> [k \in DOMAIN E |-> <<E[k][2], ID(E[k][1]), E[k][3]>>]]

BothRanked(E) ==
  LET V(x) == Rank(IDsIn(E, 1), x)
      H(x) == Rank(IDsIn(E, 2), x)
  IN  [nv |-> Cardinality(IDsIn(E, 1)), nh |-> Cardinality(IDsIn(E, 2)),
       VE |-> [k \in DOMAIN E |-> <<V(E[k][1]), H(E[k][2]), E[k][3]>>],
       HE |-> [k \in DOMAIN E |-> <<H(E[k][2]), V(E[k][1]), E[k][3]>>]]
readKONECT(lines) ==
  LET W == stringToWords(lines)
  IN  BothRanked([i \in 1 .. Len(W) \div 2 |-> <<W[2 * i - 1], W[2 * i], 1>>])
\* Four numbers a line: vertex, hyperedge, weight, time.
readWghKONECT(lines) ==
  LET W == stringToWords(lines)
  IN  BothRanked([i \in 1 .. Len(W) \div 4 |-> <<W[4 * i - 3], W[4 * i - 2], W[4 * i - 1]>>])

-----------------------------------------------------------------------------
(* Writers of the adjacency formats.                                       *)
writeGraphToFile(G) ==
  [header |-> AdjGraphHeader,
   words |-> <<G.n, G.m>> \o OffsetsOf(G.n, G.V) \o Column(Joined(G.n, G.V), 1)]
writeWghGraphToFile(G) ==
  [header |-> WghAdjGraphHeader,
   words |-> <<G.n, G.m>> \o OffsetsOf(G.n, G.V) \o Column(Joined(G.n, G.V), 1) \o Column(Joined(G.n, G.V), 2)]
writeHypergraphToFile(G) ==
  [header |-> AdjHypergraphHeader,
   words |-> <<G.nv, G.mv, G.nh, G.mh>>
             \o OffsetsOf(G.nv, G.V) \o Column(Joined(G.nv, G.V), 1)
             \o OffsetsOf(G.nh, G.H) \o Column(Joined(G.nh, G.H), 1)]
writeWghHypergraphToFile(G) ==
  [header |-> WghAdjHypergraphHeader,
   words |-> <<G.nv, G.mv, G.nh, G.mh>>
             \o OffsetsOf(G.nv, G.V) \o Column(Joined(G.nv, G.V), 1) \o Column(Joined(G.nv, G.V), 2)
             \o OffsetsOf(G.nh, G.H) \o Column(Joined(G.nh, G.H), 1) \o Column(Joined(G.nh, G.H), 2)]

-----------------------------------------------------------------------------
(* Readers of the adjacency formats; they abort when the file is not OK.   *)
GraphFileOK(f) == f.header = AdjGraphHeader /\ Len(f.words) = f.words[1] + f.words[2] + 2
WghGraphFileOK(f) == f.header = WghAdjGraphHeader /\ Len(f.words) = f.words[1] + 2 * f.words[2] + 2
HypergraphFileOK(f) ==
  f.header = AdjHypergraphHeader /\ Len(f.words) = f.words[1] + f.words[2] + f.words[3] + f.words[4] + 4
WghHypergraphFileOK(f) ==
  f.header = WghAdjHypergraphHeader /\ Len(f.words) = f.words[1] + 2 * f.words[2] + f.words[3] + 2 * f.words[4] + 4

readGraphFromFile(f) ==
  LET n == f.words[1]   m == f.words[2]
  IN  [n |-> n, m |-> m,
       V |-> ListsOf(n, m, Part(f.words, 2, n), Part(f.words, 2 + n, m), Ones(m))]
readHypergraphFromFile(f) ==
  LET nv == f.words[1]   mv == f.words[2]   nh == f.words[3]   mh == f.words[4]
      h == 4 + nv + mv
  IN  [nv |-> nv, mv |-> mv, nh |-> nh, mh |-> mh,
       V |-> ListsOf(nv, mv, Part(f.words, 4, nv), Part(f.words, 4 + nv, mv), Ones(mv)),
       H |-> ListsOf(nh, mh, Part(f.words, h, nh), Part(f.words, h + nh, mh), Ones(mh))]
readWghHypergraphFromFile(f) ==
  LET nv == f.words[1]   mv == f.words[2]   nh == f.words[3]   mh == f.words[4]
      h == 4 + nv + 2 * mv
  IN  [nv |-> nv, mv |-> mv, nh |-> nh, mh |-> mh,
       V |-> ListsOf(nv, mv, Part(f.words, 4, nv), Part(f.words, 4 + nv, mv), Part(f.words, 4 + nv + mv, mv)),
       H |-> ListsOf(nh, mh, Part(f.words, h, nh), Part(f.words, h + nh, mh), Part(f.words, h + nh + mh, mh))]

-----------------------------------------------------------------------------
Code == INSTANCE ByteCode WITH B <- 8, PARALLEL_DEGREE <- 1000

SumOfLens(n, V) == SumFunctionOnSet([i \in 0 .. n - 1 |-> Len(V[i])], 0 .. n - 1)

-----------------------------------------------------------------------------
(* The in-edges: temp holds <<target, source, weight>>, is sorted by its   *)
(* first component, and the first entry of each target, or the closest one *)
(* to the right (scanIBack), is where its list starts.                     *)
Turned(n, V) == FlattenSeq([i \in 1 .. n |-> [j \in DOMAIN V[i - 1] |-> <<V[i - 1][j][1], i - 1, V[i - 1][j][2]>>]])
\* The tables tOffsets may become: when the targets of temp are not all in order
\* several entries start a run of the same target, and any of them may be stored last.
Heads(temp, t) == {k - 1 : k \in {k \in DOMAIN temp : temp[k][1] = t /\ (k = 1 \/ temp[k - 1][1] # t)}}
tOffsetsOf(temp, n, m) ==
  {[i \in 1 .. n |-> Min({m} \cup {h[t] : t \in i .. n})] :
     h \in ProductOf(n, LAMBDA t : IF Heads(temp, t - 1) = {} THEN {m} ELSE Heads(temp, t - 1))}
InListsOf(temp, n) ==
  {ListsOf(n, Len(temp), off, Column(temp, 2), Column(temp, 3)) : off \in tOffsetsOf(temp, n, Len(temp))}
\* Mutant: the sort is left out.
TransposedUnsorted(nTo, nFrom, V) == CHOOSE L \in InListsOf(Turned(nFrom, V), nTo) : TRUE
Transposed(nTo, nFrom, V) == CHOOSE L \in InListsOf(iSort(Turned(nFrom, V), nTo), nTo) : TRUE

-----------------------------------------------------------------------------
\* adjToBinary
adjToBinary(f, weighted) ==
  LET n == f.words[1]   m == f.words[2]
  IN  [config |-> n, idx |-> Part(f.words, 2, n), adj |-> Part(f.words, 2 + n, IF weighted THEN 2 * m ELSE m)]

(* adjGraphAddWeights: a weight for each edge, then, of the two directions *)
(* of an edge, the one from the smaller vertex takes the other's weight.   *)
maxEdgeLen(n) == Max({k \in 0 .. n : 2 ^ k <= n})
symmetrize(V) ==
  [i \in DOMAIN V |-> [j \in DOMAIN V[i] |->
     LET ngh == V[i][j][1]
         back == {k \in DOMAIN V[ngh] : V[ngh][k][1] = i}
     IN  IF ngh > i /\ back # {} THEN <<ngh, V[ngh][Min(back)][2]>> ELSE V[i][j]]]
AddedWeights(G, w) ==   \* w: the weight drawn for each index of the edge array
  LET W == [i \in DOMAIN G.V |-> [j \in DOMAIN G.V[i] |-> <<G.V[i][j][1], w[OffsetsOf(G.n, G.V)[i + 1] + j]>>]]
  IN  [n |-> G.n, m |-> G.m, V |-> symmetrize(W)]
adjGraphAddWeights(f) ==
  LET G == readGraphFromFile(f)
  IN  {writeWghGraphToFile(AddedWeights(G, w)) : w \in [1 .. G.m -> 1 .. maxEdgeLen(G.n)]}

-----------------------------------------------------------------------------
(* ligra/IO.h.                                                             *)
outOfText(f, weighted) ==
  LET n == f.words[1]   m == f.words[2]
  IN  [n |-> n, m |-> m,
       out |-> ListsOf(n, m, Part(f.words, 2, n), Part(f.words, 2 + n, m),
                       IF weighted THEN Part(f.words, 2 + n + m, m) ELSE Ones(m))]
inOfText(G, isSymmetric) == IF isSymmetric THEN G.out ELSE Transposed(G.n, G.n, G.out)

outOfBinary(b, weighted) ==
  LET n == b.config
      m == IF weighted THEN Len(b.adj) \div 2 ELSE Len(b.adj)
  IN  [n |-> n, m |-> m,
       out |-> ListsOf(n, m, b.idx, b.adj, IF weighted THEN Part(b.adj, m, m) ELSE Ones(m))]
inOfBinary(G, isSymmetric) == IF isSymmetric THEN G.out ELSE Transposed(G.n, G.n, G.out)

LoadedText(f, weighted, isSymmetric) ==
  LET G == outOfText(f, weighted) IN [n |-> G.n, m |-> G.m, out |-> G.out, in |-> inOfText(G, isSymmetric)]
LoadedBinary(b, weighted, isSymmetric) ==
  LET G == outOfBinary(b, weighted) IN [n |-> G.n, m |-> G.m, out |-> G.out, in |-> inOfBinary(G, isSymmetric)]
readGraph(f, b, binary, weighted, isSymmetric) ==
  IF binary THEN LoadedBinary(b, weighted, isSymmetric) ELSE LoadedText(f, weighted, isSymmetric)

\* What decode hands out of the lists that start at offsets in chars.
Unweighted(L) == [k \in DOMAIN L |-> <<L[k], 1>>]
Decoded(chars, offset, i, d, weighted) ==
  IF weighted THEN Code!decodeWgh(chars, offset + 1, i, d, {})
  ELSE Unweighted(Code!decode(chars, offset + 1, i, d, {}))

\* The lists of n vertices of the cells from skip on, with total cells of edges.
ListsAt(s, skip, n, total, weighted) ==
  LET offsets == Part(s, skip, n)
      Degrees == Part(s, skip + n + 1, n)
      chars   == Part(s, skip + n + 1 + n, total)
  IN  [i \in 0 .. n - 1 |-> Decoded(chars, offsets[i + 1], i, Degrees[i + 1], weighted)]

readCompressedGraph(s, weighted, isSymmetric) ==
  LET n == s[1]   m == s[2]   totalSpace == s[3]
      skip == 3 + (n + 1) + n + totalSpace
      out == ListsAt(s, 3, n, totalSpace, weighted)
  IN  [n |-> n, m |-> m, out |-> out,
       in |-> IF isSymmetric THEN out ELSE ListsAt(s, skip + 1, n, s[skip + 1], weighted)]

-----------------------------------------------------------------------------
(* encoder.C.  A vertex's list is sorted, self edges and duplicates are    *)
(* removed; of duplicates with different weights any may be the one kept.  *)
Kept(L, targets) ==
  LET T == Ascending(targets) IN ProductOf(Len(T), LAMBDA k : {e \in Range(L) : e[1] = T[k]})
cleanList(i, L) == Kept(L, {e[1] : e \in Range(L)} \ {i})
wghCleanList(i, L) == Kept(L, {e[1] : e \in Range(L)} \ {i})
Choosing(n, Sets(_)) == {[i \in 0 .. n - 1 |-> c[i + 1]] : c \in ProductOf(n, LAMBDA k : Sets(k - 1))}

Packed(i, L, weighted) ==
  IF weighted THEN Code!parallelCompressWeightedEdges(i, L).chars
  ELSE Code!parallelCompressEdges(i, Column(L, 1)).chars

\* offsets, degrees and edges as they are written: the offsets count compressed cells.
Cells(n, V, weighted) ==
  LET chars == [i \in 0 .. n - 1 |-> Packed(i, V[i], weighted)]
  IN  [space |-> SumOfLens(n, chars),
       cells |-> OffsetsOf(n, chars) \o <<SumOfLens(n, chars)>> \o [i \in 1 .. n |-> Len(V[i - 1])] \o Joined(n, chars)]

\* quickSort with pairBothCmp, tripleCmp: by target, then by source.
Swapped(temp) == [k \in DOMAIN temp |-> <<temp[k][2], temp[k][1], temp[k][3]>>]
SortedBoth(temp, nTo, nFrom) == iSort(Swapped(iSort(Swapped(temp), nFrom)), nTo)
InEdges(nTo, nFrom, V) == CHOOSE L \in InListsOf(SortedBoth(Turned(nFrom, V), nTo, nFrom), nTo) : TRUE

\* Mutant: the number of edges is taken for that of the cells.
outPartMisnamed(n, V, weighted) == LET c == Cells(n, V, weighted) IN <<n, c.space, c.space>> \o c.cells
outPart(n, V, weighted) == LET c == Cells(n, V, weighted) IN <<n, SumOfLens(n, V), c.space>> \o c.cells
inPart(n, V, weighted) ==
  LET c == Cells(n, InEdges(n, n, V), weighted) IN <<c.space>> \o c.cells
wghOutPart(n, V) == outPart(n, V, TRUE)
wghInPart(n, V) == inPart(n, V, TRUE)

DegreesInBounds(G) == \A i \in 0 .. G.n - 1 : Len(G.out[i]) <= G.n
\* G: the lists of the input, a text file's or, with -b, a binary one's.
encodeGraphFromFile(G, isSymmetric) ==
  {outPart(G.n, V, FALSE) \o (IF isSymmetric THEN <<>> ELSE inPart(G.n, V, FALSE))
     : V \in Choosing(G.n, LAMBDA i : cleanList(i, G.out[i]))}
encodeWeightedGraphFromFile(G, isSymmetric) ==
  {wghOutPart(G.n, V) \o (IF isSymmetric THEN <<>> ELSE wghInPart(G.n, V))
     : V \in Choosing(G.n, LAMBDA i : wghCleanList(i, G.out[i]))}

\* decoder.C.
writeAdjGraph(n, V, weighted) == Column(Joined(n, V), 1) \o (IF weighted THEN Column(Joined(n, V), 2) ELSE <<>>)
decoder(G, weighted) ==
  [header |-> IF weighted THEN WghAdjGraphHeader ELSE AdjGraphHeader,
   words |-> <<G.n, G.m>> \o OffsetsOf(G.n, G.out) \o writeAdjGraph(G.n, G.out, weighted)]

-----------------------------------------------------------------------------
(* Hypergraphs: the converters into them, hyperAdjToBinary.C,              *)
(* adjHypergraphAddWeights.C, ligra/hypergraphIO.h, hypergraphEncoder.C    *)
(* and hypergraphDecoder.C.  A hypergraph in memory is [nv, mv, nh, mh, V, *)
(* H, inV, inH]: V[i] lists the hyperedges vertex i is a source of, H[i]   *)
(* the vertices hyperedge i leads to; the in-lists turn the other side's   *)
(* out-lists around.                                                       *)

\* communityToHyperAdj and KONECTtoHyperAdj.
communityToHyperAdj(lines, wgh) ==
  IF wgh THEN writeWghHypergraphToFile(wghHypergraphFromWghHyperedges(readWghHyperedges(lines)))
  ELSE writeHypergraphToFile(hypergraphFromHyperedges(readHyperedges(lines)))
KONECTtoHyperAdj(lines, wgh) ==
  IF wgh THEN writeWghHypergraphToFile(wghHypergraphFromWghHyperedges(readWghKONECT(lines)))
  ELSE writeHypergraphToFile(hypergraphFromHyperedges(readKONECT(lines)))

(* communityToClique and KONECTtoClique: an edge for every ordered pair of *)
(* a hyperedge's members, with the hyperedge's weight.                     *)
CliqueOf(L, w) ==
  FlattenSeq([j \in DOMAIN L |-> FlattenSeq([d \in 1 .. Len(L) - j |->
                <<<<L[j][1], L[j + d][1], w>>, <<L[j + d][1], L[j][1], w>>>>])])
CliqueGraph(EA, Weight) ==
  LET H == Grouped(EA.HE, EA.nh)
      edges == FlattenSeq([i \in 1 .. EA.nh |-> CliqueOf(H[i - 1], Weight[i - 1])])
  IN  [n |-> EA.nv, m |-> Len(edges), V |-> Grouped(edges, EA.nv)]
cliquesFromHyperedges(EA) == CliqueGraph(EA, [i \in 0 .. EA.nh - 1 |-> 1])
KONECTcliquesFromHyperedges(EA) == CliqueGraph(EA, [i \in 0 .. EA.nh - 1 |-> 1])
CliqueWeights(EA) == [0 .. EA.nh - 1 -> 1 .. maxEdgeLen(IF EA.nv > EA.nh THEN EA.nv ELSE EA.nh)]
wghCliquesFromHyperedges(EA) == {CliqueGraph(EA, w) : w \in CliqueWeights(EA)}
KONECTwghCliquesFromHyperedges(EA) == {CliqueGraph(EA, w) : w \in CliqueWeights(EA)}

-----------------------------------------------------------------------------
\* adjHypergraphAddWeights: two weights for each hyperedge, one into it and one out of it.
WeightsInOut(nv, nh) == [0 .. nh - 1 -> 1 .. maxEdgeLen(IF nv > nh THEN nv ELSE nh)]
adjHypergraphAddWeights(f) ==
  LET G == readHypergraphFromFile(f)
      Weigh(InW, OutW) ==
        [nv |-> G.nv, mv |-> G.mv, nh |-> G.nh, mh |-> G.mh,
         V |-> [i \in DOMAIN G.V |-> [j \in DOMAIN G.V[i] |-> <<G.V[i][j][1], InW[G.V[i][j][1]]>>]],
         H |-> [i \in DOMAIN G.H |-> [j \in DOMAIN G.H[i] |-> <<G.H[i][j][1], OutW[i]>>]]]
  IN  {writeWghHypergraphToFile(Weigh(InW, OutW)) : InW \in WeightsInOut(G.nv, G.nh), OutW \in WeightsInOut(G.nv, G.nh)}

hyperAdjToBinary(f, weighted) ==
  LET nv == f.words[1]   mv == f.words[2]   nh == f.words[3]   mh == f.words[4]
      Cols(m) == IF weighted THEN 2 * m ELSE m
      h == 4 + nv + Cols(mv)
  IN  [config |-> <<nv, mv, nh, mh>>,
       vidx |-> Part(f.words, 4, nv), vadj |-> Part(f.words, 4 + nv, Cols(mv)),
       hidx |-> Part(f.words, h, nh), hadj |-> Part(f.words, h + nh, Cols(mh))]

-----------------------------------------------------------------------------
(* ligra/hypergraphIO.h.                                                   *)
EdgesInRange(f, weighted) ==
  LET G == IF weighted THEN readWghHypergraphFromFile(f) ELSE readHypergraphFromFile(f)
  IN  /\ \A i \in DOMAIN G.V : \A k \in DOMAIN G.V[i] : G.V[i][k][1] \in 0 .. G.nh - 1
      /\ \A i \in DOMAIN G.H : \A k \in DOMAIN G.H[i] : G.H[i][k][1] \in 0 .. G.nv - 1
outOfHyperText(f, weighted) ==
  LET nv == f.words[1]   mv == f.words[2]   nh == f.words[3]   mh == f.words[4]
      Cols(m) == IF weighted THEN 2 * m ELSE m
      h == 4 + nv + Cols(mv)
  IN  [nv |-> nv, mv |-> mv, nh |-> nh, mh |-> mh,
       V |-> ListsOf(nv, mv, Part(f.words, 4, nv), Part(f.words, 4 + nv, mv),
                     IF weighted THEN Part(f.words, 4 + nv + mv, mv) ELSE Ones(mv)),
       H |-> ListsOf(nh, mh, Part(f.words, h, nh), Part(f.words, h + nh, mh),
                     IF weighted THEN Part(f.words, h + nh + mh, mh) ELSE Ones(mh))]
\* Without -s: in-edges of vertices from the out-edges of hyperedges, and the reverse.
inOfVertices(G, isSymmetric)   == IF isSymmetric THEN G.V ELSE Transposed(G.nv, G.nh, G.H)
inOfHyperedges(G, isSymmetric) == IF isSymmetric THEN G.H ELSE Transposed(G.nh, G.nv, G.V)

\* The weights of the vertices' edges are taken from i + mh on; beyond the file a
\* read finds whatever malloc left, here 0.
outOfHyperBinary(b, weighted) ==
  LET nv == b.config[1]   mv == b.config[2]   nh == b.config[3]   mh == b.config[4]
      Word(w, k) == IF k \in DOMAIN w THEN w[k] ELSE 0
  IN  [nv |-> nv, mv |-> mv, nh |-> nh, mh |-> mh,
       V |-> ListsOf(nv, mv, b.vidx, b.vadj, IF weighted THEN [i \in 1 .. mv |-> Word(b.vadj, i + mh)] ELSE Ones(mv)),
       H |-> ListsOf(nh, mh, b.hidx, b.hadj, IF weighted THEN [i \in 1 .. mh |-> Word(b.hadj, i + mh)] ELSE Ones(mh))]
inOfVerticesBinary(G, isSymmetric)   == IF isSymmetric THEN G.V ELSE Transposed(G.nv, G.nh, G.H)
inOfHyperedgesBinary(G, isSymmetric) == IF isSymmetric THEN G.H ELSE Transposed(G.nh, G.nv, G.V)

Hyper(G, inV, inH) ==
  [nv |-> G.nv, mv |-> G.mv, nh |-> G.nh, mh |-> G.mh, V |-> G.V, H |-> G.H, inV |-> inV, inH |-> inH]
readHypergraph(f, b, binary, weighted, isSymmetric) ==
  IF binary
  THEN LET G == outOfHyperBinary(b, weighted)
       IN  Hyper(G, inOfVerticesBinary(G, isSymmetric), inOfHyperedgesBinary(G, isSymmetric))
  ELSE LET G == outOfHyperText(f, weighted)
       IN  Hyper(G, inOfVertices(G, isSymmetric), inOfHyperedges(G, isSymmetric))

\* The tables of the vertices, then those of the hyperedges, each with its in-edges behind it.
readCompressedHypergraph(s, weighted, isSymmetric) ==
  LET nv == s[1]
      inV == 3 + (nv + 1) + nv + s[3]
      skip == IF isSymmetric THEN inV ELSE inV + 1 + (nv + 1) + nv + s[inV + 1]
      nh == s[skip + 1]
      inH == skip + 3 + (nh + 1) + nh + s[skip + 3]
      V == ListsAt(s, 3, nv, s[3], weighted)
      H == ListsAt(s, skip + 3, nh, s[skip + 3], weighted)
  IN  [nv |-> nv, mv |-> s[2], nh |-> nh, mh |-> s[skip + 2], V |-> V, H |-> H,
       inV |-> IF isSymmetric THEN V ELSE ListsAt(s, inV + 1, nv, s[inV + 1], weighted),
       inH |-> IF isSymmetric THEN H ELSE ListsAt(s, inH + 1, nh, s[inH + 1], weighted)]

-----------------------------------------------------------------------------
(* hypergraphEncoder.C: duplicates go; there are no self edges.            *)
DegreesWithin(G) == /\ \A i \in 0 .. G.nv - 1 : Len(G.V[i]) <= G.nh
                    /\ \A i \in 0 .. G.nh - 1 : Len(G.H[i]) <= G.nv
cleanV(L)    == Kept(L, {e[1] : e \in Range(L)})
cleanH(L)    == Kept(L, {e[1] : e \in Range(L)})
wghCleanV(L) == Kept(L, {e[1] : e \in Range(L)})
wghCleanH(L) == Kept(L, {e[1] : e \in Range(L)})

\* Without -s: each side's lists and, behind them, its in-edges, from the other side's lists.
inCells(n, L, weighted) == LET c == Cells(n, L, weighted) IN <<c.space>> \o c.cells
edgesOfV(nv, nh, V, H) == outPart(nv, V, FALSE) \o inCells(nv, InEdges(nv, nh, H), FALSE)
edgesOfH(nv, nh, V, H) == outPart(nh, H, FALSE) \o inCells(nh, InEdges(nh, nv, V), FALSE)
symmetricEdges(nv, nh, V, H) == outPart(nv, V, FALSE) \o outPart(nh, H, FALSE)

wghEdgesOfV(nv, nh, V, H) == outPart(nv, V, TRUE) \o inCells(nv, InEdges(nv, nh, H), TRUE)
\* With weights, temp holds the mv edges of the vertices but its first mh entries are
\* sorted; what is past the array when mh > mv is left out of the model.
wghEdgesOfH(nv, nh, V, H) ==
  LET temp == Turned(nv, V)
      mh == SumOfLens(nh, H)
      sorted == SortedBoth(SubSeq(temp, 1, IF mh < Len(temp) THEN mh ELSE Len(temp)), nh, nv)
  IN  {outPart(nh, H, TRUE) \o inCells(nh, L, TRUE) : L \in InListsOf(sorted \o SubSeq(temp, Len(sorted) + 1, Len(temp)), nh)}
wghSymmetricEdges(nv, nh, V, H) == outPart(nv, V, TRUE) \o outPart(nh, H, TRUE)

\* G: the lists of the input, a text file's or, with -b, a binary one's.
encodeHypergraphFromFile(G, isSymmetric) ==
  {IF isSymmetric THEN symmetricEdges(G.nv, G.nh, V, H) ELSE edgesOfV(G.nv, G.nh, V, H) \o edgesOfH(G.nv, G.nh, V, H)
     : V \in Choosing(G.nv, LAMBDA i : cleanV(G.V[i])), H \in Choosing(G.nh, LAMBDA i : cleanH(G.H[i]))}
encodeWeightedHypergraphFromFile(G, isSymmetric) ==
  UNION {IF isSymmetric THEN {wghSymmetricEdges(G.nv, G.nh, V, H)}
         ELSE {wghEdgesOfV(G.nv, G.nh, V, H) \o part : part \in wghEdgesOfH(G.nv, G.nh, V, H)}
           : V \in Choosing(G.nv, LAMBDA i : wghCleanV(G.V[i])), H \in Choosing(G.nh, LAMBDA i : wghCleanH(G.H[i]))}

hypergraphDecoder(G, weighted) ==
  [header |-> IF weighted THEN WghAdjHypergraphHeader ELSE AdjHypergraphHeader,
   words |-> <<G.nv, G.mv, G.nh, G.mh>>
             \o OffsetsOf(G.nv, G.V) \o writeAdjGraph(G.nv, G.V, weighted)
             \o OffsetsOf(G.nh, G.H) \o writeAdjGraph(G.nh, G.H, weighted)]

-----------------------------------------------------------------------------
(***************************************************************************)
(* A user at work with the converters, the encoders and decoders and the   *)
(* applications' readers: from an input in a foreign format, or a          *)
(* hypergraph file of his own, over any sequence of tools to a graph in    *)
(* memory.  A tool that finds its input wrong aborts before it writes; the *)
(* guards are those checks.                                                *)
(*                                                                         *)
(* A job is [kind, format, lines, text, weighted, addWeights, sym, wantV,  *)
(* wantH]: the input, in lines, or in text when it is the user's own       *)
(* adjacency file; whether it has weights, or is to get some; the -s every *)
(* tool is given; and the edges <<u, v, w>> the input stands for, from the *)
(* vertices and from the hyperedges.                                       *)
(***************************************************************************)
CONSTANT Jobs
\* What Jobs has to be; Storage assumes it.
InputsOK ==
  \A j \in Jobs : /\ j.kind \in {"graph", "hypergraph"}
                  /\ j.format \in {"SNAP", "clique", "KONECTclique", "community", "KONECT", "own"}
                  /\ {j.weighted, j.addWeights, j.sym} \subseteq BOOLEAN

VARIABLES
  job,
  text, binary, compressed,   \* the files, <<>> before they are written
  weighted,                   \* whether the text file has weights
  memory                      \* what the last application read, <<>> at first
vars == <<job, text, binary, compressed, weighted, memory>>

Init == /\ job \in Jobs
        /\ text = job.text /\ binary = <<>> /\ compressed = <<>>
        /\ weighted = job.weighted
        /\ memory = <<>>

GraphJob == job.kind = "graph"
Written(f) == f # <<>>
TextOK == /\ Written(text)
          /\ IF GraphJob THEN IF weighted THEN WghGraphFileOK(text) ELSE GraphFileOK(text)
             ELSE IF weighted THEN WghHypergraphFileOK(text) ELSE HypergraphFileOK(text)
UnweightedTextOK == Written(text) /\ IF GraphJob THEN GraphFileOK(text) ELSE HypergraphFileOK(text)

SNAPtoAdj == /\ job.format = "SNAP" /\ ~job.weighted
             /\ \E G \in graphFromEdges(readSNAP(job.lines), job.sym) : text' = writeGraphToFile(G)
wghSNAPtoAdj == /\ job.format = "SNAP" /\ job.weighted
                /\ \E G \in wghGraphFromWghEdges(readWghSNAP(job.lines), job.sym) : text' = writeWghGraphToFile(G)
communityToClique ==
  /\ job.format = "clique"
  /\ IF job.weighted THEN \E G \in wghCliquesFromHyperedges(readHyperedges(job.lines)) : text' = writeWghGraphToFile(G)
     ELSE text' = writeGraphToFile(cliquesFromHyperedges(readHyperedges(job.lines)))
KONECTtoClique ==
  /\ job.format = "KONECTclique"
  /\ IF job.weighted THEN \E G \in KONECTwghCliquesFromHyperedges(readKONECT(job.lines)) : text' = writeWghGraphToFile(G)
     ELSE text' = writeGraphToFile(KONECTcliquesFromHyperedges(readKONECT(job.lines)))
toHyperAdj == \/ job.format = "community" /\ text' = communityToHyperAdj(job.lines, job.weighted)
              \/ job.format = "KONECT" /\ text' = KONECTtoHyperAdj(job.lines, job.weighted)

Convert ==
  /\ text = <<>>
  /\ SNAPtoAdj \/ wghSNAPtoAdj \/ communityToClique \/ KONECTtoClique \/ toHyperAdj
  /\ UNCHANGED <<job, binary, compressed, weighted, memory>>

\* The user adds weights before anything else is made of the file.
AddWeights ==
  /\ job.addWeights /\ ~weighted /\ UnweightedTextOK
  /\ binary = <<>> /\ compressed = <<>> /\ memory = <<>>
  /\ weighted' = TRUE
  /\ text' \in IF GraphJob THEN adjGraphAddWeights(text) ELSE adjHypergraphAddWeights(text)
  /\ UNCHANGED <<job, binary, compressed, memory>>

ToBinary ==
  /\ TextOK /\ binary = <<>>
  /\ binary' = IF GraphJob THEN adjToBinary(text, weighted) ELSE hyperAdjToBinary(text, weighted)
  /\ UNCHANGED <<job, text, compressed, weighted, memory>>

\* With -b the encoders read binary files, but take them to have no weights.  They abort
\* also on targets out of range, which no file of a Job has; that check is left out.
Encode(fromBinary) ==
  /\ compressed = <<>>
  /\ IF fromBinary THEN Written(binary) /\ ~weighted ELSE TextOK
  /\ IF GraphJob
     THEN LET G == IF fromBinary THEN outOfBinary(binary, FALSE) ELSE outOfText(text, weighted)
          IN  /\ DegreesInBounds(G)
              /\ compressed' \in IF weighted THEN encodeWeightedGraphFromFile(G, job.sym)
                                 ELSE encodeGraphFromFile(G, job.sym)
     ELSE LET G == IF fromBinary THEN outOfHyperBinary(binary, FALSE) ELSE outOfHyperText(text, weighted)
          IN  /\ DegreesWithin(G)
              /\ compressed' \in IF weighted THEN encodeWeightedHypergraphFromFile(G, job.sym)
                                 ELSE encodeHypergraphFromFile(G, job.sym)
  /\ UNCHANGED <<job, text, binary, weighted, memory>>

\* decoder reads the file as a symmetric graph, its out-edges alone; hypergraphDecoder has
\* to be told -s.
Decode ==
  /\ Written(compressed)
  /\ IF GraphJob THEN \E G \in {readCompressedGraph(compressed, weighted, TRUE)} : text' = decoder(G, weighted)
     ELSE \E G \in {readCompressedHypergraph(compressed, weighted, job.sym)} : text' = hypergraphDecoder(G, weighted)
  /\ UNCHANGED <<job, binary, compressed, weighted, memory>>

Load(fromBinary) ==
  /\ IF fromBinary THEN Written(binary) ELSE TextOK
  /\ IF GraphJob THEN memory' = readGraph(text, binary, fromBinary, weighted, job.sym)
     ELSE /\ fromBinary \/ EdgesInRange(text, weighted)
          /\ memory' = readHypergraph(text, binary, fromBinary, weighted, job.sym)
  /\ UNCHANGED <<job, text, binary, compressed, weighted>>

LoadCompressed ==
  /\ Written(compressed)
  /\ memory' = IF GraphJob THEN readCompressedGraph(compressed, weighted, job.sym)
               ELSE readCompressedHypergraph(compressed, weighted, job.sym)
  /\ UNCHANGED <<job, text, binary, compressed, weighted>>

Next == \/ Convert \/ AddWeights \/ ToBinary \/ Decode \/ LoadCompressed
        \/ \E fromBinary \in BOOLEAN : Encode(fromBinary) \/ Load(fromBinary)
Spec == Init /\ [][Next]_vars

-----------------------------------------------------------------------------
Loaded == memory # <<>>
\* How often the list of u holds <<v, w>>.
Times(L, e) == Cardinality({k \in DOMAIN L : L[k] = e})
\* in is what out is from the other end: with the same weights, and as often.
Reversed(out, in) ==
  LET Held(V) == UNION {{V[i][k][2] : k \in DOMAIN V[i]} : i \in DOMAIN V}
  IN  /\ \A u \in DOMAIN out, v \in DOMAIN in, w \in Held(out) \cup Held(in) : Times(out[u], <<v, w>>) = Times(in[v], <<u, w>>)
      /\ \A u \in DOMAIN out : {out[u][k][1] : k \in DOMAIN out[u]} \subseteq DOMAIN in
      /\ \A v \in DOMAIN in : {in[v][k][1] : k \in DOMAIN in[v]} \subseteq DOMAIN out

(* Whatever tools it went through, a loaded graph's in-edges are its       *)
(* out-edges turned around, with their weights; of a graph made symmetric  *)
(* and loaded with -s, whose one list serves as both, this says that it is *)
(* symmetric.  It is about the in-edge passes of IO.h and encoder.C and    *)
(* about makeSymmetric and adjGraphAddWeights.                             *)
InEdgesMirrorOutEdges ==
  Loaded => IF GraphJob THEN Reversed(memory.out, memory.in)
            ELSE Reversed(memory.V, memory.inH) /\ Reversed(memory.H, memory.inV)

\* V holds the pairs of want, self edges aside in a graph, and only weights it gives.
Holds(V, m, want) ==
  LET Of(u) == {e \in Range(V[u]) : ~GraphJob \/ e[1] # u}
      Wanted == {e \in want : ~GraphJob \/ e[1] # e[2]}
  IN  /\ UNION {{<<u, e[1]>> : e \in Of(u)} : u \in DOMAIN V} = {<<e[1], e[2]>> : e \in Wanted}
      /\ job.weighted /\ job.format \notin {"clique", "KONECTclique"}
           => \A u \in DOMAIN V : \A e \in Of(u) : <<u, e[1], e[2]>> \in Wanted
      /\ m = SumOfLens(Cardinality(DOMAIN V), V)

(* What an application reads is what the user put in: no tool, and no      *)
(* sequence of tools, loses an edge, invents one or gives it the weight of *)
(* another.  It is about the offsets, degrees and skips the writers and    *)
(* the readers of the three formats have to agree on.                      *)
MemoryHoldsInput ==
  Loaded => IF GraphJob THEN Holds(memory.out, memory.m, job.wantV)
            ELSE Holds(memory.V, memory.mv, job.wantV) /\ Holds(memory.H, memory.mh, job.wantH)
=============================================================================
