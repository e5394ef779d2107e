----------------------------- MODULE MCStorage -----------------------------
(***************************************************************************)
(* Files for the loader, lists for the codes, and jobs for the tools.      *)
(***************************************************************************)
EXTENDS Storage, SequencesExt

OffsetTables(n, m) == {o \in [0 .. n - 1 -> 0 .. m] :
                         o[0] = 0 /\ \A i \in 1 .. n - 1 : o[i - 1] <= o[i]}
AdjacencyFiles(n, m, symmetric) ==
  {[kind |-> "AdjacencyGraph", symmetric |-> symmetric, n |-> n, m |-> m,
    offsets |-> o, targets |-> t, words |-> 3 + n + m] :
     o \in OffsetTables(n, m), t \in [0 .. m - 1 -> 0 .. n - 1]}
WrongFiles == {[f EXCEPT !.kind = "WeightedAdjacencyGraph"] : f \in AdjacencyFiles(3, 1, FALSE)}
              \cup {[f EXCEPT !.words = 9] : f \in AdjacencyFiles(3, 1, FALSE)}

\* Every graph of three vertices and up to three edges, of five vertices and up to two
\* (whose offsets have block sums), of nine vertices and one edge (whose block sums have
\* block sums), with and without -s, and files with a wrong header or number of words.
MCFiles == WrongFiles \cup UNION {AdjacencyFiles(3, m, FALSE) : m \in 1 .. 3}
                      \cup UNION {AdjacencyFiles(5, m, FALSE) : m \in 1 .. 2}
                      \cup AdjacencyFiles(9, 1, FALSE)
                      \cup UNION {AdjacencyFiles(3, m, TRUE) : m \in 0 .. 2}

\* For the runs about another form.
OneFile == AdjacencyFiles(1, 0, TRUE)
None == {}

-----------------------------------------------------------------------------
\* Lists.  With bytes of 4 bits and nibbles of 2 a difference of 1 takes one byte of any
\* code, 20 two, 300 three and 5000 four of the run length code, whose runs are full at 4
\* edges, weighted ones at 2.  Vertex 3 has one of many lists, vertex 40 always the same.
MCSources == {3, 40}
AllCodes == {"byte", "nibble", "rle", "byte-pd", "nibble-pd", "rle-pd"}

FromDiffs(first, ds) ==
  LET t[k \in 1 .. Len(ds) + 1] == IF k = 1 THEN first ELSE t[k - 1] + ds[k - 1] IN [k \in 1 .. Len(ds) + 1 |-> t[k]]

\* Every list of at most k + 1 edges, lists of equal differences up to 9 edges, no list.
ShortLists(D, k) == {<<>>} \cup UNION {{FromDiffs(first, ds) : ds \in UNION {[1 .. j -> D] : j \in 0 .. k}} : first \in {0, 8}}
LongLists == {FromDiffs(0, [j \in 1 .. k |-> d]) : k \in 4 .. 8, d \in {1, 20}}

Of40 == <<39, 41, 60>>
Weigh(edges, ws) == [k \in DOMAIN edges |-> <<edges[k], ws[1 + (k % Len(ws))]>>]
KeepSets(edges, all) ==
  LET any == {edges[k] : k \in DOMAIN edges}
  IN  IF all THEN {S \cup {39, 60} : S \in SUBSET any} ELSE {{}, any \cup {39, 41, 60}}

Unweighted(c, lists, all) ==
  {[code |-> c, weighted |-> FALSE, adj |-> [u \in MCSources |-> IF u = 3 THEN l ELSE Of40], keeps |-> KeepSets(l, all)]
     : l \in lists}
Weighted(c, lists, weights) ==
  {[code |-> c, weighted |-> TRUE, adj |-> [u \in MCSources |-> Weigh(IF u = 3 THEN l ELSE Of40, ws)], keeps |-> {}]
     : l \in lists, ws \in weights}

MCInputs ==
  UNION {Unweighted(c, ShortLists({1, 20, 300, 5000}, 3) \cup LongLists, FALSE) : c \in AllCodes}
  \cup UNION {Unweighted(c, ShortLists({1, 20, 300}, 3), TRUE) : c \in {"byte", "nibble"}}
  \cup UNION {Weighted(c, ShortLists({1, 20, 5000}, 3) \cup LongLists, {<<1>>, <<-20>>, <<-1, 20, 3>>}) : c \in AllCodes}

\* The run length codes with differences of three bytes and weights of one and of four.
WeightedRunInputs == UNION {Weighted(c, ShortLists({1, 300}, 2), {<<1>>, <<20>>}) : c \in {"rle", "rle-pd"}}

\* With the widths of the code: 40 edges, each with a difference of 9 nibbles and a
\* weight of 11.
LongNumbers == Weighted("nibble", {FromDiffs(0, [j \in 1 .. 39 |-> 2 ^ 24])}, {<<2 ^ 29>>})

-----------------------------------------------------------------------------
\* Jobs.  At most four vertices, with self edges, duplicates, vertices without edges at
\* either end and gaps in the foreign IDs.
Both(S) == S \cup {<<x[2], x[1], x[3]>> : x \in S}
Job(kind, format, lines, ownFile, w, add, sym, wantV, wantH) ==
  [kind |-> kind, format |-> format, lines |-> lines, text |-> ownFile, weighted |-> w, addWeights |-> add,
   sym |-> sym, wantV |-> wantV, wantH |-> wantH]

\* Graphs: lists of edges <<u, v, w>>.
Ends == {0, 1, 2}
Pairs(k) == [1 .. k -> Ends \X Ends]
Snap(E, w, add, sym) ==
  Job("graph", "SNAP", [k \in DOMAIN E |-> IF w THEN E[k] ELSE <<E[k][1], E[k][2]>>], <<>>, w, add, sym,
      IF sym THEN Both(Range(E)) ELSE Range(E), {})
Proper(E) == \E k \in DOMAIN E : E[k][1] # E[k][2]
Weight1(E) == [k \in DOMAIN E |-> E[k] \o <<1>>]
\* A weight for each pair of ends, and one for each line.
ByPair(E) == [k \in DOMAIN E |-> E[k] \o <<100 * (E[k][1] + E[k][2]) - 150>>]
ByLine(E) == [k \in DOMAIN E |-> E[k] \o <<10 ^ k>>]
EdgeLists == {E \in UNION {Pairs(k) : k \in 1 .. 2} : Proper(E)}
         \cup {E \in Pairs(3) : Proper(E) /\ E[1] = <<2, 0>> /\ E[2] \in {<<0, 1>>, <<2, 0>>, <<1, 0>>}}
Square == {<<<<0, 1, 1>>, <<1, 3, 1>>, <<3, 2, 1>>, <<0, 3, 1>>>>, <<<<3, 0, 1>>, <<3, 0, 1>>, <<1, 0, 1>>>>}
GraphJobs ==
  {Snap(Weight1(E), FALSE, FALSE, sym) : E \in EdgeLists, sym \in BOOLEAN}
  \cup {Snap(ByPair(E), TRUE, FALSE, sym) : E \in EdgeLists, sym \in BOOLEAN}
  \cup {Snap(ByLine(E), TRUE, FALSE, FALSE) : E \in EdgeLists}
  \cup {Snap(E, FALSE, TRUE, sym) : E \in Square, sym \in BOOLEAN}

\* Hypergraphs: the members of each hyperedge; in the file vertex i goes by 2 i + 1.
Raw(i) == 2 * i + 1
Members == {<<<<0, 1>>, <<1, 2>>>>, <<<<2, 0, 1>>>>, <<<<0>>, <<1, 0>>, <<0>>>>, <<<<1, 0>>, <<1>>, <<2, 1, 0>>>>}
Hyperedges(Hs, W(_)) == UNION {{<<Hs[h][k], h - 1, W(h)>> : k \in DOMAIN Hs[h]} : h \in DOMAIN Hs}
Turn(S) == {<<x[2], x[1], x[3]>> : x \in S}
Ids(L) == [k \in DOMAIN L |-> Raw(L[k])]
WeightOf(h) == 7 * h - 10
One(h) == 1
Community(Hs, w) ==
  IF w THEN FlattenSeq([h \in DOMAIN Hs |-> <<Ids(Hs[h]), <<WeightOf(h)>>>>]) ELSE [h \in DOMAIN Hs |-> Ids(Hs[h])]
Konect(Hs, w) ==
  FlattenSeq([h \in DOMAIN Hs |-> [k \in DOMAIN Hs[h] |->
                <<Raw(Hs[h][k]), Raw(h)>> \o (IF w THEN <<WeightOf(h), 4711>> ELSE <<>>)]])
Converted(format, Hs, w, sym) ==
  LET want == IF w THEN Hyperedges(Hs, WeightOf) ELSE Hyperedges(Hs, One)
  IN  Job("hypergraph", format, IF format = "community" THEN Community(Hs, w) ELSE Konect(Hs, w), <<>>, w, ~w /\ ~sym, sym,
          want, Turn(want))
CliqueJob(format, Hs, w) ==
  Job("graph", format, IF format = "clique" THEN Community(Hs, FALSE) ELSE Konect(Hs, FALSE), <<>>, w, FALSE, TRUE,
      UNION {{<<Hs[h][j], Hs[h][k], 1>> : j, k \in DOMAIN Hs[h]} : h \in DOMAIN Hs}, {})

\* graphIO.h's writers alone: Jobs is defined by them.
Writers == INSTANCE FileTools WITH
             Jobs <- {}, job <- 0, text <- 0, binary <- 0, compressed <- 0, weighted <- 0, memory <- 0

\* A user's own hypergraph: sources and destinations of each hyperedge apart.
OwnHypergraph(VL, HL, w) ==
  LET V == [i \in 0 .. Len(VL) - 1 |-> [k \in DOMAIN VL[i + 1] |-> <<VL[i + 1][k], IF w THEN 10 * i + k ELSE 1>>]]
      H == [i \in 0 .. Len(HL) - 1 |-> [k \in DOMAIN HL[i + 1] |-> <<HL[i + 1][k], IF w THEN -10 * i - k ELSE 1>>]]
      G == [nv |-> Len(VL), mv |-> Writers!SumOfLens(Len(VL), V), nh |-> Len(HL), mh |-> Writers!SumOfLens(Len(HL), H), V |-> V, H |-> H]
      Triples(L) == UNION {{<<i, L[i][k][1], L[i][k][2]>> : k \in DOMAIN L[i]} : i \in DOMAIN L}
  IN  Job("hypergraph", "own", <<>>, IF w THEN Writers!writeWghHypergraphToFile(G) ELSE Writers!writeHypergraphToFile(G), w, FALSE, FALSE,
          Triples(V), Triples(H))
\* As many edges out of the vertices as out of the hyperedges, fewer and more.
Even == OwnHypergraph(<<<<1, 0>>, <<>>, <<1>>>>, <<<<2, 1>>, <<0>>>>, TRUE)
MoreH == <<<<<<1>>, <<>>, <<0>>>>, <<<<0, 1, 2>>, <<2>>>>>>
MoreV == <<<<<<1>>, <<1, 0>>, <<0, 1>>>>, <<<<1>>, <<2>>>>>>
HyperJobs ==
  {Converted(f, Hs, w, sym) : f \in {"community", "KONECT"}, Hs \in Members, w, sym \in BOOLEAN}
  \cup {OwnHypergraph(L[1], L[2], FALSE) : L \in {MoreH, MoreV}} \cup {Even}
CliqueJobs == {CliqueJob(f, <<<<0, 1>>, <<1, 2>>>>, w) : f \in {"clique", "KONECTclique"}, w \in BOOLEAN}

MCJobs == GraphJobs \cup HyperJobs \cup CliqueJobs
\* Two vertices in one hyperedge each, of which one leads to a vertex.
MoreVJobs == {OwnHypergraph(<<<<1>>, <<0>>>>, <<<<0>>, <<>>>>, TRUE)}
=============================================================================
