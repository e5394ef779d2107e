----------------------------- MODULE MCPrograms -----------------------------
(***************************************************************************)
(* Each program of AllPrograms on inputs that make its hard cases happen.  *)
(***************************************************************************)
EXTENDS AllPrograms, Sequences

Array(seq) == [i \in 0 .. Len(seq) - 1 |-> seq[i + 1]]

Sym(edges) == edges \cup {<<e[2], e[1]>> : e \in edges}
Directed(k) == {<<u, v>> : u \in 0 .. k - 1, v \in 0 .. k - 1}
Simple(k) == {Sym(S) : S \in SUBSET {e \in Directed(k) : e[1] < e[2]}}

\* Vertices are <<0, i>> and hyperedges <<1, j>>; where a program starts or compares,
\* those of a graph are <<0, i>> too, or numbers.
Side(s, k) == {<<s, i>> : i \in 0 .. k - 1}
MCStart == <<0, 0>>
Numbered(edges) == {<< <<0, e[1]>>, <<0, e[2]>>, e[3] >> : e \in edges}
ToH(i, j) == << <<0, i>>, <<1, j>> >>
ToV(j, i) == << <<1, j>>, <<0, i>> >>
\* the hypergraph of the sets of vertices members[j]
Hyper(members) == UNION {{ToH(i, j - 1), ToV(j - 1, i)} : <<i, j>> \in
                            {p \in (0 .. 9) \X (1 .. Len(members)) : p[1] \in members[p[2]]}}

-----------------------------------------------------------------------------
\* 0 -> 1, 2;  1 -> 3;  2 -> 3;  3 -> 0, 1, 2, 4;  4 -> 1;  5 alone.  From 0 there are
\* two ways to 3 in a sparse round, a dense round from 3, edges back to visited
\* vertices, and a vertex nobody reaches.  The samples of Radii are 0, 4 and 0 again:
\* the first round is dense, and in the sparse second one 1 and 2 both write to 3.
MCOffset   == Array(<<0, 2, 3, 4, 8, 9>>)
MCE        == Array(<<1, 2, 3, 3, 0, 1, 2, 4, 1>>)
MCInOffset == Array(<<0, 1, 4, 6, 8, 9>>)
MCInE      == Array(<<3, 0, 3, 4, 0, 3, 1, 2, 3>>)
MCStarts   == Array(<<0, 4, 0>>)

-----------------------------------------------------------------------------
\* The more edges a way to 1 and 3 has the shorter it is; and two negative cycles, one
\* of them out of reach.
Detours  == {<<0, 1, 9>>, <<0, 2, 5>>, <<0, 4, 1>>, <<4, 2, 1>>, <<2, 1, 1>>, <<4, 1, 6>>,
             <<1, 3, 1>>, <<2, 3, 4>>, <<4, 3, 7>>, <<3, 2, -1>>}
Looping  == {<<0, 1, 1>>, <<1, 2, -2>>, <<2, 1, 1>>, <<2, 3, 0>>, <<0, 3, 4>>}
OutOfWay == {<<0, 1, 2>>, <<0, 2, 4>>, <<1, 2, 1>>, <<3, 4, -1>>, <<4, 3, 0>>, <<3, 1, 0>>}
MCBFVerts  == Side(0, 5)
MCBFGraphs == {Numbered(Detours), Numbered(Looping), Numbered(OutOfWay)}

\* The same without negative weights, so that vertices move inside a bucket, to earlier
\* ones, and are lowered by several others in one round.
Roads == {<<0, 1, 5>>, <<0, 2, 1>>, <<0, 3, 1>>, <<2, 1, 3>>, <<3, 1, 2>>, <<2, 3, 0>>,
          <<1, 4, 0>>, <<3, 4, 6>>, <<4, 2, 1>>, <<0, 5, 1>>, <<5, 1, 4>>, <<5, 4, 3>>, <<3, 5, 0>>}
MCDSVerts  == Side(0, 6)
MCDSGraphs == {Numbered(Roads), Numbered(Detours \ {<<3, 2, -1>>})}

\* <<edge, weight>>: two ways to the vertices 1 and 2, the longer one shorter; a cycle of
\* negative weight; and two hyperedges one after the other, for which three vertices
\* are too few.
W(edge, w) == <<edge[1], edge[2], w>>
TwoWays == {W(ToH(0, 0), 1), W(ToV(0, 1), 4), W(ToV(0, 2), 1), W(ToH(2, 1), 1), W(ToV(1, 1), 0),
            W(ToH(0, 1), 5), W(ToV(1, 2), 0), W(ToV(1, 3), 1), W(ToH(0, 2), 3), W(ToV(2, 3), 5),
            W(ToV(2, 1), 1), W(ToH(3, 2), 0)}
HyperLoop == {W(ToH(0, 0), 1), W(ToV(0, 1), 1), W(ToH(1, 1), -3), W(ToV(1, 0), 0), W(ToV(1, 1), 1)}
MCHSVerts      == Side(0, 5)
MCHSHyperedges == Side(1, 3)
MCHSGraphs     == {TwoWays, HyperLoop}

\* Two components, an ID that has to travel against the order, and a vertex alone.
MCCSVerts  == 0 .. 3
MCCSGraphs == {Sym({<<0, 3>>, <<3, 1>>, <<1, 2>>}), Sym({<<1, 3>>, <<3, 2>>, <<2, 1>>})}

MCHCVerts      == Side(0, 5)
MCHCHyperedges == Side(1, 3)
MCHCGraphs     == {Hyper(<<{0, 3}, {3, 1, 2}, {4}>>), Hyper(<<{1, 2, 4}, {2, 3}, {3, 0}>>)}

\* Hyperedges with several in-vertices, reached in different rounds; a cycle that needs
\* itself; a hyperedge without in-vertices.
MCBPVerts      == Side(0, 5)
MCBPHyperedges == Side(1, 4)
MCBPGraphs == {{ToH(0, 0), ToV(0, 1), ToV(0, 2), ToV(0, 3), ToH(1, 1), ToH(2, 1), ToH(3, 1), ToV(1, 4), ToH(1, 2),
                ToH(3, 2), ToV(2, 4), ToV(2, 2), ToH(0, 3), ToH(4, 3), ToV(3, 0)},
               {ToH(0, 0), ToV(0, 1), ToH(0, 1), ToH(2, 1), ToV(1, 3), ToH(1, 2), ToH(3, 2), ToV(2, 2),
                ToV(3, 4)}}

-----------------------------------------------------------------------------
\* Every graph of four vertices; hypergraphs in which a core outlasts tails of different
\* lengths; every graph of five vertices.
MCCoreVerts == 0 .. 4
MCKCGraphs  == Simple(4)
MCBKGraphs  == Simple(5)

MCHKVerts      == Side(0, 6)
MCHKHyperedges == Side(1, 6)
MCHKGraphs     == {Hyper(<<{0, 1, 2}, {1, 2}, {1, 2, 3}, {0, 4}, {0, 4, 5}>>),
                   Hyper(<<{0, 1}, {1, 2}, {0, 2}, {0, 3}, {1, 4}, {4, 5}>>)}

-----------------------------------------------------------------------------
\* Three ways of two edges, and longer ones; a vertex with no path to it.
MCBTVerts  == Side(0, 7)
MCBTGraphs == {{<< <<0, e[1]>>, <<0, e[2]>> >> : e \in
                  {<<0, 1>>, <<0, 2>>, <<0, 3>>, <<1, 4>>, <<2, 4>>, <<3, 4>>, <<1, 2>>, <<4, 5>>, <<3, 5>>, <<6, 4>>}}}

MCHBVerts      == Side(0, 5)
MCHBHyperedges == Side(1, 4)
MCHBGraphs     == {{ToH(0, 0), ToH(0, 1), ToV(0, 1), ToV(1, 1), ToV(1, 2), ToV(0, 2), ToH(1, 2), ToH(2, 2), ToV(2, 3),
                    ToH(2, 3), ToV(3, 3), ToV(2, 0)},
                   {ToH(0, 0), ToV(0, 1), ToV(0, 2), ToH(1, 1), ToH(2, 2)}}

-----------------------------------------------------------------------------
MCHMVerts      == Side(0, 4)
MCHMHyperedges == Side(1, 2)
MCHMGraphs     == {Hyper(<<{0, 1, 2}, {2, 3}>>)}

\* The code's 1 + epsilon is 1.01, for which small degrees have a bucket each; with 2
\* sets of different sizes share a bucket, as large ones do in the code.
MCSCVerts   == 0 .. 4
MCBucket    == <<0, 1, 1, 2>>
MCThreshold == [bkt \in 0 .. 2 |-> 2 ^ bkt]
MCLow       == [bkt \in 0 .. 2 |-> IF bkt = 2 THEN 2 ELSE 1]
MCSCGraphs  == {{<<0, 2>>, <<0, 3>>, <<1, 2>>, <<1, 3>>, <<1, 4>>, <<2, 4>>, <<2, 3>>, <<2, 0>>, <<4, 1>>},
                {<<0, 1>>, <<0, 2>>, <<1, 4>>} \cup ({3} \X {0, 1, 2, 4}) \cup ({4} \X {0, 1, 2, 3})}

-----------------------------------------------------------------------------
\* Three keys with one first index at the end of the table, two of them inserted twice.
MCInserts == << <<10, 1>>, <<10, 2>>, <<20, 4>>, <<20, 8>>, <<30, 16>> >>
MCHash    == [x \in {10, 20, 30} |-> IF x = 30 THEN 0 ELSE 3]

MCArrays == [0 .. 3 -> {0, 1, UintMax}]
=============================================================================
