--------------------------- MODULE MCEdgeMapUser ---------------------------
(* A graph on three vertices: 0 -> 1, 2; 1 -> 2; 2 -> 0, 1. *)
EXTENDS EdgeMapUser, Sequences

MCn == 3
MCm == 5
MCOffset == [v \in 0 .. 2 |-> <<0, 2, 3>>[v + 1]]
MCE == [i \in 0 .. 4 |-> <<1, 2, 2, 0, 1>>[i + 1]]
MCInOffset == [v \in 0 .. 2 |-> <<0, 1, 3>>[v + 1]]
MCInE == [i \in 0 .. 4 |-> <<2, 0, 2, 0, 1>>[i + 1]]

Indices(seq) == OfIndices(Len(seq), [i \in 0 .. Len(seq) - 1 |-> seq[i + 1]])
Bits(S) == OfBits([v \in 0 .. 2 |-> v \in S])
MCFrontiers == {Indices(<<2, 0>>), Bits({0, 2}), Bits({1}), Bits({})}

\* Every traversal, with and without each flag that changes what its loop does, on
\* both sides of the threshold, and with the default threshold, which is 0 here.
AllCalls == ({{}, {"sparse_no_filter"}, {"dense_forward"}, {"no_output"}} \X {0, 3, 10})
            \cup ({{"remove_duplicates"}, {"sparse_no_filter", "remove_duplicates"}, {"no_dense"}} \X {10})
            \cup {<<{"dense_parallel"}, 0>>, <<{}, -1>>, <<{"no_output", "no_dense"}, -1>>}

ForwardCalls == {<<{"dense_forward"}, 0>>}
=============================================================================
