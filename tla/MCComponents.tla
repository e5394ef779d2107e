---------------------------- MODULE MCComponents ----------------------------
(* A vertex 0 by itself and the path 1 - 3 - 2 - 4: vertex 3 has two smaller *)
(* neighbours, and ID 1 has to travel the whole path.                       *)
EXTENDS Components, Sequences

Array(seq) == [i \in 0 .. Len(seq) - 1 |-> seq[i + 1]]

MCn == 5
PathM == 6
PathOffset == Array(<<0, 0, 1, 3, 5>>)
PathE == Array(<<3, 3, 4, 1, 2, 2>>)
=============================================================================
