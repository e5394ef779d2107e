------------------------------- MODULE MCMIS -------------------------------
(* A triangle 0 1 2 with a pendant vertex 3 on 2. *)
EXTENDS MIS, Sequences

Array(seq) == [i \in 0 .. Len(seq) - 1 |-> seq[i + 1]]

MCn == 4
PawM == 8
PawOffset == Array(<<0, 2, 4, 7>>)
PawE == Array(<<1, 2, 0, 2, 0, 1, 3, 2>>)

ASSUME SymmetricAssumption == Symmetric
=============================================================================
