---------------------------- MODULE MCHyperSSSP ----------------------------
(***************************************************************************)
(* Two vertices, and one hyperedge that leads from the first to the second *)
(* with weights 1 and 2, or back as well: no cycle has a negative weight.  *)
(***************************************************************************)
EXTENDS HyperSSSP

MCStart  == <<0, 0>>
MCV      == {<<0, 0>>, <<0, 1>>}
MCH      == {<<1, 0>>}
OneWay   == {<< <<0, 0>>, <<1, 0>>, 1 >>, << <<1, 0>>, <<0, 1>>, 2 >>}
BothWays == OneWay \cup {<< <<0, 1>>, <<1, 0>>, 1 >>, << <<1, 0>>, <<0, 0>>, 2 >>}
MCGraphs == {OneWay, BothWays}
=============================================================================
