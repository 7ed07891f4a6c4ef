---------------------------- MODULE MCTwoPrograms ----------------------------
(***************************************************************************)
(* Two programs, with and without -I, and with -L before or after it.      *)
(***************************************************************************)
EXTENDS TwoPrograms, TLC

CONSTANTS p1, p2

Two == {p1, p2}
Nine == 1..9
Symmetry == Permutations(Two)
=============================================================================
