----------------------------- MODULE MCCommands -----------------------------
(***************************************************************************)
(* Commands for TLC: one player and two pages of operators.                *)
(***************************************************************************)
EXTENDS Commands, TLC

MCDeltas == {1, -1}

PageSymmetry == Permutations(Pages)
=============================================================================
