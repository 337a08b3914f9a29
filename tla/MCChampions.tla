---------------------------- MODULE MCChampions -----------------------------
(***************************************************************************)
(* Champions for TLC: a second version renames nobody and adds a champion. *)
(***************************************************************************)
EXTENDS Champions, TLC

CONSTANTS ahri, bard, corki

MCVersions == 1..2
MCCatalogue == 1 :> {ahri, bard} @@ 2 :> {ahri, bard, corki}
=============================================================================
