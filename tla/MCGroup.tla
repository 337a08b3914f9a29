------------------------------ MODULE MCGroup -------------------------------
(***************************************************************************)
(* GroupPermissions for TLC: a message in the group's chat, which may fail,*)
(* and the tasks of two rounds.                                            *)
(***************************************************************************)
EXTENDS GroupPermissions, TLC

CONSTANTS x, y, group, w1

MCBots == {x, y}
MCNoRows == << >>
=============================================================================
