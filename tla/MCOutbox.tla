------------------------------ MODULE MCOutbox ------------------------------
(***************************************************************************)
(* Outbox for TLC.                                                         *)
(***************************************************************************)
EXTENDS Outbox, TLC

CONSTANTS x, y, group, player, w1, w2, card

MCBots == {x, y}
MCWorkers == {w1, w2}

(* What a database from before the bot switch may hold: two versions of a  *)
(* round card and a text, of a bot that is bound and has no session yet.   *)
Old(kind, c) == [chat |-> group, kind |-> kind, card |-> c]
MCCardRows == <<Old("text", card), Old("text", card)>>
MCNoRows == << >>

Symmetric == Permutations(MCWorkers)
=============================================================================
