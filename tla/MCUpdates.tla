----------------------------- MODULE MCUpdates ------------------------------
(***************************************************************************)
(* Updates for TLC: two bots that number their updates alike.              *)
(***************************************************************************)
EXTENDS Updates, TLC
=============================================================================
