-------------------------- MODULE MCRuntimeConfig ---------------------------
(***************************************************************************)
(* RuntimeConfig for TLC: two pages, two valid settings and an invalid one. *)
(***************************************************************************)
EXTENDS RuntimeConfig, TLC
=============================================================================
