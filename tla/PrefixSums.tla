---------------------------- MODULE PrefixSums ----------------------------
(***************************************************************************)
(* The ledger is full of "COALESCE(SUM(...),0)" over the rows of the bets  *)
(* table.  SumTo(w, n) is w[1] + ... + w[n], for weights w given as a      *)
(* function on Nat; it is a recursive function, not a RECURSIVE operator,  *)
(* so that the proofs of module PrefixSumsProofs can reason about it.      *)
(***************************************************************************)
EXTENDS Integers

SumFcn(w) ==
  LET s[k \in Nat] == IF k = 0 THEN 0 ELSE s[k - 1] + w[k]
  IN  s

SumTo(w, n) == SumFcn(w)[n]
=============================================================================
