----------------------------- MODULE Reconcile -----------------------------
(***************************************************************************)
(* The audit of internal/app/reconcile.go, which rebuilds from the bets    *)
(* what should be locked on every account and, in house mode, adds up all  *)
(* balances.  The entries table is not modelled: each change of a balance  *)
(* in module RiftLedger writes its entry in the same transaction.          *)
(***************************************************************************)
EXTENDS RiftLedger

ASSUME ReconcileAssumption == IsFiniteSet(Players)

(* What reconcileTx expects to be locked on account a for bet b. *)
ExpectedOf(b, rl, a) ==
  IF PlayerOnly
  THEN IF a = b.account THEN b.stake ELSE 0
  ELSE (IF a = b.account
        THEN riskFor(b.stake, MaxRate(rl.loss))
             + (IF rl.feeTiming = "settlement" THEN b.fee ELSE 0)
        ELSE 0)
       + (IF a = House THEN exposureFor(b.stake, MaxRate(rl.payout)) ELSE 0)
       + (IF a = rl.feeRecipient /\ rl.feeTiming = "acceptance" /\ rl.voidFee = "refund"
          THEN b.fee ELSE 0)

Expected(a) ==
  SumTo([i \in Nat |-> IF i \in DOMAIN bets /\ bets[i].state = "RESERVED"
                       THEN ExpectedOf(bets[i], RulesOf(bets[i]), a) ELSE 0], Len(bets))

(* The rows of the accounts table, in some order.  An account that is absent *)
(* has a balance of 0.                                                       *)
Rows ==
  CHOOSE row \in [1 .. Cardinality(Accounts) -> Accounts] :
    /\ \A a \in Accounts : \E n \in DOMAIN row : row[n] = a
    /\ \A m, n \in DOMAIN row : row[m] = row[n] => m = n

TotalOf(bal) ==
  SumTo([n \in Nat |-> IF n \in DOMAIN Rows THEN bal[Rows[n]] ELSE 0], Cardinality(Accounts))

BalanceSum == TotalOf(balance)

(* The audit finds no fault with the books: the locks rebuilt from the bets *)
(* are those stored (docs/ARCHITECTURE.md), and in house mode no point is   *)
(* made or lost, whatever bets, adjustments, fees, refunds and settlements. *)
ReconcileBalanced ==
  /\ \A a \in Accounts : AccountExists(a) => locked[a] = Expected(a)
  /\ ~ PlayerOnly => BalanceSum = 0
=============================================================================
