-------------------------- MODULE BalanceRequests ---------------------------
(***************************************************************************)
(* Players ask for points or offer them back in a private message          *)
(* (requestBalance, internal/app/balance_requests.go); an operator approves *)
(* or rejects (ResolveBalanceRequest), or adjusts a balance directly       *)
(* (Adjust, service.go), in the player-only mode.  Bets freeze and settle  *)
(* meanwhile; which bets are accepted and what they pay is in RiftLedger.  *)
(* The operator's operations run as commands of module Commands.           *)
(***************************************************************************)
EXTENDS Integers, Sequences, FiniteSets

CONSTANTS
  Players,
  Amounts,       \* amounts players ask for, and operators adjust by
  MoneyLimit,    \* largest balance
  Opening,       \* each player's balance when the behaviour starts; 0: a newcomer
  MaxRequests,   \* bound of the model: requests ever filed
  MaxBets        \* bound of the model: bets ever accepted

ASSUME AmountsAssumption ==
  /\ MoneyLimit \in Nat /\ Amounts \subseteq 1..MoneyLimit /\ Opening \in 0..MoneyLimit
  /\ MaxBets \in Nat

Manual == 0      \* reference of an adjustment that no request asked for

VARIABLES
  account,       \* by player: [balance, locked, enabled]
  requests,      \* balance_requests: [player, kind, amount, state], by id
  entries,       \* adjustments: [player, delta, ref], ref the request's id
  bets           \* bets accepted so far

books == <<account, requests, entries, bets>>

Account == [balance : 0..MoneyLimit, locked : Nat, enabled : BOOLEAN]
Request == [player : Players, kind : {"CREDIT", "DEBIT"}, amount : Amounts,
            state : {"PENDING", "APPROVED", "REJECTED"}]
Adjustment == [player : Players, delta : Int, ref : Nat]

BooksTypeOK ==
  /\ account \in [Players -> Account] /\ requests \in Seq(Request)
  /\ entries \in Seq(Adjustment) /\ bets \in 0..MaxBets

(* HandleUpdate creates a closed account at a player's first message. *)
BooksInit ==
  /\ account = [p \in Players |->
                  [balance |-> Opening, locked |-> 0, enabled |-> Opening > 0]]
  /\ requests = << >> /\ entries = << >> /\ bets = 0

Available(p) == account[p].balance - account[p].locked
-----------------------------------------------------------------------------
(* The player. *)
RequestBalance(p, kind, amount) ==
  /\ Len(requests) < MaxRequests
  /\ kind = "DEBIT" => account[p].enabled /\ Available(p) >= amount
  /\ ~\E r \in DOMAIN requests :
        /\ requests[r].player = p /\ requests[r].kind = kind
        /\ requests[r].amount = amount /\ requests[r].state = "PENDING"
  /\ requests' = Append(requests, [player |-> p, kind |-> kind, amount |-> amount,
                                   state |-> "PENDING"])
  /\ UNCHANGED <<account, entries, bets>>

(* PlaceBet freezes what the bet may lose. *)
PlaceBet(p, risk) ==
  /\ bets < MaxBets /\ bets' = bets + 1
  /\ account[p].enabled /\ Available(p) >= risk
  /\ account' = [account EXCEPT ![p].locked = @ + risk]
  /\ UNCHANGED <<requests, entries>>

(* Settle or CancelRound: all that is frozen is released; at worst it is lost. *)
EndRound(p, delta) ==
  /\ account[p].locked > 0 /\ delta >= - account[p].locked
  /\ account[p].balance + delta <= MoneyLimit
  /\ account' = [account EXCEPT ![p].locked = 0, ![p].balance = @ + delta]
  /\ UNCHANGED <<requests, entries, bets>>
-----------------------------------------------------------------------------
(* The operator's commands. *)

(* A plausible slip: what is frozen may be taken, as in the other mode. *)
AdjustableFrozen(p, delta) ==
  /\ account[p].balance + delta <= MoneyLimit
  /\ delta < 0 => account[p].balance + delta >= 0

Adjustable(p, delta) ==
  /\ account[p].balance + delta <= MoneyLimit
  /\ delta < 0 => account[p].balance + delta >= account[p].locked

Adjust(p, delta) ==
  /\ Adjustable(p, delta)
  /\ account' = [account EXCEPT ![p].balance = @ + delta]
  /\ entries' = Append(entries, [player |-> p, delta |-> delta, ref |-> Manual])
  /\ UNCHANGED <<requests, bets>>

SetPlayer(p, enabled) ==
  /\ account' = [account EXCEPT ![p].enabled = enabled]
  /\ UNCHANGED <<requests, entries, bets>>

SignedAmount(r) ==
  IF requests[r].kind = "CREDIT" THEN requests[r].amount ELSE - requests[r].amount

(* A plausible slip: the operator's list is trusted to be current. *)
ResolvableAsShown(r, action) ==
  /\ r \in DOMAIN requests
  /\ action = "APPROVED" => Adjustable(requests[r].player, SignedAmount(r))

Resolvable(r, action) ==
  /\ r \in DOMAIN requests /\ requests[r].state = "PENDING"
  /\ action = "APPROVED" => Adjustable(requests[r].player, SignedAmount(r))

(* An approved credit also opens the account, whoever had closed it. *)
Resolve(r, action) ==
  LET p == requests[r].player
  IN /\ Resolvable(r, action)
     /\ requests' = [requests EXCEPT ![r].state = action]
     /\ IF action = "APPROVED"
        THEN /\ account' = [account EXCEPT
                              ![p].balance = @ + SignedAmount(r),
                              ![p].enabled = @ \/ requests[r].kind = "CREDIT"]
             /\ entries' = Append(entries, [player |-> p, delta |-> SignedAmount(r), ref |-> r])
        ELSE UNCHANGED <<account, entries>>
     /\ UNCHANGED bets

PlayerActs ==
  \E p \in Players :
    \/ \E kind \in {"CREDIT", "DEBIT"}, amount \in Amounts : RequestBalance(p, kind, amount)
    \/ \E risk \in Amounts : PlaceBet(p, risk)
    \/ \E delta \in { s * a : s \in {-1, 0, 1}, a \in Amounts } : EndRound(p, delta)
-----------------------------------------------------------------------------
(* Properties.                                                             *)

(* A request moves its amount exactly once, and only if it was approved,   *)
(* however often and from however many pages it is resolved (the check of  *)
(* the state in ResolveBalanceRequest).                                    *)
RequestMovesOnce ==
  \A r \in DOMAIN requests :
    LET made == { k \in DOMAIN entries : entries[k].ref = r }
    IN IF requests[r].state # "APPROVED" THEN made = {}
       ELSE /\ Cardinality(made) = 1
            /\ \A k \in made : /\ entries[k].player = requests[r].player
                               /\ entries[k].delta = SignedAmount(r)

(* A debit that was affordable when it was asked for does not take what a  *)
(* later bet has frozen (Adjust's comparison with locked): every round can *)
(* end with the worst loss.                                                *)
LockedIsHeld == \A p \in Players : account[p].locked <= account[p].balance
=============================================================================
