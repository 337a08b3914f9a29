-------------------------------- MODULE Once --------------------------------
(***************************************************************************)
(* What the service promises to whoever repeats a request: it is decided   *)
(* once, the decision stands, and it acts on the ledger once or never.     *)
(* A Telegram update (module Updates) and a command of the API with its    *)
(* idempotency key (module Commands) are such requests.                    *)
(***************************************************************************)
EXTENDS Integers

CONSTANTS
  Requests,
  Accepting,     \* decisions that act on the ledger
  Declining,     \* decisions that do not, and are final all the same
  Undecided

VARIABLES
  decision,      \* of each request
  effects        \* how often each request has acted on the ledger

TypeOK == /\ decision \in [Requests -> Accepting \cup Declining \cup {Undecided}]
          /\ effects \in [Requests -> Nat]

(* Some may have been declined before. *)
Init == /\ decision \in [Requests -> Declining \cup {Undecided}]
        /\ effects = [r \in Requests |-> 0]

Accept(r, d) ==
  /\ decision[r] = Undecided
  /\ decision' = [decision EXCEPT ![r] = d]
  /\ effects' = [effects EXCEPT ![r] = @ + 1]

Decline(r, d) ==
  /\ decision[r] = Undecided
  /\ decision' = [decision EXCEPT ![r] = d]
  /\ UNCHANGED effects

Next == \E r \in Requests : \/ \E d \in Accepting : Accept(r, d)
                            \/ \E d \in Declining : Decline(r, d)

Spec == Init /\ [][Next]_<<decision, effects>>

(* A request acts exactly if it was accepted, and then once. *)
ActsOnce ==
  \A r \in Requests : effects[r] = IF decision[r] \in Accepting THEN 1 ELSE 0

(* A decision is never revised. *)
DecisionStands ==
  [][\A r \in Requests : decision[r] # Undecided => decision'[r] = decision[r]]_<<decision, effects>>
=============================================================================
