---------------------------- MODULE MCRiftLedger ----------------------------
(***************************************************************************)
(* Small instances of the ledger core.  One point is one unit here, so     *)
(* that the round-half-up of profits and the whole-point exposure of the   *)
(* house coincide with whole balances of a few points.                     *)
(***************************************************************************)
EXTENDS Reconcile

CONSTANTS p1, p2

MCPlayers   == {p1}
MCPositions == 1 .. 3
MCTwoPositions == 1 .. 2
MCDeltas    == {8, -3}
MCHouseDeltas == {8, -2}

MCNoNumbers  == << >>
MCOldNumbers == << 2 >>

Flat(rate) == [k \in Ranks |-> rate]

(* Bull bull (10) wins and loses more than the rest. *)
Steep(rate, top) == [k \in Ranks |-> IF k = 10 THEN top ELSE rate]

RulesWith(payout, loss, timing, void, recipient) ==
  [confirmed |-> TRUE, payout |-> payout, loss |-> loss, minStake |-> 1, maxStake |-> 3,
   feeTiming |-> timing, voidFee |-> void, feeRecipient |-> recipient]

(* Player mode: losses of up to twice the stake, then rules that pay more, *)
(* lose less, keep unused fee settings, and are not confirmed.             *)
PlayerRules1 == RulesWith(Steep(100, 300), Steep(100, 200), "", "", NoAccount)
PlayerRules2 ==
  [RulesWith(Flat(200), Flat(50), "settlement", "charge", Fees) EXCEPT !.confirmed = FALSE]

(* Refused by Rules.Validate: a loss of more than a hundred times the stake. *)
InvalidRules == RulesWith(Flat(100), Flat(10001), "", "", NoAccount)

MCPlayerRules == {PlayerRules2, InvalidRules}

(* Fee settings of the old house mode, which SaveRules accepts unseen. *)
PlayerRules3 == RulesWith(Flat(100), Flat(100), "acceptance", "refund", Fees)

(* House mode: fees at acceptance, refunded or not, or at settlement. *)
HouseRules1 == RulesWith(Flat(100), Flat(100), "acceptance", "refund", Fees)
HouseRules2 == RulesWith(Flat(100), Flat(100), "settlement", "charge", Fees)
HouseRules3 == RulesWith(Flat(200), Flat(50), "acceptance", "charge", House)

MCHouseRules == {HouseRules2, HouseRules3}

Rank(n, m) == [bad |-> FALSE, void |-> FALSE, rank |-> n, max |-> m]

In(kind, h1, h2, h3) == [kind |-> kind, hands |-> <<h1, h2, h3>>]

(* Win, loss and void heroes around each possible banker; a match too short *)
(* to count, whatever its heroes did; nothing legible in a cancellation.    *)
MCInputs == { In("result", Rank(5, 7), Rank(10, 9), VoidHand),
              In("result", Rank(10, 9), Rank(5, 7), VoidHand),
              In("short",  Rank(5, 7), Rank(10, 9), BadHand),
              In("cancel", BadHand, BadHand, BadHand) }

MCHouseInputs == { [kind |-> "result", hands |-> <<Rank(5, 7), Rank(10, 9)>>],
                   [kind |-> "short", hands |-> <<Rank(5, 7), Rank(10, 9)>>],
                   [kind |-> "cancel", hands |-> <<BadHand, BadHand>>] }

MCTwoInputs == { [kind |-> "result", hands |-> <<Rank(5, 7), Rank(10, 9)>>],
                 [kind |-> "cancel", hands |-> <<BadHand, BadHand>>] }
=============================================================================
