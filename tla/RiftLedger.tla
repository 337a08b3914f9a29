----------------------------- MODULE RiftLedger -----------------------------
(***************************************************************************)
(* The core of the ledger service: accounts, versioned rules, rounds, bets *)
(* and settlement, from internal/app/service.go and rounds.go.  Every      *)
(* exported command runs as one BEGIN IMMEDIATE transaction under one      *)
(* mutex (internal/sqlite), so a command is one action and a refused       *)
(* command changes nothing: its error paths are the guards.  What          *)
(* interleaves is the commands themselves and the gap between a preview    *)
(* the operator looks at and the settlement that quotes its token.         *)
(*                                                                         *)
(* PlayerOnly selects the production mode (EnablePlayerOnly); without it   *)
(* the service keeps the double-entry "house" mode of its older snapshots. *)
(***************************************************************************)
EXTENDS Money, Bull, PrefixSums, Sequences, FiniteSets

CONSTANTS
  PlayerOnly,        \* s.PlayerOnly and meta.balance_mode
  MuteOnClose,       \* RuntimeConfig.MuteOnClose
  Players,           \* Telegram accounts
  Positions,         \* hero positions, 1..5 in the program
  RuleSet,           \* rule sets an operator may submit
  InitialRules,      \* rules in force when the behaviour starts
  OldNumbers,        \* numbers of the rounds cancelled before it starts
  Inputs,            \* what an operator may enter when settling
  Stakes,            \* stakes a player may ask for
  Deltas,            \* amounts an operator may add or take
  MoneyLimit,        \* largest balance
  MaxBetsPerRound,   \* 10000 in the program
  LastNumber,        \* largest valid sequence number of a round (99999999)
  MaxSkips,          \* occupied numbers Settle is ready to skip (1000)
  MaxRounds,         \* bound of the model: rounds ever created
  MaxRevision,       \* bound of the model: revisions of a draft
  MaxVersion         \* bound of the model: versions of the rules

House     == "house"
Fees      == "fees"
External  == "external"
Operators == {House, Fees, External}
Accounts  == Players \cup Operators
NoAccount == ""

Statuses == {"absent", "disabled", "enabled"}

FeeTimings == {"", "acceptance", "settlement"}

Rules == [confirmed : BOOLEAN, payout : [Ranks -> Int], loss : [Ranks -> Int],
          minStake : Int, maxStake : Int, feeTiming : FeeTimings,
          voidFee : {"", "refund", "charge"}, feeRecipient : Accounts \cup {NoAccount}]

InputKinds == {"result", "short", "cancel"}

Input == [kind : InputKinds, hands : [Positions -> Hand]]

(* Rules.Validate: everything it looks at; the fee fields it does not.     *)
ValidRules(rl) ==
  /\ \A k \in Ranks : rl.payout[k] \in Rates /\ rl.loss[k] \in Rates
  /\ 1 <= rl.minStake /\ rl.minStake <= rl.maxStake
  /\ rl.maxStake <= Points(1000000)

ValidRuleSets == { rl \in Rules : ValidRules(rl) }

ASSUME ConstantsAssumption ==
  /\ PlayerOnly \in BOOLEAN /\ MuteOnClose \in BOOLEAN
  /\ Players \cap (Operators \cup {NoAccount}) = {}
  /\ Positions \subseteq Nat \ {0}
  /\ RuleSet \subseteq Rules
  /\ InitialRules \in ValidRuleSets
  /\ OldNumbers \in Seq(1 .. LastNumber)
  /\ \A i, j \in DOMAIN OldNumbers : OldNumbers[i] = OldNumbers[j] => i = j
  /\ OldNumbers # << >> => Positions # {}
  /\ Inputs \subseteq Input
  /\ Stakes \subseteq Nat \ {0}
  /\ Deltas \subseteq Int \ {0}
  /\ \A n \in {MoneyLimit, MaxBetsPerRound, LastNumber, MaxSkips,
               MaxRounds, MaxRevision, MaxVersion} : n \in Nat

VARIABLES
  balance,    \* accounts.balance
  locked,     \* accounts.locked
  status,     \* whether the row exists, and accounts.enabled
  settings,   \* the one row of settings: version and rules
  rounds,     \* rows of rounds, in the order they were created
  bets,       \* rows of bets, in the order they were accepted
  shown,      \* the preview the operator has on the screen, with its token
  queued      \* keys of the rows put into the outbox

vars == <<balance, locked, status, settings, rounds, bets, shown, queued>>

-----------------------------------------------------------------------------
(* Sums over the bets table *)

BetsOf(r) == { i \in DOMAIN bets : bets[i].round = r }

RulesOf(b) == rounds[b.round].rules

(* SUM(stake) and SUM(fee) of one account's bets in one round. *)
StakesOf(r, a) ==
  SumTo([i \in Nat |-> IF i \in BetsOf(r) /\ bets[i].account = a
                       THEN bets[i].stake ELSE 0], Len(bets))

FeesOf(r, a) ==
  SumTo([i \in Nat |-> IF i \in BetsOf(r) /\ bets[i].account = a
                       THEN bets[i].fee ELSE 0], Len(bets))

(* The part of a bet's reservation that rests on the player's account, *)
(* computed when the bet is placed ...                                  *)
Reserve(b, rl) ==
  riskFor(b.stake, MaxRate(rl.loss))
  + (IF ~ PlayerOnly /\ rl.feeTiming = "settlement" THEN b.fee ELSE 0)

(* A plausible slip: settlement releases the stake, not the largest loss. *)
ReserveReleasedOfStake(b, rl) ==
  b.stake + (IF ~ PlayerOnly /\ rl.feeTiming = "settlement" THEN b.fee ELSE 0)

(* ... and computed again when the round settles. *)
ReserveReleased(b, rl) ==
  riskFor(b.stake, MaxRate(rl.loss))
  + (IF ~ PlayerOnly /\ rl.feeTiming = "settlement" THEN b.fee ELSE 0)

(* A plausible slip: the house reserves the stake, not the largest payout. *)
ExposureOfStake(b, rl) == IF PlayerOnly THEN 0 ELSE b.stake

Exposure(b, rl) ==
  IF PlayerOnly THEN 0 ELSE exposureFor(b.stake, MaxRate(rl.payout))

(* What PlaceBet locks for bet b under rules rl, on each account it touches: *)
(* a fee that may have to be refunded stays locked at its recipient.         *)
Hold(b, rl, a) ==
  (IF a = b.account THEN Reserve(b, rl) ELSE 0)
  + (IF a = House THEN Exposure(b, rl) ELSE 0)
  + (IF ~ PlayerOnly /\ a = rl.feeRecipient /\ rl.feeTiming # "settlement"
        /\ rl.voidFee = "refund" THEN b.fee ELSE 0)

(* What Settle releases for it. *)
Release(b, rl, a) ==
  (IF a = b.account THEN ReserveReleased(b, rl) ELSE 0)
  + (IF a = House THEN Exposure(b, rl) ELSE 0)
  + (IF a = rl.feeRecipient /\ rl.feeTiming = "acceptance"
        /\ rl.voidFee = "refund" THEN b.fee ELSE 0)

ReleasedBy(r, a) ==
  SumTo([i \in Nat |-> IF i \in BetsOf(r) THEN Release(bets[i], RulesOf(bets[i]), a) ELSE 0],
        Len(bets))

-----------------------------------------------------------------------------
(* Accounts: getAccount, transfer and lock *)

(* The CHECKs of the accounts table, which every UPDATE has to pass. *)
RowOK(bal, lck, a) == lck[a] >= 0 /\ (a # External => bal[a] >= lck[a])

AccountExists(a) == a \in Accounts /\ status[a] # "absent"

(* transfer refuses to overdraw what is free, or to leave the safe range. *)
CanTransfer(bal, lck, from, to, amount) ==
  \/ amount = 0
  \/ /\ amount <= MoneyLimit
     /\ from # to /\ AccountExists(from) /\ AccountExists(to)
     /\ from # External => bal[from] - lck[from] >= amount
     /\ bal[from] - amount >= - MoneyLimit
     /\ bal[to] + amount <= MoneyLimit

(* A negative amount moves the other way. *)
CanMove(bal, lck, from, to, amount) ==
  IF amount >= 0 THEN CanTransfer(bal, lck, from, to, amount)
  ELSE CanTransfer(bal, lck, to, from, - amount)

Moved(from, to, amount, a) ==
  (IF a = to THEN amount ELSE 0) - (IF a = from THEN amount ELSE 0)

-----------------------------------------------------------------------------
(* Previews: makePreview *)

NoPreview == [round |-> 0]

WholeVoid(rd, in) == in.kind # "result" \/ in.hands[rd.banker].void

(* A plausible slip: a round void as a whole still compares the hands it has. *)
OutcomeOfHands(rd, in, pos) == Compare(in.hands[pos], in.hands[rd.banker])

Outcome(rd, in, pos) ==
  IF WholeVoid(rd, in) THEN "VOID" ELSE Compare(in.hands[pos], in.hands[rd.banker])

GameDelta(b, rd, in) ==
  LET outcome == Outcome(rd, in, b.position)
  IN  CASE outcome = "WIN"  -> profitFor(b.stake, rd.rules.payout[in.hands[b.position].rank])
        [] outcome = "LOSS" -> - lossFor(b.stake, rd.rules.loss[in.hands[rd.banker].rank])
        [] outcome = "VOID" -> 0

(* The fee that stays charged; the comparison with b.fee is the code's. *)
LineFee(b, rd, in) ==
  LET charged == IF PlayerOnly THEN 0 ELSE b.fee
  IN  IF /\ Outcome(rd, in, b.position) = "VOID"
         /\ in.kind = "cancel" \/ rd.rules.voidFee = "refund" \/ charged # b.fee
      THEN 0 ELSE charged

Line(b, rd, in) == [outcome |-> Outcome(rd, in, b.position),
                    delta   |-> GameDelta(b, rd, in),
                    fee     |-> LineFee(b, rd, in)]

(* The token is a hash of the preview and the rules: it is its content.    *)
MakePreview(r, rd, in) ==
  [round |-> r, revision |-> rd.revision, rules |-> rd.rules, input |-> in,
   wholeVoid |-> WholeVoid(rd, in),
   lines |-> [i \in BetsOf(r) |-> Line(bets[i], rd, in)]]

PreviewOK(r, rd, in) ==
  /\ rd.state = "CLOSED"
  /\ in.kind = "result" => \A pos \in Positions : ~ in.hands[pos].bad
  /\ \A i \in BetsOf(r) : bets[i].state = "RESERVED" /\ bets[i].position # rd.banker

-----------------------------------------------------------------------------
(* Postings: the balance changes of a settlement, bet after bet *)

(* What leaves (or, negative, comes back from) the player as a fee. *)
FeeMove(b, rd, in) ==
  IF PlayerOnly THEN 0
  ELSE IF rd.rules.feeTiming = "settlement" THEN LineFee(b, rd, in)
  ELSE IF rd.rules.feeTiming = "acceptance" /\ LineFee(b, rd, in) = 0 THEN - b.fee
  ELSE 0

GameEffect(b, rd, in, a) ==
  IF PlayerOnly THEN (IF a = b.account THEN GameDelta(b, rd, in) ELSE 0)
  ELSE Moved(House, b.account, GameDelta(b, rd, in), a)

(* A plausible slip: the refund of a fee is not taken from its recipient. *)
EffectUnpaidRefund(b, rd, in, a) ==
  GameEffect(b, rd, in, a)
  + (IF FeeMove(b, rd, in) < 0 /\ a # b.account THEN 0
     ELSE Moved(b.account, rd.rules.feeRecipient, FeeMove(b, rd, in), a))

Effect(b, rd, in, a) ==
  GameEffect(b, rd, in, a)
  + Moved(b.account, rd.rules.feeRecipient, FeeMove(b, rd, in), a)

(* The balances when the postings of the bets in S are done. *)
BalanceWhen(r, rd, in, S) ==
  [a \in Accounts |->
     balance[a] + SumTo([i \in Nat |-> IF i \in BetsOf(r) /\ i \in S
                                       THEN Effect(bets[i], rd, in, a) ELSE 0], Len(bets))]

BalanceAfter(r, rd, in) == BalanceWhen(r, rd, in, BetsOf(r))

(* ... and, on top of it, the winnings or the loss of bet i, fee apart. *)
BalanceMid(r, rd, in, S, i) ==
  [a \in Accounts |-> BalanceWhen(r, rd, in, S)[a] + GameEffect(bets[i], rd, in, a)]

LockedAfter(r) == [a \in Accounts |-> locked[a] - ReleasedBy(r, a)]

(* betsFor orders by the second of acceptance and then by a random id: any *)
(* order of the bets is possible.                                          *)
Orders(S) == { ord \in [S -> 1 .. Cardinality(S)] : \A i, j \in S : ord[i] = ord[j] => i = j }

(* A plausible slip: winnings are paid whatever balance they lead to. *)
PostingUnbounded(r, rd, in, S, i) ==
  LET mid == BalanceMid(r, rd, in, S, i)
      lck == LockedAfter(r)
  IN  IF PlayerOnly THEN RowOK(mid, lck, bets[i].account)
      ELSE /\ CanMove(BalanceWhen(r, rd, in, S), lck, House, bets[i].account,
                      GameDelta(bets[i], rd, in))
           /\ CanMove(mid, lck, bets[i].account, rd.rules.feeRecipient,
                      FeeMove(bets[i], rd, in))

(* Whether the postings of bet i go through after those of the bets in S: *)
(* playerGameDelta, or one or two transfers in house mode.                *)
PostingOK(r, rd, in, S, i) ==
  LET mid == BalanceMid(r, rd, in, S, i)
      lck == LockedAfter(r)
  IN  IF PlayerOnly
      THEN mid[bets[i].account] <= MoneyLimit /\ RowOK(mid, lck, bets[i].account)
      ELSE /\ CanMove(BalanceWhen(r, rd, in, S), lck, House, bets[i].account,
                      GameDelta(bets[i], rd, in))
           /\ CanMove(mid, lck, bets[i].account, rd.rules.feeRecipient,
                      FeeMove(bets[i], rd, in))

(* Releasing the locks: none may go below zero, and the fee recipient is   *)
(* looked up whenever the rules refund fees taken at acceptance, even in   *)
(* player mode, where it has nothing to release.                           *)
ReleaseOK(r, rd) ==
  /\ \A a \in Accounts : ReleasedBy(r, a) <= locked[a]
  /\ BetsOf(r) # {} /\ rd.rules.feeTiming = "acceptance" /\ rd.rules.voidFee = "refund"
       => AccountExists(rd.rules.feeRecipient)

-----------------------------------------------------------------------------
(* Rounds *)

Active == {"DRAFT", "OPEN", "CLOSED"}

Numbers == { rounds[r].number : r \in DOMAIN rounds }

(* A plausible slip: the next number is not checked to be a valid one. *)
NextNumberUnbounded(number) ==
  { n \in number + 1 .. LastNumber + 1 :
      /\ n \notin Numbers
      /\ \A k \in number + 1 .. n - 1 : k \in Numbers }

(* A plausible slip: the next number is taken without looking whether an *)
(* earlier round, numbered by hand, already has it.                      *)
NextNumberUnchecked(number) == { n \in {number + 1} : n <= LastNumber }

(* The number Settle gives the next draft: the first free one, unless it   *)
(* has too many digits or too many occupied ones come before it.           *)
NextNumber(number) ==
  { n \in number + 1 .. LastNumber :
      /\ n \notin Numbers
      /\ \A k \in number + 1 .. n - 1 : k \in Numbers
      /\ n - (number + 1) <= MaxSkips }

Draft(number, banker) ==
  [number |-> number, state |-> "DRAFT", banker |-> banker, rules |-> settings.rules,
   revision |-> 1]

(* A plausible slip: closing refreshes the round's rules from the settings. *)
ClosedWithNewRules(rd) ==
  [rd EXCEPT !.state = "CLOSED", !.revision = @ + 1, !.rules = settings.rules]

Closed(rd) == [rd EXCEPT !.state = "CLOSED", !.revision = @ + 1]

(* A round of an earlier day, cancelled before anyone bet on it. *)
Voided(number) ==
  [number |-> number, state |-> "VOID", banker |-> CHOOSE p \in Positions : TRUE,
   rules |-> settings.rules, revision |-> 3]

-----------------------------------------------------------------------------
Init ==
  /\ balance = [a \in Accounts |-> 0]
  /\ locked = [a \in Accounts |-> 0]
  /\ status = [a \in Accounts |->
                 IF a \in Players \/ PlayerOnly THEN "absent" ELSE "enabled"]
  /\ settings = [version |-> 1,
                 rules |-> [InitialRules EXCEPT !.confirmed = PlayerOnly \/ @]]
  /\ rounds = [i \in DOMAIN OldNumbers |-> Voided(OldNumbers[i])]
  /\ bets = << >>
  /\ shown = NoPreview
  /\ queued = {}

(* First contact of a Telegram user: HandleUpdate creates a disabled account. *)
Contact(p) ==
  /\ status[p] = "absent"
  /\ status' = [status EXCEPT ![p] = "disabled"]
  /\ UNCHANGED <<balance, locked, settings, rounds, bets, shown, queued>>

(* POST /api/accounts *)
SetPlayer(p, enabled) ==
  /\ status' = [status EXCEPT ![p] = IF enabled THEN "enabled" ELSE "disabled"]
  /\ UNCHANGED <<balance, locked, settings, rounds, bets, shown, queued>>

(* SUM over the RESERVED bets of one account, whatever their round. *)
StakesReserved(a) ==
  SumTo([i \in Nat |-> IF i \in DOMAIN bets /\ bets[i].account = a
                          /\ bets[i].state = "RESERVED"
                       THEN bets[i].stake ELSE 0], Len(bets))

FeesPaid(a) ==
  SumTo([i \in Nat |-> IF i \in DOMAIN bets /\ bets[i].account = a
                          /\ bets[i].state = "RESERVED"
                          /\ RulesOf(bets[i]).feeTiming = "acceptance"
                       THEN bets[i].fee ELSE 0], Len(bets))

(* A plausible slip: a debit of a player only looks at what is free. *)
QuarterIgnored(a, delta) == balance[a] + delta >= locked[a]

(* A debit must leave the accepted stakes within a quarter of the balance. *)
QuarterKept(a, delta) ==
  StakesReserved(a) <= (balance[a] + delta + FeesPaid(a)) \div 4

(* Adjust; the counterpart of the double-entry mode is "external". *)
Adjust(a, delta) ==
  /\ a # External /\ delta # 0 /\ delta <= MoneyLimit /\ delta >= - MoneyLimit
  /\ AccountExists(a)
  /\ IF PlayerOnly
     THEN /\ a \in Players
          /\ balance[a] + delta <= MoneyLimit
          /\ delta < 0 => balance[a] + delta >= locked[a]
          /\ balance' = [balance EXCEPT ![a] = @ + delta]
     ELSE /\ delta < 0 /\ a \in Players => QuarterKept(a, delta)
          /\ CanMove(balance, locked, External, a, delta)
          /\ balance' = [c \in Accounts |-> balance[c] + Moved(External, a, delta, c)]
  /\ UNCHANGED <<locked, status, settings, rounds, bets, shown, queued>>

(* SaveRules: a compare-and-set on the version the operator read. *)
SaveRules(expected, rl) ==
  /\ ValidRules(rl)
  /\ settings.version = expected
  /\ settings.version < MaxVersion
  /\ settings' = [version |-> settings.version + 1, rules |-> rl]
  /\ UNCHANGED <<balance, locked, status, rounds, bets, shown, queued>>

(* EnablePlayerOnly at every start: the rules count as confirmed. *)
Restart ==
  /\ PlayerOnly
  /\ settings' = [settings EXCEPT !.rules.confirmed = TRUE]
  /\ UNCHANGED <<balance, locked, status, rounds, bets, shown, queued>>

(* An empty draft has no heroes and no banker yet (banker 0). *)
CreateDraft(number, banker) ==
  /\ \A r \in DOMAIN rounds : rounds[r].state \notin Active
  /\ number \notin Numbers
  /\ Len(rounds) < MaxRounds
  /\ rounds' = Append(rounds, Draft(number, banker))
  /\ UNCHANGED <<balance, locked, status, settings, bets, shown, queued>>

Configure(r, number, banker) ==
  /\ rounds[r].state = "DRAFT"
  /\ \A q \in DOMAIN rounds \ {r} : rounds[q].number # number
  /\ rounds[r].revision < MaxRevision
  /\ rounds' = [rounds EXCEPT ![r].number = number, ![r].banker = banker,
                              ![r].revision = @ + 1]
  /\ UNCHANGED <<balance, locked, status, settings, bets, shown, queued>>

(* Opening takes the rules of that moment into the round. *)
OpenRound(r) ==
  /\ rounds[r].state = "DRAFT" /\ rounds[r].banker # 0
  /\ settings.rules.confirmed /\ ValidRules(settings.rules)
  /\ Len(rounds) < MaxRounds   \* bound: its settlement appends the next draft
  /\ rounds' = [rounds EXCEPT ![r].state = "OPEN", ![r].rules = settings.rules,
                              ![r].revision = @ + 1]
  /\ queued' = queued \cup {<<"round-open", r>>, <<"round-media", r>>}
  /\ UNCHANGED <<balance, locked, status, settings, bets, shown>>

CloseRound(r) ==
  /\ rounds[r].state = "OPEN"
  /\ rounds' = [rounds EXCEPT ![r] = Closed(@)]
  /\ queued' = queued \cup {<<"round-close", r>>}
                      \cup (IF MuteOnClose THEN {<<"group-mute", r>>} ELSE {})
  /\ UNCHANGED <<balance, locked, status, settings, bets, shown>>

(* PlaceBet, from the chat or from the API.  The fee of the house mode is  *)
(* taken here unless the rules take it at settlement.                      *)
PlaceBet(r, p, pos, stake) ==
  LET rl     == rounds[r].rules
      b      == [round |-> r, account |-> p, position |-> pos, stake |-> stake,
                 fee |-> IF PlayerOnly THEN 0 ELSE fee(stake),
                 state |-> "RESERVED", delta |-> 0]
      atOnce == IF ~ PlayerOnly /\ rl.feeTiming # "settlement" THEN b.fee ELSE 0
      base   == balance[p] + (IF ~ PlayerOnly /\ rl.feeTiming = "acceptance"
                              THEN FeesOf(r, p) ELSE 0)
      after  == [a \in Accounts |-> balance[a] + Moved(p, rl.feeRecipient, atOnce, a)]
  IN  /\ rounds[r].state = "OPEN"
      /\ pos # rounds[r].banker
      /\ stake >= rl.minStake /\ stake <= rl.maxStake
      /\ status[p] = "enabled"
      /\ StakesOf(r, p) + stake <= base \div 4
      /\ Cardinality(BetsOf(r)) < MaxBetsPerRound
      /\ balance[p] - locked[p] >= riskFor(stake, MaxRate(rl.loss))
      /\ ~ PlayerOnly => balance[House] - locked[House] >= Exposure(b, rl)
      /\ CanTransfer(balance, locked, p, rl.feeRecipient, atOnce)
      /\ \A a \in Accounts : Hold(b, rl, a) > 0 => locked[a] + Hold(b, rl, a) <= after[a]
      /\ balance' = after
      /\ locked' = [a \in Accounts |-> locked[a] + Hold(b, rl, a)]
      /\ bets' = Append(bets, b)
      /\ rounds' = [rounds EXCEPT ![r].revision = @ + 1]
      /\ queued' = queued \cup {<<"bet", Len(bets) + 1>>}
      /\ UNCHANGED <<status, settings, shown>>

-----------------------------------------------------------------------------
(* Settlement *)

(* The preview is a read; the token it returns is what matters later. *)
Preview(r, in) ==
  /\ in.kind # "cancel"
  /\ PreviewOK(r, rounds[r], in)
  /\ shown' = MakePreview(r, rounds[r], in)
  /\ UNCHANGED <<balance, locked, status, settings, rounds, bets, queued>>

(* A plausible slip: the bets a hero's void leaves undecided stay reserved. *)
SettledBetVoidKept(b, line) ==
  [b EXCEPT !.state = IF line.outcome = "VOID" THEN @ ELSE line.outcome,
            !.delta = line.delta]

SettledBet(b, line) == [b EXCEPT !.state = line.outcome, !.delta = line.delta]

(* Locks released, postings made, results saved, next draft created and    *)
(* notices queued, all or nothing.                                         *)
Finish(r, rd, in) ==
  LET p == MakePreview(r, rd, in)
  IN  /\ PreviewOK(r, rd, in)
      /\ ReleaseOK(r, rd)
      /\ \E ord \in Orders(BetsOf(r)) : \A i \in BetsOf(r) :
           PostingOK(r, rd, in, { j \in BetsOf(r) : ord[j] < ord[i] }, i)
      /\ \A a \in Accounts : RowOK(BalanceAfter(r, rd, in), LockedAfter(r), a)
      /\ balance' = BalanceAfter(r, rd, in)
      /\ locked' = LockedAfter(r)
      /\ bets' = [i \in DOMAIN bets |->
                    IF i \in BetsOf(r) THEN SettledBet(bets[i], p.lines[i]) ELSE bets[i]]
      /\ \E number \in NextNumber(rd.number) :
           rounds' = Append([rounds EXCEPT ![r] =
                               [rd EXCEPT !.state = IF p.wholeVoid THEN "VOID" ELSE "SETTLED",
                                          !.revision = @ + 1]],
                            Draft(number, 0))
      /\ queued' = queued
           \cup {<<"round-result", r>>, <<"round-winners", r>>, <<"next", r>>}
           \cup { <<"settle", r, bets[i].account>> : i \in BetsOf(r) }
           \cup (IF <<"group-mute", r>> \in queued THEN {<<"group-restore", r>>} ELSE {})
           \cup (IF in.kind = "cancel" THEN {<<"cancel", r>>} ELSE {})
      /\ UNCHANGED <<status, settings, shown>>

(* A plausible slip: any token of this round will do. *)
TokenOfRound(token, p) == token # NoPreview /\ token.round = p.round

TokenMatches(token, p) == token # NoPreview /\ token = p

Settle(r, in) ==
  /\ in.kind # "cancel"
  /\ PreviewOK(r, rounds[r], in)
  /\ TokenMatches(shown, MakePreview(r, rounds[r], in))
  /\ Finish(r, rounds[r], in)

(* Cancelling an open round closes it in the same transaction, without the *)
(* notice and the muting of CloseRound, and settles it as void.            *)
CancelRound(r, in) ==
  /\ in.kind = "cancel"
  /\ rounds[r].state \in {"OPEN", "CLOSED"}
  /\ Finish(r, IF rounds[r].state = "OPEN" THEN Closed(rounds[r]) ELSE rounds[r], in)

Next ==
  \/ \E p \in Players : Contact(p)
  \/ \E p \in Players, enabled \in BOOLEAN : SetPlayer(p, enabled)
  \/ \E a \in Accounts, delta \in Deltas : Adjust(a, delta)
  \/ \E expected \in 1 .. MaxVersion, rl \in RuleSet : SaveRules(expected, rl)
  \/ Restart
  \/ \E number \in 1 .. LastNumber, banker \in Positions \cup {0} : CreateDraft(number, banker)
  \/ \E r \in DOMAIN rounds, number \in 1 .. LastNumber, banker \in Positions :
       Configure(r, number, banker)
  \/ \E r \in DOMAIN rounds : OpenRound(r)
  \/ \E r \in DOMAIN rounds : CloseRound(r)
  \/ \E r \in DOMAIN rounds, p \in Players, pos \in Positions, stake \in Stakes :
       PlaceBet(r, p, pos, stake)
  \/ \E r \in DOMAIN rounds, in \in Inputs : Preview(r, in)
  \/ \E r \in DOMAIN rounds, in \in Inputs : Settle(r, in)
  \/ \E r \in DOMAIN rounds, in \in Inputs : CancelRound(r, in)

Spec == Init /\ [][Next]_vars

-----------------------------------------------------------------------------
(* Types *)

RoundStates == Active \cup {"SETTLED", "VOID"}

Round == [number : 1 .. LastNumber, state : RoundStates, banker : Positions \cup {0},
          rules : ValidRuleSets, revision : Nat]

Bet == [round : Nat, account : Players, position : Positions, stake : Nat \ {0},
        fee : Nat, state : {"RESERVED", "WIN", "LOSS", "VOID"}, delta : Int]

Notices ==
  ({"round-open", "round-media", "round-close", "group-mute", "group-restore", "bet",
    "round-result", "round-winners", "next", "cancel"} \X Nat)
  \cup ({"settle"} \X Nat \X Players)

(* Every row of every table has its type; in particular a draft numbered by *)
(* a settlement has a valid number.                                         *)
TypeOK ==
  /\ balance \in [Accounts -> Int]
  /\ locked \in [Accounts -> Nat]
  /\ status \in [Accounts -> Statuses]
  /\ settings \in [version : Nat, rules : ValidRuleSets]
  /\ rounds \in Seq(Round)
  /\ bets \in Seq(Bet)
  /\ shown.round \in Nat
  /\ queued \subseteq Notices

-----------------------------------------------------------------------------
(* Safety *)

(* Whatever the players win, no balance leaves the range the program can *)
(* compute with.                                                         *)
WithinLimit == \A a \in Accounts : balance[a] \in - MoneyLimit .. MoneyLimit

(* The reservation of bet i, while it awaits its result. *)
HeldBy(i, a) ==
  IF i \in DOMAIN bets /\ bets[i].state = "RESERVED"
  THEN Hold(bets[i], RulesOf(bets[i]), a) ELSE 0

(* What an account has locked is exactly what its bets awaiting a result    *)
(* reserved when they were accepted, under the rules of their round: no     *)
(* order of bets, rule changes, closings, settlements and cancellations     *)
(* leaves money frozen for nothing, or a bet without its reservation.       *)
LockedIsHeld ==
  \A a \in Accounts : locked[a] = SumTo([i \in Nat |-> HeldBy(i, a)], Len(bets))

(* A bet awaits its result exactly as long as its round does, and a draft  *)
(* has no bets: a settlement leaves none behind, and none is paid twice.    *)
BetsMatchRound ==
  \A i \in DOMAIN bets :
    /\ bets[i].round \in DOMAIN rounds
    /\ rounds[bets[i].round].state # "DRAFT"
    /\ bets[i].state = "RESERVED" <=> rounds[bets[i].round].state \in {"OPEN", "CLOSED"}

(* Only the newest round is drafted, open or closed, and no two rounds have *)
(* one number, although operators number rounds by hand and a settlement    *)
(* numbers the next one by itself.                                          *)
RoundChain ==
  /\ \A r \in DOMAIN rounds : rounds[r].state \in Active => r = Len(rounds)
  /\ \A q, r \in DOMAIN rounds : rounds[q].number = rounds[r].number => q = r

(* In house mode a cancellation may have to give back fees nobody reserved. *)
RefundReserved(rd, in) ==
  \/ PlayerOnly \/ in.kind # "cancel"
  \/ rd.rules.feeTiming # "acceptance" \/ rd.rules.voidFee = "refund"

(* What the bets reserved is enough for every result of their round: in     *)
(* whatever order they are settled, after any of them no account is left    *)
(* with less than what stays locked on it, so that no settlement is ever    *)
(* refused for want of money.                                               *)
SettlementCovered ==
  \A r \in DOMAIN rounds, in \in Inputs :
    LET rd == Closed(rounds[r])
    IN  rounds[r].state \in {"OPEN", "CLOSED"} /\ PreviewOK(r, rd, in) /\ RefundReserved(rd, in)
        => \A S \in SUBSET BetsOf(r), i \in BetsOf(r), a \in Accounts \ {External} :
             i \notin S =>
               /\ BalanceMid(r, rd, in, S, i)[a] >= LockedAfter(r)[a]
               /\ BalanceWhen(r, rd, in, S \cup {i})[a] >= LockedAfter(r)[a]

(* The player mode has no fee accounts and takes no fees, says docs/RULES.md: *)
(* whatever fee settings the rules carry, a closed round can release its      *)
(* locks, which every settlement and every cancellation starts with.          *)
NoFeeAccountNeeded ==
  PlayerOnly => \A r \in DOMAIN rounds :
                  rounds[r].state = "CLOSED" => ReleaseOK(r, rounds[r])

(* House mode: what a player has staked on the round never exceeds a quarter *)
(* of the balance, fees taken at acceptance included, even when an operator  *)
(* takes points off the account between two bets.                            *)
QuarterRule ==
  \A r \in DOMAIN rounds, p \in Players :
    rounds[r].state \in {"OPEN", "CLOSED"} =>
      StakesOf(r, p) <=
        (balance[p] + (IF rounds[r].rules.feeTiming = "acceptance"
                       THEN FeesOf(r, p) ELSE 0)) \div 4

-----------------------------------------------------------------------------
(* Action properties *)

(* The change of player p's balance that the preview on the screen announces. *)
AnnouncedChange(r, p) ==
  SumTo([i \in Nat |-> IF i \in BetsOf(r) /\ bets[i].account = p
                       THEN shown.lines[i].delta ELSE 0], Len(bets))

(* A round is settled with the results the operator last looked at, bet by  *)
(* bet and player by player, although bets, rules and balances may have     *)
(* changed and other inputs been previewed since.                           *)
SettledAsShown ==
  [][\A r \in DOMAIN rounds :
       rounds[r].state # "SETTLED" /\ rounds'[r].state = "SETTLED" =>
         /\ shown.round = r /\ DOMAIN shown.lines = BetsOf(r)
         /\ \A i \in BetsOf(r) : /\ bets'[i].state = shown.lines[i].outcome
                                 /\ bets'[i].delta = shown.lines[i].delta
         /\ PlayerOnly => \A p \in Players : balance'[p] = balance[p] + AnnouncedChange(r, p)]_vars

(* The rules a round was opened with stay its rules until it is settled and *)
(* after: saving new rules changes no bet already accepted.                 *)
RulesFrozen ==
  [][\A r \in DOMAIN rounds :
       rounds[r].state # "DRAFT" => rounds'[r].rules = rounds[r].rules]_vars

(* A void round costs no player anything: what the bets reserved is free    *)
(* again, no balance moves but for the fees taken when the bets were        *)
(* accepted, and those come back if the rules or a cancellation say so.     *)
VoidIsNeutral ==
  [][\A r \in DOMAIN rounds, p \in Players :
       rounds[r].state # "VOID" /\ rounds'[r].state = "VOID"
       /\ (PlayerOnly \/ (rounds[r].rules.feeTiming = "acceptance"
                          /\ rounds[r].rules.voidFee = "refund"
                          /\ rounds[r].rules.feeRecipient # p))
       => /\ balance'[p] = balance[p] + FeesOf(r, p)
          /\ balance'[p] - locked'[p] >= balance[p] - locked[p]]_vars
=============================================================================
