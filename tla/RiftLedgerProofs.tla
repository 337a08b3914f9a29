-------------------------- MODULE RiftLedgerProofs --------------------------
(***************************************************************************)
(* Proofs about the ledger core, its audit and scoring, for every number   *)
(* of players, positions, rules, stakes and rounds: TLC checks the same    *)
(* properties on the small instances of MCRiftLedger and MCBull.           *)
(*************************************************************************)
EXTENDS Reconcile, MCBull, PrefixSumsProofs, SequenceTheorems, TLAPS

-----------------------------------------------------------------------------
(* Money arithmetic, for all amounts and rates *)

(* The largest rate exists, is one of the rates or 0, and bounds them all. *)
LEMMA MaxRateBounds ==
  ASSUME NEW rates \in [Ranks -> Rates]
  PROVE  /\ MaxRate(rates) \in Nat
         /\ \A k \in Ranks : rates[k] <= MaxRate(rates)
<1> DEFINE V == {0} \cup { rates[k] : k \in Ranks }
           Bounds(m, n) == m >= 0 /\ \A k \in Ranks : k < n => rates[k] <= m
           S == { n \in Nat : \E m \in V : Bounds(m, n) }
<1>0. \A k \in Ranks : rates[k] \in Nat
  <2>1. Rates \subseteq Nat
    BY DEF Rates
  <2> QED BY <2>1
<1>1. \A m \in V : m \in Nat
  BY <1>0
<1>2. 0 \in S
  BY DEF Ranks
<1>3. ASSUME NEW n \in Nat, n \in S PROVE n + 1 \in S
  <2>1. PICK m \in V : Bounds(m, n)
    BY <1>3
  <2>0. m \in Nat
    BY <1>1
  <2>2. CASE n \in Ranks /\ rates[n] > m
    <3>1. rates[n] \in V /\ rates[n] \in Nat /\ m \in Nat
      BY <2>2, <2>0, <1>0
    <3>2. ASSUME NEW k \in Ranks, k < n + 1 PROVE rates[k] <= rates[n]
      <4>1. k \in Int /\ rates[k] \in Nat
        BY <1>0 DEF Ranks
      <4>2. CASE k < n
        BY <4>1, <4>2, <2>1, <2>2, <3>1
      <4>3. CASE k = n
        BY <4>3, <3>1
      <4> QED BY <4>1, <4>2, <4>3, <3>2
    <3>3. Bounds(rates[n], n + 1)
      BY <3>1, <3>2
    <3> QED BY <3>1, <3>3
  <2>3. CASE ~ (n \in Ranks /\ rates[n] > m)
    <3>2. ASSUME NEW k \in Ranks, k < n + 1 PROVE rates[k] <= m
      <4>1. k \in Int /\ rates[k] \in Nat
        BY <1>0 DEF Ranks
      <4> QED BY <4>1, <2>0, <2>1, <2>3, <3>2
    <3>1. Bounds(m, n + 1)
      BY <2>1, <3>2
    <3> QED BY <3>1, <2>1
  <2> QED BY <2>2, <2>3
<1>4. \A n \in Nat : n \in S
  <2> HIDE DEF S
  <2> QED BY <1>2, <1>3, NatSetInduction
<1>5. \E m \in V : Bounds(m, 11)
  BY <1>4
<1>6. \E m \in V : m >= 0 /\ \A k \in Ranks : rates[k] <= m
  <2>1. \A k \in Ranks : k < 11
    BY DEF Ranks
  <2> QED BY <1>5, <2>1
<1>7. MaxRate(rates) \in V /\ \A k \in Ranks : rates[k] <= MaxRate(rates)
  BY <1>6 DEF MaxRate
<1> QED BY <1>1, <1>7

(* Profits are natural numbers, and grow with the rate. *)
LEMMA ProfitBounds ==
  ASSUME NEW stake \in Nat, NEW low \in Nat, NEW high \in Nat, low <= high
  PROVE  /\ profitFor(stake, low) \in Nat
         /\ profitFor(stake, low) <= profitFor(stake, high)
<1>1. stake * low \in Nat /\ stake * high \in Nat /\ stake * low <= stake * high
  <2>1. \E d \in Nat : high = low + d
    BY high - low \in Nat /\ high = low + (high - low)
  <2>2. PICK d \in Nat : high = low + d
    BY <2>1
  <2>3. stake * high = stake * low + stake * d
    BY <2>2
  <2>4. stake * low \in Nat /\ stake * d \in Nat
    OBVIOUS
  <2> QED BY <2>3, <2>4
<1> DEFINE x == stake * low
           y == stake * high
<1>2. \A u, v \in Nat : u <= v => (u + 50) \div 100 \in Nat /\ (u + 50) \div 100 <= (v + 50) \div 100
  OBVIOUS
<1>3. (x + 50) \div 100 \in Nat /\ (x + 50) \div 100 <= (y + 50) \div 100
  BY <1>1, <1>2
<1> QED BY <1>3 DEF profitFor

(* The reserve of a bet covers its stake and each loss it may suffer. *)
THEOREM RiskCovers ==
  ASSUME NEW stake \in Nat, NEW rates \in [Ranks -> Rates]
  PROVE  /\ riskFor(stake, MaxRate(rates)) \in Nat
         /\ stake <= riskFor(stake, MaxRate(rates))
         /\ \A k \in Ranks : /\ lossFor(stake, rates[k]) \in Nat
                             /\ lossFor(stake, rates[k]) <= riskFor(stake, MaxRate(rates))
<1>1. MaxRate(rates) \in Nat /\ \A k \in Ranks : rates[k] \in Nat /\ rates[k] <= MaxRate(rates)
  <2>1. Rates \subseteq Nat
    BY DEF Rates
  <2> QED BY <2>1, MaxRateBounds
<1>2. profitFor(stake, MaxRate(rates)) \in Nat
  BY <1>1, ProfitBounds
<1>3. ASSUME NEW k \in Ranks
      PROVE  /\ profitFor(stake, rates[k]) \in Nat
             /\ profitFor(stake, rates[k]) <= profitFor(stake, MaxRate(rates))
  BY <1>1, ProfitBounds
<1> HIDE DEF profitFor
<1> QED BY <1>2, <1>3 DEF riskFor, lossFor

-----------------------------------------------------------------------------
(* Types of the operators *)

LEMMA RateTypes ==
  ASSUME NEW rl \in ValidRuleSets
  PROVE  /\ rl.payout \in [Ranks -> Rates] /\ rl.loss \in [Ranks -> Rates]
         /\ rl.minStake \in Int /\ rl.maxStake \in Int
         /\ rl.feeRecipient \in Accounts \cup {NoAccount}
         /\ rl \in Rules /\ ValidRules(rl)
<1>1. rl \in Rules /\ ValidRules(rl)
  BY DEF ValidRuleSets
<1>2. /\ rl.payout \in [Ranks -> Int] /\ rl.loss \in [Ranks -> Int]
      /\ rl.minStake \in Int /\ rl.maxStake \in Int
      /\ rl.feeRecipient \in Accounts \cup {NoAccount}
  BY <1>1 DEF Rules
<1>3. \A k \in Ranks : rl.payout[k] \in Rates /\ rl.loss[k] \in Rates
  BY <1>1 DEF ValidRules
<1> QED BY <1>1, <1>2, <1>3

LEMMA FeeNat == \A stake \in Int : fee(stake) \in Nat
<1>1. Points(1) \in Nat /\ Points(2) \in Nat
  BY MoneyScaleAssumption DEF Points
<1> QED BY <1>1 DEF fee

LEMMA ExposureNat ==
  ASSUME NEW stake \in Nat, NEW basis \in Nat
  PROVE  exposureFor(stake, basis) \in Nat
<1>1. stake * basis \in Nat
  OBVIOUS
<1>2. \A x, d \in Nat : d > 0 => x \div d \in Nat
  OBVIOUS
<1> DEFINE d == 100 * MoneyScale
           x == stake * basis + 100 * MoneyScale - 1
<1>3. d \in Nat /\ d > 0 /\ x \in Nat
  BY <1>1, MoneyScaleAssumption
<1>4. x \div d \in Nat
  BY <1>2, <1>3
<1>5. \A q \in Nat : q * MoneyScale \in Nat
  BY MoneyScaleAssumption
<1> QED BY <1>4, <1>5 DEF exposureFor

(* What a bet locks and what its settlement releases are natural numbers. *)
LEMMA HoldNat ==
  ASSUME NEW b \in Bet, NEW rl \in ValidRuleSets, NEW a
  PROVE  Hold(b, rl, a) \in Nat /\ Release(b, rl, a) \in Nat
<1>1. b.stake \in Nat /\ b.fee \in Nat
  BY DEF Bet
<1>2. rl.payout \in [Ranks -> Rates] /\ rl.loss \in [Ranks -> Rates]
  BY RateTypes
<1>3. riskFor(b.stake, MaxRate(rl.loss)) \in Nat
  BY <1>1, <1>2, RiskCovers
<1>4. Reserve(b, rl) \in Nat /\ ReserveReleased(b, rl) \in Nat
  BY <1>1, <1>3 DEF Reserve, ReserveReleased
<1>5. Exposure(b, rl) \in Nat
  BY <1>1, <1>2, MaxRateBounds, ExposureNat DEF Exposure
<1> QED BY <1>1, <1>4, <1>5 DEF Hold, Release

(* A hero that wins or loses has a rank, so its rate is defined. *)
LEMMA OutcomeTypes ==
  ASSUME NEW rd \in Round, rd.banker \in Positions, NEW in \in Input, NEW pos \in Positions
  PROVE  /\ Outcome(rd, in, pos) \in {"WIN", "LOSS", "VOID"}
         /\ Outcome(rd, in, pos) = "WIN"  => in.hands[pos].rank \in Ranks
         /\ Outcome(rd, in, pos) = "LOSS" => in.hands[rd.banker].rank \in Ranks
<1>1. in.hands[pos] \in Hand /\ in.hands[rd.banker] \in Hand
  BY DEF Input
<1>2. ASSUME NEW h \in Hand PROVE h.void \in BOOLEAN /\ (~ h.void => h.rank \in Ranks)
  <2>1. CASE h \in {BadHand, VoidHand}
    <3>1. BadHand.void = TRUE /\ VoidHand.void = TRUE
      BY DEF BadHand, VoidHand
    <3> QED BY <2>1, <3>1
  <2>2. CASE h \in [bad : {FALSE}, void : {FALSE}, rank : 0 .. 10, max : Digit]
    BY <2>2 DEF Ranks
  <2> QED BY <2>1, <2>2 DEF Hand
<1>3. ASSUME NEW g \in Hand, NEW h \in Hand
      PROVE  /\ Compare(g, h) \in {"WIN", "LOSS", "VOID"}
             /\ Compare(g, h) # "VOID" => g.rank \in Ranks /\ h.rank \in Ranks
  BY <1>2 DEF Compare
<1> QED BY <1>1, <1>3 DEF Outcome

LEMMA GameDeltaInt ==
  ASSUME NEW rd \in Round, rd.banker \in Positions, NEW in \in Input, NEW b \in Bet
  PROVE  GameDelta(b, rd, in) \in Int
<1>1. b.stake \in Nat /\ b.position \in Positions
  BY DEF Bet
<1>2. rd.rules \in ValidRuleSets
  BY DEF Round
<1>3. rd.rules.payout \in [Ranks -> Rates] /\ rd.rules.loss \in [Ranks -> Rates]
  BY <1>2, RateTypes
<1>4. \A k \in Ranks : rd.rules.payout[k] \in Nat /\ rd.rules.loss[k] \in Nat
  <2>1. Rates \subseteq Nat
    BY DEF Rates
  <2> QED BY <1>3, <2>1
<1>5. \A k \in Ranks : /\ profitFor(b.stake, rd.rules.payout[k]) \in Nat
                       /\ lossFor(b.stake, rd.rules.loss[k]) \in Nat
  <2>1. \A n \in Nat : profitFor(b.stake, n) \in Nat
    BY <1>1, ProfitBounds
  <2>2. \A n \in Nat : lossFor(b.stake, n) \in Nat
    BY <2>1 DEF lossFor
  <2> QED BY <1>4, <2>1, <2>2
<1>6. CASE Outcome(rd, in, b.position) = "WIN"
  BY <1>1, <1>5, <1>6, OutcomeTypes DEF GameDelta
<1>7. CASE Outcome(rd, in, b.position) = "LOSS"
  <2>1. lossFor(b.stake, rd.rules.loss[in.hands[rd.banker].rank]) \in Nat
    BY <1>1, <1>5, <1>7, OutcomeTypes
  <2>2. GameDelta(b, rd, in) = - lossFor(b.stake, rd.rules.loss[in.hands[rd.banker].rank])
    BY <1>7 DEF GameDelta
  <2>3. \A n \in Nat : - n \in Int
    OBVIOUS
  <2> QED BY <2>1, <2>2, <2>3, ZenonT(20)
<1>8. CASE Outcome(rd, in, b.position) = "VOID"
  BY <1>8 DEF GameDelta
<1> QED BY <1>1, <1>6, <1>7, <1>8, OutcomeTypes

LEMMA EffectInt ==
  ASSUME NEW rd \in Round, rd.banker \in Positions, NEW in \in Input, NEW b \in Bet, NEW a
  PROVE  GameEffect(b, rd, in, a) \in Int /\ Effect(b, rd, in, a) \in Int
<1>1. b.fee \in Nat
  BY DEF Bet
<1>2. LineFee(b, rd, in) \in Nat
  BY <1>1 DEF LineFee
<1>3. FeeMove(b, rd, in) \in Int
  BY <1>1, <1>2 DEF FeeMove
<1>4. \A n \in Int : \A from, to : Moved(from, to, n, a) \in Int
  BY DEF Moved
<1>5. GameEffect(b, rd, in, a) \in Int
  BY <1>4, GameDeltaInt DEF GameEffect
<1>6. Moved(b.account, rd.rules.feeRecipient, FeeMove(b, rd, in), a) \in Int
  BY <1>3, <1>4
<1> QED BY <1>5, <1>6 DEF Effect

-----------------------------------------------------------------------------
(* Tables as sequences *)

LEMMA SeqFacts ==
  ASSUME NEW S, NEW s \in Seq(S)
  PROVE  /\ Len(s) \in Nat /\ DOMAIN s = 1 .. Len(s)
         /\ \A i \in DOMAIN s : s[i] \in S /\ i \in Nat
  OBVIOUS

LEMMA SeqUpdate ==
  ASSUME NEW S, NEW s \in Seq(S), NEW f \in [DOMAIN s -> S]
  PROVE  f \in Seq(S) /\ Len(f) = Len(s)
<1>1. Len(s) \in Nat /\ DOMAIN s = 1 .. Len(s)
  OBVIOUS
<1> QED BY <1>1

LEMMA SeqAppend ==
  ASSUME NEW S, NEW s \in Seq(S), NEW x \in S
  PROVE  /\ Append(s, x) \in Seq(S) /\ Len(Append(s, x)) = Len(s) + 1
         /\ DOMAIN Append(s, x) = DOMAIN s \cup {Len(s) + 1}
         /\ Len(s) + 1 \notin DOMAIN s
         /\ \A i \in DOMAIN s : Append(s, x)[i] = s[i]
         /\ Append(s, x)[Len(s) + 1] = x
  OBVIOUS

-----------------------------------------------------------------------------
(* The sums a settlement is computed from *)

LEMMA ReleasedByInt ==
  ASSUME TypeOK, BetsMatchRound, NEW r, NEW a
  PROVE  ReleasedBy(r, a) \in Int
<1> DEFINE w == [i \in Nat |-> IF i \in BetsOf(r) THEN Release(bets[i], RulesOf(bets[i]), a)
                               ELSE 0]
<1>1. ASSUME NEW i \in BetsOf(r) PROVE Release(bets[i], RulesOf(bets[i]), a) \in Int
  <2>1. i \in DOMAIN bets /\ bets[i] \in Bet
    BY SeqFacts DEF BetsOf, TypeOK
  <2>2. RulesOf(bets[i]) \in ValidRuleSets
    <3>1. bets[i].round \in DOMAIN rounds
      BY <2>1 DEF BetsMatchRound
    <3>2. rounds[bets[i].round] \in Round
      BY <3>1, SeqFacts DEF TypeOK
    <3> QED BY <3>2 DEF RulesOf, Round
  <2> QED BY <2>1, <2>2, HoldNat
<1>2. w \in [Nat -> Int]
  BY <1>1
<1>3. Len(bets) \in Nat
  BY SeqFacts DEF TypeOK
<1>4. SumTo(w, Len(bets)) \in Int
  BY <1>2, <1>3, SumStep
<1> QED BY <1>4 DEF ReleasedBy

LEMMA BalanceWhenInt ==
  ASSUME TypeOK, NEW r, NEW rd \in Round, rd.banker \in Positions, NEW in \in Input, NEW S
  PROVE  BalanceWhen(r, rd, in, S) \in [Accounts -> Int]
<1> SUFFICES ASSUME NEW a \in Accounts
             PROVE  BalanceWhen(r, rd, in, S)[a] \in Int
  BY DEF BalanceWhen
<1> DEFINE w == [i \in Nat |-> IF i \in BetsOf(r) /\ i \in S
                               THEN Effect(bets[i], rd, in, a) ELSE 0]
<1>1. ASSUME NEW i \in BetsOf(r) PROVE Effect(bets[i], rd, in, a) \in Int
  <2>1. bets[i] \in Bet
    BY SeqFacts DEF BetsOf, TypeOK
  <2> QED BY <2>1, EffectInt
<1>2. w \in [Nat -> Int]
  BY <1>1
<1>3. Len(bets) \in Nat
  BY SeqFacts DEF TypeOK
<1>4. SumTo(w, Len(bets)) \in Int
  BY <1>2, <1>3, SumStep
<1>5. balance[a] \in Int
  BY DEF TypeOK
<1> QED BY <1>4, <1>5 DEF BalanceWhen

-----------------------------------------------------------------------------
(* The invariant that needs no assumption about the fee settings *)

(* An opened round has a banker. *)
BankerChosen == \A r \in DOMAIN rounds : rounds[r].state # "DRAFT" => rounds[r].banker # 0

TablesInv == TypeOK /\ BankerChosen /\ BetsMatchRound /\ RoundChain

LEMMA ConfirmedRules ==
  ASSUME NEW rl \in ValidRuleSets, NEW c \in BOOLEAN
  PROVE  [rl EXCEPT !.confirmed = c] \in ValidRuleSets
<1> DEFINE new == [rl EXCEPT !.confirmed = c]
<1>1. rl \in Rules /\ ValidRules(rl)
  BY DEF ValidRuleSets
<1>2. new \in Rules
  BY <1>1 DEF Rules
<1>3. /\ new.payout = rl.payout /\ new.loss = rl.loss
      /\ new.minStake = rl.minStake /\ new.maxStake = rl.maxStake
  BY <1>1 DEF Rules
<1>4. ValidRules(new)
  <2> HIDE DEF new
  <2> QED BY <1>1, <1>3 DEF ValidRules
<1> QED BY <1>2, <1>4 DEF ValidRuleSets

LEMMA InitRules == Init => settings.rules \in ValidRuleSets
<1> SUFFICES ASSUME Init PROVE settings.rules \in ValidRuleSets
  OBVIOUS
<1>1. InitialRules \in ValidRuleSets /\ PlayerOnly \in BOOLEAN
  BY ConstantsAssumption
<1>2. InitialRules.confirmed \in BOOLEAN
  BY <1>1, RateTypes DEF Rules
<1>3. [InitialRules EXCEPT !.confirmed = PlayerOnly \/ InitialRules.confirmed] \in ValidRuleSets
  BY <1>1, <1>2, ConfirmedRules
<1> QED BY <1>3 DEF Init

LEMMA InitTables == Init => TablesInv
<1> SUFFICES ASSUME Init PROVE TablesInv
  OBVIOUS
<1> DEFINE old == OldNumbers
<1>1. rounds = [i \in DOMAIN old |-> Voided(old[i])] /\ bets = << >> /\ DOMAIN bets = {}
  BY DEF Init
<1>a. /\ old \in Seq(1 .. LastNumber)
      /\ \A i, j \in DOMAIN old : old[i] = old[j] => i = j
      /\ old # << >> => Positions # {}
  BY ConstantsAssumption
<1>b. DOMAIN rounds = DOMAIN old /\ DOMAIN old = 1 .. Len(old) /\ Len(old) \in Nat
  BY <1>1, <1>a
<1>c. settings.rules \in ValidRuleSets
  BY InitRules
<1>d. ASSUME NEW r \in DOMAIN rounds
      PROVE  /\ rounds[r] \in Round /\ rounds[r].state = "VOID"
             /\ rounds[r].number = old[r] /\ rounds[r].banker \in Positions
  <2> HIDE DEF old
  <2>1. rounds[r] = Voided(old[r]) /\ old[r] \in 1 .. LastNumber
    <3>1. r \in DOMAIN old
      BY <1>b
    <3>2. old[r] \in 1 .. LastNumber
      <4> DEFINE S == 1 .. LastNumber
      <4>1. old \in Seq(S)
        BY <1>a
      <4> HIDE DEF S
      <4>2. old[r] \in S
        BY <4>1, <3>1
      <4> QED BY <4>2 DEF S
    <3> DEFINE v(n) == Voided(n)
    <3>3. rounds = [i \in DOMAIN old |-> v(old[i])]
      BY <1>1
    <3>4. rounds[r] = v(old[r])
      <4> HIDE DEF v
      <4> QED BY <3>1, <3>3
    <3> QED BY <3>2, <3>4
  <2>2. old # << >>
    BY <1>b
  <2>3. (CHOOSE p \in Positions : TRUE) \in Positions
    BY <2>2, <1>a
  <2>4. /\ rounds[r].state = "VOID" /\ rounds[r].number = old[r]
        /\ rounds[r].banker = CHOOSE p \in Positions : TRUE
    BY <2>1 DEF Voided
  <2>5. Voided(old[r]) \in Round
    <3>1. "VOID" \in RoundStates
      BY DEF RoundStates
    <3> QED BY <2>1, <2>3, <1>c, <3>1 DEF Voided, Round
  <2> QED BY <2>1, <2>3, <2>4, <2>5
<1> HIDE DEF old
<1>2. BankerChosen /\ BetsMatchRound /\ RoundChain
  <2>1. BankerChosen
    <3>1. 0 \notin Positions
      BY ConstantsAssumption
    <3> QED BY <1>d, <3>1 DEF BankerChosen
  <2>2. BetsMatchRound
    BY <1>1 DEF BetsMatchRound
  <2>3. RoundChain
    BY <1>a, <1>b, <1>d DEF RoundChain, Active
  <2> QED BY <2>1, <2>2, <2>3
<1>3. TypeOK
  <2>1. balance \in [Accounts -> Int] /\ locked \in [Accounts -> Nat]
    BY DEF Init
  <2>2. status \in [Accounts -> Statuses]
    BY DEF Init, Statuses
  <2>3. settings \in [version : Nat, rules : ValidRuleSets]
    BY <1>c DEF Init
  <2>4. rounds \in Seq(Round) /\ bets \in Seq(Bet)
    <3>1. rounds \in Seq(Round)
      <4>1. \A i \in 1 .. Len(old) : Voided(old[i]) \in Round
        BY <1>1, <1>b, <1>d
      <4> DEFINE v(i) == Voided(old[i])
      <4>2. \A i \in 1 .. Len(old) : v(i) \in Round
        BY <4>1
      <4>3. rounds = [i \in 1 .. Len(old) |-> v(i)]
        BY <1>1, <1>b
      <4> HIDE DEF v
      <4> QED BY <4>2, <4>3, <1>b
    <3> QED BY <3>1, <1>1
  <2>5. shown.round \in Nat /\ queued \subseteq Notices
    BY DEF Init, NoPreview
  <2> QED BY <2>1, <2>2, <2>3, <2>4, <2>5 DEF TypeOK
<1> QED BY <1>2, <1>3 DEF TablesInv

(* A row that keeps its type under an update of some of its fields. *)
LEMMA RoundUpdates ==
  ASSUME NEW rd \in Round, NEW st \in RoundStates
  PROVE  /\ [rd EXCEPT !.state = st, !.revision = @ + 1] \in Round
         /\ [rd EXCEPT !.state = st, !.revision = @ + 1].state = st
         /\ [rd EXCEPT !.state = st, !.revision = @ + 1].number = rd.number
         /\ [rd EXCEPT !.state = st, !.revision = @ + 1].banker = rd.banker
         /\ [rd EXCEPT !.state = st, !.revision = @ + 1].rules = rd.rules
<1>1. rd.revision + 1 \in Nat
  BY DEF Round
<1>2. ASSUME NEW n \in Nat
      PROVE  /\ [rd EXCEPT !.state = st, !.revision = n] \in Round
             /\ [rd EXCEPT !.state = st, !.revision = n].state = st
             /\ [rd EXCEPT !.state = st, !.revision = n].number = rd.number
             /\ [rd EXCEPT !.state = st, !.revision = n].banker = rd.banker
             /\ [rd EXCEPT !.state = st, !.revision = n].rules = rd.rules
  BY DEF Round
<1> QED BY <1>1, <1>2

LEMMA ClosedType ==
  ASSUME NEW rd \in Round
  PROVE  /\ Closed(rd) \in Round /\ Closed(rd).state = "CLOSED"
         /\ Closed(rd).number = rd.number /\ Closed(rd).banker = rd.banker
         /\ Closed(rd).rules = rd.rules
<1>1. "CLOSED" \in RoundStates
  BY DEF RoundStates, Active
<1> QED BY <1>1, RoundUpdates DEF Closed

LEMMA DraftType ==
  ASSUME TypeOK, NEW number \in 1 .. LastNumber, NEW banker \in Positions \cup {0}
  PROVE  /\ Draft(number, banker) \in Round
         /\ Draft(number, banker).state = "DRAFT" /\ Draft(number, banker).number = number
<1>1. settings.rules \in ValidRuleSets
  BY DEF TypeOK
<1>2. "DRAFT" \in RoundStates
  BY DEF RoundStates, Active
<1> QED BY <1>1, <1>2 DEF Draft, Round

LEMMA SettledBetType ==
  ASSUME NEW b \in Bet, NEW rd \in Round, rd.banker \in Positions, NEW in \in Input
  PROVE  /\ SettledBet(b, Line(b, rd, in)) \in Bet
         /\ SettledBet(b, Line(b, rd, in)).state \in {"WIN", "LOSS", "VOID"}
         /\ SettledBet(b, Line(b, rd, in)).round = b.round
         /\ SettledBet(b, Line(b, rd, in)).fee = b.fee
<1> DEFINE line == Line(b, rd, in)
<1>1. b.position \in Positions
  BY DEF Bet
<1>2. line.outcome \in {"WIN", "LOSS", "VOID"} /\ line.delta \in Int
  BY <1>1, OutcomeTypes, GameDeltaInt DEF Line
<1>4. ASSUME NEW o \in {"WIN", "LOSS", "VOID"}, NEW d \in Int,
             o = line.outcome, d = line.delta
      PROVE  /\ SettledBet(b, line) \in Bet
             /\ SettledBet(b, line).state = o
             /\ SettledBet(b, line).round = b.round
             /\ SettledBet(b, line).fee = b.fee
  <2>1. SettledBet(b, line) = [b EXCEPT !.state = o, !.delta = d]
    BY <1>4 DEF SettledBet
  <2>2. /\ [b EXCEPT !.state = o, !.delta = d] \in Bet
        /\ [b EXCEPT !.state = o, !.delta = d].state = o
        /\ [b EXCEPT !.state = o, !.delta = d].round = b.round
        /\ [b EXCEPT !.state = o, !.delta = d].fee = b.fee
    BY DEF Bet
  <2> QED BY <2>1, <2>2
<1> HIDE DEF line
<1>5. /\ SettledBet(b, line) \in Bet
      /\ SettledBet(b, line).state \in {"WIN", "LOSS", "VOID"}
      /\ SettledBet(b, line).round = b.round
      /\ SettledBet(b, line).fee = b.fee
  BY <1>2, <1>4
<1> QED BY <1>5 DEF line

(* What a settlement does to the tables of rounds and bets. *)
LEMMA FinishEffect ==
  ASSUME TypeOK, NEW r \in DOMAIN rounds, NEW rd \in Round, rd.banker \in Positions,
         NEW in \in Input, Finish(r, rd, in)
  PROVE  /\ bets' \in Seq(Bet) /\ Len(bets') = Len(bets) /\ DOMAIN bets' = DOMAIN bets
         /\ \A i \in DOMAIN bets :
              /\ bets'[i].round = bets[i].round /\ bets'[i].fee = bets[i].fee
              /\ bets[i].round = r => bets'[i].state \in {"WIN", "LOSS", "VOID"}
              /\ bets[i].round # r => bets'[i] = bets[i]
         /\ rounds' \in Seq(Round) /\ DOMAIN rounds' = DOMAIN rounds \cup {Len(rounds) + 1}
         /\ Len(rounds') = Len(rounds) + 1
         /\ Len(rounds) + 1 \notin DOMAIN rounds
         /\ rounds'[r].state \in {"SETTLED", "VOID"}
         /\ rounds'[r].number = rd.number /\ rounds'[r].banker = rd.banker
         /\ rounds'[r].rules = rd.rules
         /\ \A q \in DOMAIN rounds \ {r} : rounds'[q] = rounds[q]
         /\ rounds'[Len(rounds) + 1].state = "DRAFT"
         /\ rounds'[Len(rounds) + 1].rules = settings.rules
         /\ rounds'[Len(rounds) + 1].number \notin Numbers
<1> DEFINE p  == MakePreview(r, rd, in)
           st == IF p.wholeVoid THEN "VOID" ELSE "SETTLED"
           nr == [rd EXCEPT !.state = st, !.revision = @ + 1]
           rs == [rounds EXCEPT ![r] = nr]
           nb == [i \in DOMAIN bets |->
                    IF i \in BetsOf(r) THEN SettledBet(bets[i], p.lines[i]) ELSE bets[i]]
<1>1. \A i \in BetsOf(r) : p.lines[i] = Line(bets[i], rd, in)
  BY DEF MakePreview
<1>2. bets \in Seq(Bet) /\ rounds \in Seq(Round)
  BY DEF TypeOK
<1>3. ASSUME NEW i \in BetsOf(r)
      PROVE  /\ i \in DOMAIN bets
             /\ SettledBet(bets[i], p.lines[i]) \in Bet
             /\ SettledBet(bets[i], p.lines[i]).state \in {"WIN", "LOSS", "VOID"}
             /\ SettledBet(bets[i], p.lines[i]).round = bets[i].round
             /\ SettledBet(bets[i], p.lines[i]).fee = bets[i].fee
  <2>1. i \in DOMAIN bets /\ bets[i] \in Bet
    BY <1>2, SeqFacts DEF BetsOf
  <2> QED BY <2>1, <1>1, SettledBetType
<1>4. nb \in [DOMAIN bets -> Bet]
  <2>1. \A i \in DOMAIN bets : bets[i] \in Bet
    BY <1>2, SeqFacts
  <2> HIDE DEF p
  <2> QED BY <2>1, <1>3
<1>5. bets' = nb
  BY DEF Finish
<1>6. nb \in Seq(Bet) /\ Len(nb) = Len(bets) /\ DOMAIN nb = DOMAIN bets
  <2> HIDE DEF nb
  <2> QED BY <1>2, <1>4, SeqUpdate
<1>7. \A i \in DOMAIN bets :
        /\ nb[i].round = bets[i].round /\ nb[i].fee = bets[i].fee
        /\ bets[i].round = r => nb[i].state \in {"WIN", "LOSS", "VOID"}
        /\ bets[i].round # r => nb[i] = bets[i]
  <2> HIDE DEF p
  <2> QED BY <1>3 DEF BetsOf
<1>8. /\ nr \in Round /\ nr.state = st /\ nr.number = rd.number
      /\ nr.banker = rd.banker /\ nr.rules = rd.rules
  <2>1. st \in RoundStates
    BY DEF RoundStates
  <2> HIDE DEF st
  <2> QED BY <2>1, RoundUpdates
<1>9. /\ rs \in Seq(Round) /\ Len(rs) = Len(rounds) /\ DOMAIN rs = DOMAIN rounds
      /\ rs[r] = nr /\ \A q \in DOMAIN rounds \ {r} : rs[q] = rounds[q]
  <2> HIDE DEF nr
  <2>1. rs \in [DOMAIN rounds -> Round]
    BY <1>2, <1>8, SeqFacts
  <2>2. DOMAIN rs = DOMAIN rounds /\ rs[r] = nr /\ \A q \in DOMAIN rounds \ {r} : rs[q] = rounds[q]
    OBVIOUS
  <2> HIDE DEF rs
  <2> QED BY <2>1, <2>2, <1>2, SeqUpdate
<1>10. PICK number \in NextNumber(rd.number) : rounds' = Append(rs, Draft(number, 0))
  BY DEF Finish
<1>11. number \in 1 .. LastNumber /\ number \notin Numbers
  <2>1. rd.number \in Nat /\ LastNumber \in Nat
    BY ConstantsAssumption DEF Round
  <2> QED BY <2>1 DEF NextNumber
<1>12. /\ Draft(number, 0) \in Round /\ Draft(number, 0).state = "DRAFT"
       /\ Draft(number, 0).number = number
  BY <1>11, DraftType
<1>13. Draft(number, 0).rules = settings.rules
  BY DEF Draft
<1>14. /\ rounds' \in Seq(Round) /\ DOMAIN rounds' = DOMAIN rounds \cup {Len(rounds) + 1}
       /\ Len(rounds') = Len(rounds) + 1
       /\ Len(rounds) + 1 \notin DOMAIN rounds
       /\ rounds'[r] = nr /\ \A q \in DOMAIN rounds \ {r} : rounds'[q] = rounds[q]
       /\ rounds'[Len(rounds) + 1] = Draft(number, 0)
  <2> HIDE DEF rs, nr
  <2> QED BY <1>9, <1>10, <1>12, SeqAppend
<1> HIDE DEF nb, nr, p, rs
<1> QED BY <1>5, <1>6, <1>7, <1>8, <1>11, <1>12, <1>13, <1>14

LEMMA FinishTables ==
  ASSUME TablesInv, NEW r \in DOMAIN rounds, NEW rd \in Round, rd.banker \in Positions,
         rd.number = rounds[r].number, rounds[r].state \in {"OPEN", "CLOSED"},
         NEW in \in Input, Finish(r, rd, in)
  PROVE  TablesInv'
<1> USE DEF TablesInv
<1> DEFINE n == Len(rounds) + 1
<1>1. /\ bets' \in Seq(Bet) /\ DOMAIN bets' = DOMAIN bets
      /\ \A i \in DOMAIN bets :
           /\ bets'[i].round = bets[i].round
           /\ bets[i].round = r => bets'[i].state \in {"WIN", "LOSS", "VOID"}
           /\ bets[i].round # r => bets'[i] = bets[i]
      /\ rounds' \in Seq(Round) /\ DOMAIN rounds' = DOMAIN rounds \cup {n}
      /\ Len(rounds') = n /\ n \notin DOMAIN rounds
      /\ rounds'[r].state \in {"SETTLED", "VOID"}
      /\ rounds'[r].number = rd.number /\ rounds'[r].banker = rd.banker
      /\ \A q \in DOMAIN rounds \ {r} : rounds'[q] = rounds[q]
      /\ rounds'[n].state = "DRAFT" /\ rounds'[n].number \notin Numbers
  BY FinishEffect
<1>2. r = Len(rounds) /\ \A q \in DOMAIN rounds \ {r} : rounds[q].state \notin Active
  BY DEF RoundChain, Active
<1>3. TypeOK'
  <2>1. BalanceAfter(r, rd, in) \in [Accounts -> Int]
    BY BalanceWhenInt DEF BalanceAfter
  <2>2. locked' \in [Accounts -> Nat]
    <3>1. \A a \in Accounts : LockedAfter(r)[a] \in Int
      <4>1. \A a \in Accounts : ReleasedBy(r, a) \in Int /\ locked[a] \in Int
        BY ReleasedByInt DEF TypeOK
      <4> QED BY <4>1 DEF LockedAfter
    <3>2. \A a \in Accounts : LockedAfter(r)[a] >= 0
      BY DEF Finish, RowOK
    <3>3. LockedAfter(r) \in [Accounts -> Nat]
      <4>1. LockedAfter(r) = [a \in Accounts |-> LockedAfter(r)[a]]
        BY DEF LockedAfter
      <4> QED BY <3>1, <3>2, <4>1
    <3> QED BY <3>3 DEF Finish
  <2>3. /\ balance' = BalanceAfter(r, rd, in)
        /\ UNCHANGED <<status, settings, shown>>
    BY DEF Finish
  <2>4. queued' \subseteq Notices
    <3>1. r \in Nat
      BY SeqFacts DEF TypeOK
    <3>2. \A i \in BetsOf(r) : bets[i].account \in Players
      <4>1. \A i \in BetsOf(r) : bets[i] \in Bet
        BY SeqFacts DEF TypeOK, BetsOf
      <4> QED BY <4>1 DEF Bet
    <3>3. queued \subseteq Notices
      BY DEF TypeOK
    <3>4. { <<"settle", r, bets[i].account>> : i \in BetsOf(r) } \subseteq Notices
      BY <3>1, <3>2 DEF Notices
    <3>5. \A k \in {"round-result", "round-winners", "next", "group-restore", "cancel"} :
            <<k, r>> \in Notices
      BY <3>1 DEF Notices
    <3> QED BY <3>3, <3>4, <3>5 DEF Finish
  <2> QED BY <1>1, <2>1, <2>2, <2>3, <2>4 DEF TypeOK
<1>4. BankerChosen'
  <2>1. rd.banker # 0
    BY ConstantsAssumption
  <2> QED BY <1>1, <2>1 DEF BankerChosen
<1>5. BetsMatchRound'
  <2> SUFFICES ASSUME NEW i \in DOMAIN bets
               PROVE  /\ bets'[i].round \in DOMAIN rounds'
                      /\ rounds'[bets'[i].round].state # "DRAFT"
                      /\ bets'[i].state = "RESERVED"
                           <=> rounds'[bets'[i].round].state \in {"OPEN", "CLOSED"}
    BY <1>1 DEF BetsMatchRound
  <2>1. CASE bets[i].round = r
    BY <1>1, <2>1
  <2>2. CASE bets[i].round # r
    <3>1. bets[i].round \in DOMAIN rounds \ {r}
      BY <2>2 DEF BetsMatchRound
    <3> QED BY <1>1, <2>2, <3>1 DEF BetsMatchRound
  <2> QED BY <2>1, <2>2
<1>6. RoundChain'
  <2>1. ASSUME NEW q \in DOMAIN rounds', rounds'[q].state \in Active PROVE q = Len(rounds')
    BY <1>1, <1>2, <2>1 DEF Active
  <2>2. \A q \in DOMAIN rounds : rounds'[q].number = rounds[q].number
    BY <1>1
  <2>3. ASSUME NEW q \in DOMAIN rounds', NEW s \in DOMAIN rounds',
               rounds'[q].number = rounds'[s].number
        PROVE  q = s
    <3>1. CASE q = n \/ s = n
      BY <1>1, <2>2, <2>3, <3>1 DEF Numbers
    <3>2. CASE q \in DOMAIN rounds /\ s \in DOMAIN rounds
      BY <2>2, <2>3, <3>2 DEF RoundChain
    <3> QED BY <1>1, <3>1, <3>2
  <2> QED BY <2>1, <2>3 DEF RoundChain
<1> QED BY <1>3, <1>4, <1>5, <1>6

(* Steps that touch neither rounds nor bets have only the types to keep. *)
LEMMA SameTables ==
  ASSUME TablesInv, UNCHANGED <<rounds, bets>>, TypeOK'
  PROVE  TablesInv'
BY DEF TablesInv, BankerChosen, BetsMatchRound, RoundChain

LEMMA AccountSteps ==
  ASSUME TablesInv,
         \/ \E p \in Players : Contact(p)
         \/ \E p \in Players, enabled \in BOOLEAN : SetPlayer(p, enabled)
         \/ \E a \in Accounts, delta \in Deltas : Adjust(a, delta)
  PROVE  TablesInv'
<1> USE DEF TablesInv
<1>1. ASSUME NEW p \in Players, Contact(p) PROVE TablesInv'
  <2>1. status' \in [Accounts -> Statuses]
    BY <1>1 DEF Contact, TypeOK, Statuses
  <2>2. UNCHANGED <<balance, locked, settings, rounds, bets, shown, queued>>
    BY <1>1 DEF Contact
  <2>3. TypeOK'
    BY <2>1, <2>2 DEF TypeOK
  <2> QED BY <2>2, <2>3, SameTables
<1>2. ASSUME NEW p \in Players, NEW enabled \in BOOLEAN, SetPlayer(p, enabled) PROVE TablesInv'
  <2>1. status' \in [Accounts -> Statuses]
    BY <1>2 DEF SetPlayer, TypeOK, Statuses
  <2>2. UNCHANGED <<balance, locked, settings, rounds, bets, shown, queued>>
    BY <1>2 DEF SetPlayer
  <2>3. TypeOK'
    BY <2>1, <2>2 DEF TypeOK
  <2> QED BY <2>2, <2>3, SameTables
<1>3. ASSUME NEW a \in Accounts, NEW delta \in Deltas, Adjust(a, delta) PROVE TablesInv'
  <2>1. delta \in Int /\ balance \in [Accounts -> Int]
    BY ConstantsAssumption DEF TypeOK
  <2>2. \A c \in Accounts : Moved(External, a, delta, c) \in Int
    BY <2>1 DEF Moved
  <2>3. balance' \in [Accounts -> Int]
    <3>1. CASE PlayerOnly
      BY <1>3, <2>1, <3>1 DEF Adjust
    <3>2. CASE ~ PlayerOnly
      BY <1>3, <2>1, <2>2, <3>2 DEF Adjust
    <3> QED BY <3>1, <3>2
  <2>4. UNCHANGED <<locked, status, settings, rounds, bets, shown, queued>>
    BY <1>3 DEF Adjust
  <2>5. TypeOK'
    BY <2>3, <2>4 DEF TypeOK
  <2> QED BY <2>4, <2>5, SameTables
<1> QED BY <1>1, <1>2, <1>3

LEMMA RuleSteps ==
  ASSUME TablesInv,
         \/ \E expected \in 1 .. MaxVersion, rl \in RuleSet : SaveRules(expected, rl)
         \/ Restart
  PROVE  TablesInv'
<1> USE DEF TablesInv
<1>1. ASSUME NEW expected \in 1 .. MaxVersion, NEW rl \in RuleSet, SaveRules(expected, rl)
      PROVE  TablesInv'
  <2>1. rl \in ValidRuleSets
    BY <1>1, ConstantsAssumption DEF SaveRules, ValidRuleSets
  <2>2. settings' \in [version : Nat, rules : ValidRuleSets]
    BY <1>1, <2>1 DEF SaveRules, TypeOK
  <2>3. UNCHANGED <<balance, locked, status, rounds, bets, shown, queued>>
    BY <1>1 DEF SaveRules
  <2>4. TypeOK'
    BY <2>2, <2>3 DEF TypeOK
  <2> QED BY <2>3, <2>4, SameTables
<1>2. ASSUME Restart PROVE TablesInv'
  <2>1. settings.rules \in ValidRuleSets /\ settings \in [version : Nat, rules : ValidRuleSets]
    BY DEF TypeOK
  <2>2. [settings.rules EXCEPT !.confirmed = TRUE] \in ValidRuleSets
    BY <2>1, ConfirmedRules
  <2>3. ASSUME NEW rl \in ValidRuleSets
        PROVE  [settings EXCEPT !.rules = rl] \in [version : Nat, rules : ValidRuleSets]
    BY <2>1
  <2>4. settings' = [settings EXCEPT !.rules = [settings.rules EXCEPT !.confirmed = TRUE]]
    BY <1>2, <2>1 DEF Restart
  <2>5. UNCHANGED <<balance, locked, status, rounds, bets, shown, queued>>
    BY <1>2 DEF Restart
  <2>6. TypeOK'
    BY <2>2, <2>3, <2>4, <2>5 DEF TypeOK
  <2> QED BY <2>5, <2>6, SameTables
<1> QED BY <1>1, <1>2

(* One row of rounds changes: what must be shown of the new row. *)
LEMMA RoundRow ==
  ASSUME TablesInv, NEW r \in DOMAIN rounds, NEW row \in Round,
         rounds' = [rounds EXCEPT ![r] = row],
         row.state \in Active, rounds[r].state \in Active,
         row.state # "DRAFT" => row.banker # 0,
         \A q \in DOMAIN rounds \ {r} : rounds[q].number # row.number
  PROVE  /\ rounds' \in Seq(Round) /\ DOMAIN rounds' = DOMAIN rounds
         /\ rounds'[r] = row /\ \A q \in DOMAIN rounds \ {r} : rounds'[q] = rounds[q]
         /\ BankerChosen' /\ RoundChain'
<1> USE DEF TablesInv
<1>1. rounds \in Seq(Round) /\ \A q \in DOMAIN rounds : rounds[q] \in Round
  BY SeqFacts DEF TypeOK
<1>2. /\ rounds' \in [DOMAIN rounds -> Round] /\ DOMAIN rounds' = DOMAIN rounds
      /\ rounds'[r] = row /\ \A q \in DOMAIN rounds \ {r} : rounds'[q] = rounds[q]
  BY <1>1
<1>3. rounds' \in Seq(Round) /\ Len(rounds') = Len(rounds)
  BY <1>1, <1>2, SeqUpdate
<1>4. BankerChosen'
  BY <1>2 DEF BankerChosen
<1>5. RoundChain'
  <2>1. \A q \in DOMAIN rounds : rounds'[q].state \in Active => q = Len(rounds)
    BY <1>2 DEF RoundChain
  <2>2. \A q, s \in DOMAIN rounds : rounds'[q].number = rounds'[s].number => q = s
    BY <1>2 DEF RoundChain
  <2> QED BY <1>2, <1>3, <2>1, <2>2 DEF RoundChain
<1> QED BY <1>2, <1>3, <1>4, <1>5

(* ... and when no bet changes either. *)
LEMMA RoundRowKeepsBets ==
  ASSUME TablesInv, NEW r \in DOMAIN rounds, NEW row \in Round,
         rounds' = [rounds EXCEPT ![r] = row],
         row.state \in Active, rounds[r].state \in Active,
         row.state # "DRAFT" => row.banker # 0,
         row.state = "DRAFT" => rounds[r].state = "DRAFT",
         \A q \in DOMAIN rounds \ {r} : rounds[q].number # row.number,
         UNCHANGED <<balance, locked, status, settings, bets, shown>>,
         queued' \subseteq Notices
  PROVE  TablesInv'
<1> USE DEF TablesInv
<1>1. /\ rounds' \in Seq(Round) /\ DOMAIN rounds' = DOMAIN rounds
      /\ rounds'[r] = row /\ \A q \in DOMAIN rounds \ {r} : rounds'[q] = rounds[q]
      /\ BankerChosen' /\ RoundChain'
  BY RoundRow
<1>2. TypeOK'
  BY <1>1 DEF TypeOK
<1>3. BetsMatchRound'
  <2> SUFFICES ASSUME NEW i \in DOMAIN bets
               PROVE  /\ bets[i].round \in DOMAIN rounds
                      /\ rounds'[bets[i].round].state # "DRAFT"
                      /\ bets[i].state = "RESERVED"
                           <=> rounds'[bets[i].round].state \in {"OPEN", "CLOSED"}
    BY <1>1 DEF BetsMatchRound
  <2>1. /\ bets[i].round \in DOMAIN rounds /\ rounds[bets[i].round].state # "DRAFT"
        /\ bets[i].state = "RESERVED" <=> rounds[bets[i].round].state \in {"OPEN", "CLOSED"}
    BY DEF BetsMatchRound
  <2>2. CASE bets[i].round = r
    BY <1>1, <2>1, <2>2 DEF Active
  <2>3. CASE bets[i].round # r
    BY <1>1, <2>1, <2>3
  <2> QED BY <2>2, <2>3
<1> QED BY <1>1, <1>2, <1>3

LEMMA NoticeTypes ==
  \A r \in Nat : \A k \in {"round-open", "round-media", "round-close", "group-mute",
                           "group-restore", "bet", "round-result", "round-winners",
                           "next", "cancel"} : <<k, r>> \in Notices
BY DEF Notices

LEMMA ConfigureStep ==
  ASSUME TablesInv, NEW r \in DOMAIN rounds, NEW number \in 1 .. LastNumber,
         NEW banker \in Positions, Configure(r, number, banker)
  PROVE  TablesInv'
<1> USE DEF TablesInv
<1> DEFINE row == [rounds[r] EXCEPT !.number = number, !.banker = banker, !.revision = @ + 1]
<1>1. rounds[r] \in Round /\ rounds \in Seq(Round)
  BY SeqFacts DEF TypeOK
<1>2. ASSUME NEW rd \in Round
      PROVE  /\ [rd EXCEPT !.number = number, !.banker = banker, !.revision = @ + 1] \in Round
             /\ [rd EXCEPT !.number = number, !.banker = banker,
                           !.revision = @ + 1].state = rd.state
             /\ [rd EXCEPT !.number = number, !.banker = banker,
                           !.revision = @ + 1].number = number
  <2>1. rd.revision + 1 \in Nat
    BY DEF Round
  <2>2. ASSUME NEW n \in Nat
        PROVE  /\ [rd EXCEPT !.number = number, !.banker = banker, !.revision = n] \in Round
               /\ [rd EXCEPT !.number = number, !.banker = banker,
                             !.revision = n].state = rd.state
               /\ [rd EXCEPT !.number = number, !.banker = banker,
                             !.revision = n].number = number
    BY DEF Round
  <2> QED BY <2>1, <2>2
<1>3. row \in Round /\ row.state = rounds[r].state /\ row.number = number
  BY <1>1, <1>2
<1>4. rounds[r].state = "DRAFT" /\ \A q \in DOMAIN rounds \ {r} : rounds[q].number # number
  BY DEF Configure
<1>5. rounds' = [rounds EXCEPT ![r] = row]
  BY <1>1 DEF Configure
<1>6. UNCHANGED <<balance, locked, status, settings, bets, shown, queued>>
  BY DEF Configure
<1> HIDE DEF row
<1>7. queued' \subseteq Notices
  BY <1>6 DEF TypeOK
<1> QED BY <1>3, <1>4, <1>5, <1>6, <1>7, RoundRowKeepsBets DEF Active

LEMMA OpenStep ==
  ASSUME TablesInv, NEW r \in DOMAIN rounds, OpenRound(r)
  PROVE  TablesInv'
<1> USE DEF TablesInv
<1> DEFINE row == [rounds[r] EXCEPT !.state = "OPEN", !.rules = settings.rules,
                                    !.revision = @ + 1]
<1>1. rounds[r] \in Round /\ rounds \in Seq(Round) /\ r \in Nat
  BY SeqFacts DEF TypeOK
<1>2. settings.rules \in ValidRuleSets
  BY DEF TypeOK
<1>3. ASSUME NEW rd \in Round, NEW rl \in ValidRuleSets
      PROVE  /\ [rd EXCEPT !.state = "OPEN", !.rules = rl, !.revision = @ + 1] \in Round
             /\ [rd EXCEPT !.state = "OPEN", !.rules = rl, !.revision = @ + 1].state = "OPEN"
             /\ [rd EXCEPT !.state = "OPEN", !.rules = rl, !.revision = @ + 1].banker = rd.banker
             /\ [rd EXCEPT !.state = "OPEN", !.rules = rl, !.revision = @ + 1].number = rd.number
  <2>1. rd.revision + 1 \in Nat /\ "OPEN" \in RoundStates
    BY DEF Round, RoundStates, Active
  <2>2. ASSUME NEW n \in Nat
        PROVE  /\ [rd EXCEPT !.state = "OPEN", !.rules = rl, !.revision = n] \in Round
               /\ [rd EXCEPT !.state = "OPEN", !.rules = rl, !.revision = n].state = "OPEN"
               /\ [rd EXCEPT !.state = "OPEN", !.rules = rl, !.revision = n].banker = rd.banker
               /\ [rd EXCEPT !.state = "OPEN", !.rules = rl, !.revision = n].number = rd.number
    BY <2>1 DEF Round
  <2> QED BY <2>1, <2>2
<1>4. row \in Round /\ row.state = "OPEN" /\ row.banker = rounds[r].banker
      /\ row.number = rounds[r].number
  BY <1>1, <1>2, <1>3
<1>5. rounds[r].state = "DRAFT" /\ rounds[r].banker # 0
  BY DEF OpenRound
<1>6. \A q \in DOMAIN rounds \ {r} : rounds[q].number # row.number
  BY <1>4 DEF RoundChain
<1>7. rounds' = [rounds EXCEPT ![r] = row]
  BY <1>1 DEF OpenRound
<1>8. UNCHANGED <<balance, locked, status, settings, bets, shown>>
  BY DEF OpenRound
<1>9. queued' \subseteq Notices
  <2>1. queued \subseteq Notices
    BY DEF TypeOK
  <2>2. <<"round-open", r>> \in Notices /\ <<"round-media", r>> \in Notices
    BY <1>1, NoticeTypes
  <2> QED BY <2>1, <2>2 DEF OpenRound
<1> HIDE DEF row
<1> QED BY <1>4, <1>5, <1>6, <1>7, <1>8, <1>9, RoundRowKeepsBets DEF Active

LEMMA CloseStep ==
  ASSUME TablesInv, NEW r \in DOMAIN rounds, CloseRound(r)
  PROVE  TablesInv'
<1> USE DEF TablesInv
<1>1. rounds[r] \in Round /\ rounds \in Seq(Round) /\ r \in Nat
  BY SeqFacts DEF TypeOK
<1>2. /\ Closed(rounds[r]) \in Round /\ Closed(rounds[r]).state = "CLOSED"
      /\ Closed(rounds[r]).number = rounds[r].number
      /\ Closed(rounds[r]).banker = rounds[r].banker
  BY <1>1, ClosedType
<1>3. rounds[r].state = "OPEN" /\ rounds[r].banker # 0
  BY DEF CloseRound, BankerChosen
<1>4. \A q \in DOMAIN rounds \ {r} : rounds[q].number # Closed(rounds[r]).number
  BY <1>2 DEF RoundChain
<1>5. rounds' = [rounds EXCEPT ![r] = Closed(rounds[r])]
  BY <1>1 DEF CloseRound
<1>6. UNCHANGED <<balance, locked, status, settings, bets, shown>>
  BY DEF CloseRound
<1>7. queued' \subseteq Notices
  <2>1. queued \subseteq Notices
    BY DEF TypeOK
  <2>2. <<"round-close", r>> \in Notices /\ <<"group-mute", r>> \in Notices
    BY <1>1, NoticeTypes
  <2> QED BY <2>1, <2>2 DEF CloseRound
<1> QED BY <1>2, <1>3, <1>4, <1>5, <1>6, <1>7, RoundRowKeepsBets DEF Active

LEMMA CreateDraftStep ==
  ASSUME TablesInv, NEW number \in 1 .. LastNumber, NEW banker \in Positions \cup {0},
         CreateDraft(number, banker)
  PROVE  TablesInv'
<1> USE DEF TablesInv
<1> DEFINE n == Len(rounds) + 1
<1>1. Draft(number, banker) \in Round /\ Draft(number, banker).state = "DRAFT"
      /\ Draft(number, banker).number = number
  BY DraftType
<1>2. rounds \in Seq(Round)
  BY DEF TypeOK
<1>3. rounds' = Append(rounds, Draft(number, banker))
  BY DEF CreateDraft
<1>4. /\ rounds' \in Seq(Round) /\ Len(rounds') = n
      /\ DOMAIN rounds' = DOMAIN rounds \cup {n} /\ n \notin DOMAIN rounds
      /\ \A q \in DOMAIN rounds : rounds'[q] = rounds[q]
      /\ rounds'[n] = Draft(number, banker)
  BY <1>1, <1>2, <1>3, SeqAppend
<1>5. UNCHANGED <<balance, locked, status, settings, bets, shown, queued>>
  BY DEF CreateDraft
<1>6. TypeOK'
  BY <1>4, <1>5 DEF TypeOK
<1>7. BankerChosen'
  BY <1>1, <1>4 DEF BankerChosen
<1>8. BetsMatchRound'
  BY <1>4, <1>5 DEF BetsMatchRound
<1>9. RoundChain'
  <2>1. \A q \in DOMAIN rounds : rounds[q].state \notin Active /\ rounds[q].number # number
    BY DEF CreateDraft, Numbers
  <2> QED BY <1>1, <1>4, <2>1 DEF RoundChain
<1> QED BY <1>6, <1>7, <1>8, <1>9

LEMMA PlaceBetStep ==
  ASSUME TablesInv, NEW r \in DOMAIN rounds, NEW p \in Players, NEW pos \in Positions,
         NEW stake \in Stakes, PlaceBet(r, p, pos, stake)
  PROVE  TablesInv'
<1> USE DEF TablesInv
<1> DEFINE rl     == rounds[r].rules
           b      == [round |-> r, account |-> p, position |-> pos, stake |-> stake,
                      fee |-> IF PlayerOnly THEN 0 ELSE fee(stake),
                      state |-> "RESERVED", delta |-> 0]
           atOnce == IF ~ PlayerOnly /\ rl.feeTiming # "settlement" THEN b.fee ELSE 0
           row    == [rounds[r] EXCEPT !.revision = @ + 1]
           n      == Len(bets) + 1
<1>1. rounds[r] \in Round /\ rounds \in Seq(Round) /\ r \in Nat /\ bets \in Seq(Bet)
  BY SeqFacts DEF TypeOK
<1>2. stake \in Nat \ {0} /\ fee(stake) \in Nat
  BY ConstantsAssumption, FeeNat
<1>3. b \in Bet /\ b.round = r /\ b.state = "RESERVED" /\ b.fee \in Nat
  BY <1>1, <1>2 DEF Bet
<1>4. rl \in ValidRuleSets
  BY <1>1 DEF Round
<1>5. rounds[r].state = "OPEN" /\ rounds[r].banker # 0
  BY DEF PlaceBet, BankerChosen
<1>6. row \in Round /\ row.state = "OPEN" /\ row.banker = rounds[r].banker
      /\ row.number = rounds[r].number
  <2>1. ASSUME NEW rd \in Round
        PROVE  /\ [rd EXCEPT !.revision = @ + 1] \in Round
               /\ [rd EXCEPT !.revision = @ + 1].state = rd.state
               /\ [rd EXCEPT !.revision = @ + 1].banker = rd.banker
               /\ [rd EXCEPT !.revision = @ + 1].number = rd.number
    <3>1. rd.revision + 1 \in Nat
      BY DEF Round
    <3>2. ASSUME NEW k \in Nat
          PROVE  /\ [rd EXCEPT !.revision = k] \in Round
                 /\ [rd EXCEPT !.revision = k].state = rd.state
                 /\ [rd EXCEPT !.revision = k].banker = rd.banker
                 /\ [rd EXCEPT !.revision = k].number = rd.number
      BY DEF Round
    <3> QED BY <3>1, <3>2
  <2> QED BY <1>1, <1>5, <2>1
<1>7. rounds' = [rounds EXCEPT ![r] = row]
  BY <1>1 DEF PlaceBet
<1>8. \A q \in DOMAIN rounds \ {r} : rounds[q].number # row.number
  BY <1>6 DEF RoundChain
<1>9. /\ rounds' \in Seq(Round) /\ DOMAIN rounds' = DOMAIN rounds
      /\ rounds'[r] = row /\ \A q \in DOMAIN rounds \ {r} : rounds'[q] = rounds[q]
      /\ BankerChosen' /\ RoundChain'
  <2> HIDE DEF row
  <2> QED BY <1>5, <1>6, <1>7, <1>8, RoundRow DEF Active
<1>10. bets' = Append(bets, b)
  BY DEF PlaceBet
<1>11. /\ bets' \in Seq(Bet) /\ DOMAIN bets' = DOMAIN bets \cup {n}
       /\ \A i \in DOMAIN bets : bets'[i] = bets[i]
       /\ bets'[n] = b
  <2> HIDE DEF b
  <2> QED BY <1>1, <1>3, <1>10, SeqAppend
<1>12. balance' \in [Accounts -> Int]
  <2>1. balance' = [a \in Accounts |-> balance[a] + Moved(p, rl.feeRecipient, atOnce, a)]
    BY DEF PlaceBet
  <2>2. atOnce \in Int
    BY <1>3
  <2> HIDE DEF atOnce
  <2>3. \A a \in Accounts : balance[a] \in Int /\ Moved(p, rl.feeRecipient, atOnce, a) \in Int
    BY <2>2 DEF TypeOK, Moved
  <2> QED BY <2>1, <2>3
<1>13. locked' \in [Accounts -> Nat]
  <2>1. locked' = [a \in Accounts |-> locked[a] + Hold(b, rl, a)]
    BY DEF PlaceBet
  <2> HIDE DEF b, rl
  <2>2. \A a \in Accounts : locked[a] \in Nat /\ Hold(b, rl, a) \in Nat
    BY <1>3, <1>4, HoldNat DEF TypeOK
  <2> QED BY <2>1, <2>2
<1>14. queued' \subseteq Notices
  <2>1. queued \subseteq Notices /\ n \in Nat
    BY <1>1, SeqFacts DEF TypeOK
  <2>2. <<"bet", n>> \in Notices
    BY <2>1, NoticeTypes
  <2> QED BY <2>1, <2>2 DEF PlaceBet
<1>15. TypeOK'
  <2>1. UNCHANGED <<status, settings, shown>>
    BY DEF PlaceBet
  <2> QED BY <1>9, <1>11, <1>12, <1>13, <1>14, <2>1 DEF TypeOK
<1>16. BetsMatchRound'
  <2> SUFFICES ASSUME NEW i \in DOMAIN bets'
               PROVE  /\ bets'[i].round \in DOMAIN rounds
                      /\ rounds'[bets'[i].round].state # "DRAFT"
                      /\ bets'[i].state = "RESERVED"
                           <=> rounds'[bets'[i].round].state \in {"OPEN", "CLOSED"}
    BY <1>9 DEF BetsMatchRound
  <2>1. CASE i = n
    <3>1. bets'[i].round = r /\ bets'[i].state = "RESERVED"
      <4>1. bets'[n] = b
        BY <1>11
      <4> HIDE DEF b, n
      <4> QED BY <1>3, <2>1, <4>1
    <3>2. rounds'[r].state = "OPEN"
      <4> HIDE DEF row
      <4> QED BY <1>6, <1>9
    <3> QED BY <3>1, <3>2
  <2>2. CASE i \in DOMAIN bets
    <3>1. /\ bets[i].round \in DOMAIN rounds /\ rounds[bets[i].round].state # "DRAFT"
          /\ bets[i].state = "RESERVED" <=> rounds[bets[i].round].state \in {"OPEN", "CLOSED"}
      BY <2>2 DEF BetsMatchRound
    <3>2. rounds'[bets[i].round].state = rounds[bets[i].round].state
      BY <1>5, <1>6, <1>9, <3>1
    <3>3. bets'[i] = bets[i]
      BY <1>11, <2>2
    <3> QED BY <3>1, <3>2, <3>3
  <2> QED BY <1>11, <2>1, <2>2
<1> QED BY <1>9, <1>15, <1>16

LEMMA PreviewStep ==
  ASSUME TablesInv, NEW r \in DOMAIN rounds, NEW in \in Inputs, Preview(r, in)
  PROVE  TablesInv'
<1> USE DEF TablesInv
<1>1. shown'.round = r
  BY DEF Preview, MakePreview
<1>2. r \in Nat
  BY SeqFacts DEF TypeOK
<1>3. UNCHANGED <<balance, locked, status, settings, rounds, bets, queued>>
  BY DEF Preview
<1>4. TypeOK'
  BY <1>1, <1>2, <1>3 DEF TypeOK
<1> QED BY <1>3, <1>4, SameTables

(* A round that finishes is the one that was opened, with its banker. *)
LEMMA FinishedRow ==
  ASSUME TypeOK, BankerChosen, NEW r \in DOMAIN rounds, NEW in \in Inputs,
         Settle(r, in) \/ CancelRound(r, in)
  PROVE  /\ rounds[r].state \in {"OPEN", "CLOSED"} /\ in \in Input
         /\ \E rd \in Round : /\ rd.banker \in Positions /\ rd.number = rounds[r].number
                              /\ rd.rules = rounds[r].rules
                              /\ Finish(r, rd, in)
<1>1. rounds[r] \in Round
  BY SeqFacts DEF TypeOK
<1>2. in \in Input
  BY ConstantsAssumption
<1>3. rounds[r].state \in {"OPEN", "CLOSED"}
  BY DEF Settle, PreviewOK, CancelRound
<1>4. rounds[r].banker \in Positions
  BY <1>1, <1>3 DEF BankerChosen, Round
<1>5. CASE Finish(r, rounds[r], in)
  BY <1>1, <1>2, <1>3, <1>4, <1>5
<1>6. CASE Finish(r, Closed(rounds[r]), in)
  BY <1>1, <1>2, <1>3, <1>4, <1>6, ClosedType
<1> QED BY <1>5, <1>6 DEF Settle, CancelRound

LEMMA NextTables == TablesInv /\ [Next]_vars => TablesInv'
<1> SUFFICES ASSUME TablesInv, [Next]_vars PROVE TablesInv'
  OBVIOUS
<1>1. CASE \/ \E p \in Players : Contact(p)
           \/ \E p \in Players, enabled \in BOOLEAN : SetPlayer(p, enabled)
           \/ \E a \in Accounts, delta \in Deltas : Adjust(a, delta)
  BY <1>1, AccountSteps
<1>2. CASE \/ \E expected \in 1 .. MaxVersion, rl \in RuleSet : SaveRules(expected, rl)
           \/ Restart
  BY <1>2, RuleSteps
<1>3. CASE \E number \in 1 .. LastNumber, banker \in Positions \cup {0} :
             CreateDraft(number, banker)
  BY <1>3, CreateDraftStep
<1>4. CASE \E r \in DOMAIN rounds, number \in 1 .. LastNumber, banker \in Positions :
             Configure(r, number, banker)
  BY <1>4, ConfigureStep
<1>5. CASE \E r \in DOMAIN rounds : OpenRound(r)
  BY <1>5, OpenStep
<1>6. CASE \E r \in DOMAIN rounds : CloseRound(r)
  BY <1>6, CloseStep
<1>7. CASE \E r \in DOMAIN rounds, p \in Players, pos \in Positions, stake \in Stakes :
             PlaceBet(r, p, pos, stake)
  BY <1>7, PlaceBetStep
<1>8. CASE \E r \in DOMAIN rounds, in \in Inputs : Preview(r, in)
  BY <1>8, PreviewStep
<1>9. CASE \E r \in DOMAIN rounds, in \in Inputs : Settle(r, in) \/ CancelRound(r, in)
  <2>1. PICK r \in DOMAIN rounds, in \in Inputs : Settle(r, in) \/ CancelRound(r, in)
    BY <1>9
  <2>2. TypeOK /\ BankerChosen
    BY DEF TablesInv
  <2>3. PICK rd \in Round : rd.banker \in Positions /\ rd.number = rounds[r].number
                            /\ Finish(r, rd, in)
    BY <2>1, <2>2, FinishedRow
  <2>4. rounds[r].state \in {"OPEN", "CLOSED"} /\ in \in Input
    BY <2>1, <2>2, FinishedRow
  <2> QED BY <2>3, <2>4, FinishTables
<1>10. CASE UNCHANGED vars
  <2>1. UNCHANGED <<rounds, bets>> /\ TypeOK'
    BY <1>10 DEF vars, TablesInv, TypeOK
  <2> QED BY <2>1, SameTables
<1> QED BY <1>1, <1>2, <1>3, <1>4, <1>5, <1>6, <1>7, <1>8, <1>9, <1>10 DEF Next

-----------------------------------------------------------------------------
(* Theorems *)

(* Every reachable state satisfies the inductive invariant. *)
THEOREM TablesInvariant == Spec => []TablesInv
BY InitTables, NextTables, PTL DEF Spec

(* Whatever commands are sent in whatever order, every table keeps its type; *)
(* in particular no lock goes below zero, no rule set in force is invalid    *)
(* and no draft numbered by a settlement has an invalid number.              *)
THEOREM TypeCorrect == Spec => []TypeOK
<1>1. TablesInv => TypeOK
  BY DEF TablesInv
<1> QED BY <1>1, TablesInvariant, PTL

(* A settlement leaves none of its round's bets open and touches no bet of *)
(* another round: bets await a result exactly as long as their round does.  *)
THEOREM BetsSettledOnce == Spec => []BetsMatchRound
<1>1. TablesInv => BetsMatchRound
  BY DEF TablesInv
<1> QED BY <1>1, TablesInvariant, PTL

(* At most one round is active and it is the newest; no two rounds ever     *)
(* share a number, whoever chose it, an operator or a settlement.           *)
THEOREM OneActiveRound == Spec => []RoundChain
<1>1. TablesInv => RoundChain
  BY DEF TablesInv
<1> QED BY <1>1, TablesInvariant, PTL

(* A round gets its rules from the settings, and only before it is open. *)
LEMMA NextRules ==
  ASSUME TablesInv, [Next]_vars
  PROVE  /\ DOMAIN rounds \subseteq DOMAIN rounds'
         /\ \A r \in DOMAIN rounds' :
              \/ r \in DOMAIN rounds /\ rounds'[r].rules = rounds[r].rules
              \/ /\ rounds'[r].rules = settings.rules
                 /\ r \in DOMAIN rounds => rounds[r].state = "DRAFT"
<1> USE DEF TablesInv
<1> DEFINE Goal ==
      /\ DOMAIN rounds \subseteq DOMAIN rounds'
      /\ \A r \in DOMAIN rounds' :
           \/ r \in DOMAIN rounds /\ rounds'[r].rules = rounds[r].rules
           \/ /\ rounds'[r].rules = settings.rules
              /\ r \in DOMAIN rounds => rounds[r].state = "DRAFT"
<1>1. rounds \in Seq(Round) /\ \A r \in DOMAIN rounds : rounds[r] \in Round
  BY SeqFacts DEF TypeOK
<1>2. CASE UNCHANGED rounds
  BY <1>2
<1>3. ASSUME NEW number \in 1 .. LastNumber, NEW banker \in Positions \cup {0},
             CreateDraft(number, banker)
      PROVE  Goal
  <2>1. Draft(number, banker) \in Round /\ Draft(number, banker).rules = settings.rules
    <3>1. Draft(number, banker).rules = settings.rules
      BY DEF Draft
    <3> QED BY <3>1, DraftType
  <2>2. rounds' = Append(rounds, Draft(number, banker))
    BY <1>3 DEF CreateDraft
  <2> QED BY <1>1, <2>1, <2>2, SeqAppend
<1>4. ASSUME NEW q \in DOMAIN rounds, NEW row \in Round, rounds' = [rounds EXCEPT ![q] = row],
             \/ row.rules = rounds[q].rules
             \/ row.rules = settings.rules /\ rounds[q].state = "DRAFT"
      PROVE  Goal
  BY <1>4
<1>5. ASSUME NEW q \in DOMAIN rounds, NEW number \in 1 .. LastNumber, NEW banker \in Positions,
             Configure(q, number, banker)
      PROVE  Goal
  <2>1. [rounds[q] EXCEPT !.number = number, !.banker = banker, !.revision = @ + 1].rules
          = rounds[q].rules
    BY <1>1 DEF Round
  <2> QED BY <1>5, <2>1 DEF Configure
<1>6. ASSUME NEW q \in DOMAIN rounds, OpenRound(q) PROVE Goal
  <2>1. [rounds[q] EXCEPT !.state = "OPEN", !.rules = settings.rules, !.revision = @ + 1].rules
          = settings.rules
    BY <1>1 DEF Round
  <2>2. rounds[q].state = "DRAFT"
    BY <1>6 DEF OpenRound
  <2> QED BY <1>6, <2>1, <2>2 DEF OpenRound
<1>7. ASSUME NEW q \in DOMAIN rounds, CloseRound(q) PROVE Goal
  <2>1. rounds' = [rounds EXCEPT ![q] = Closed(rounds[q])]
    BY <1>1, <1>7 DEF CloseRound
  <2> QED BY <1>1, <1>4, <2>1, ClosedType
<1>8. ASSUME NEW q \in DOMAIN rounds, NEW p \in Players, NEW pos \in Positions,
             NEW stake \in Stakes, PlaceBet(q, p, pos, stake)
      PROVE  Goal
  <2>1. [rounds[q] EXCEPT !.revision = @ + 1].rules = rounds[q].rules
    BY <1>1 DEF Round
  <2> QED BY <1>8, <2>1 DEF PlaceBet
<1>9. ASSUME NEW q \in DOMAIN rounds, NEW in \in Inputs, Settle(q, in) \/ CancelRound(q, in)
      PROVE  Goal
  <2>1. PICK rd \in Round : /\ rd.banker \in Positions /\ rd.rules = rounds[q].rules
                            /\ Finish(q, rd, in)
    BY <1>9, FinishedRow
  <2>2. in \in Input
    BY ConstantsAssumption
  <2>3. /\ rounds'[q].rules = rd.rules
        /\ \A o \in DOMAIN rounds \ {q} : rounds'[o] = rounds[o]
        /\ DOMAIN rounds' = DOMAIN rounds \cup {Len(rounds) + 1}
        /\ rounds'[Len(rounds) + 1].rules = settings.rules
        /\ Len(rounds) + 1 \notin DOMAIN rounds
    BY <2>1, <2>2, FinishEffect
  <2> QED BY <2>1, <2>3
<1>10. \/ UNCHANGED rounds
       \/ \E number \in 1 .. LastNumber, banker \in Positions \cup {0} : CreateDraft(number, banker)
       \/ \E q \in DOMAIN rounds, number \in 1 .. LastNumber, banker \in Positions :
            Configure(q, number, banker)
       \/ \E q \in DOMAIN rounds : OpenRound(q) \/ CloseRound(q)
       \/ \E q \in DOMAIN rounds, p \in Players, pos \in Positions, stake \in Stakes :
            PlaceBet(q, p, pos, stake)
       \/ \E q \in DOMAIN rounds, in \in Inputs : Settle(q, in) \/ CancelRound(q, in)
  BY DEF Next, vars, Contact, SetPlayer, Adjust, SaveRules, Restart, Preview
<1> QED BY <1>2, <1>3, <1>5, <1>6, <1>7, <1>8, <1>9, <1>10

(* The bets of a round are settled under the rules it was opened with, *)
(* whatever rules are saved in between, by whomever.                    *)
THEOREM RulesNeverChange == Spec => RulesFrozen
<1>1. TablesInv /\ [Next]_vars =>
        [\A r \in DOMAIN rounds :
           rounds[r].state # "DRAFT" => rounds'[r].rules = rounds[r].rules]_vars
  BY NextRules
<1> QED BY <1>1, TablesInvariant, PTL DEF Spec, RulesFrozen

-----------------------------------------------------------------------------
(* Locks: what is frozen is what the open bets reserved *)

(* In house mode the rules name one of the two fee timings.  With the third, *)
(* "", PlaceBet locks a refundable fee that Settle does not release.          *)
TimedRules == PlayerOnly \/ \A rl \in RuleSet \cup {InitialRules} : rl.feeTiming # ""

(* ... so that every round has one, and the player mode has no fees at all. *)
FeesInv ==
  /\ ~ PlayerOnly => /\ settings.rules.feeTiming # ""
                     /\ \A r \in DOMAIN rounds : rounds[r].rules.feeTiming # ""
  /\ PlayerOnly => \A i \in DOMAIN bets : bets[i].fee = 0

LocksInv == TablesInv /\ FeesInv /\ LockedIsHeld

(* Settlement computes again exactly what PlaceBet locked. *)
LEMMA ReleaseIsHold ==
  ASSUME TablesInv, FeesInv, NEW i \in DOMAIN bets, NEW a
  PROVE  /\ Release(bets[i], RulesOf(bets[i]), a) = Hold(bets[i], RulesOf(bets[i]), a)
         /\ Hold(bets[i], RulesOf(bets[i]), a) \in Nat
<1> DEFINE b == bets[i]
           rl == RulesOf(bets[i])
<1>1. b \in Bet /\ b.round \in DOMAIN rounds
  BY SeqFacts DEF TablesInv, TypeOK, BetsMatchRound
<1>2. rl \in ValidRuleSets
  <2>1. rounds[b.round] \in Round
    BY <1>1, SeqFacts DEF TablesInv, TypeOK
  <2> QED BY <2>1 DEF RulesOf, Round
<1>3. Hold(b, rl, a) \in Nat /\ Release(b, rl, a) \in Nat
  BY <1>1, <1>2, HoldNat
<1>4. rl.feeTiming \in FeeTimings
  BY <1>2 DEF ValidRuleSets, Rules
<1>5. Reserve(b, rl) = ReserveReleased(b, rl)
  BY DEF Reserve, ReserveReleased
<1>6. ASSUME PlayerOnly PROVE Release(b, rl, a) = Hold(b, rl, a)
  <2>1. b.fee = 0
    BY <1>6 DEF FeesInv
  <2> HIDE DEF b, rl
  <2> QED BY <1>5, <1>6, <2>1 DEF Hold, Release
<1>7. ASSUME ~ PlayerOnly PROVE Release(b, rl, a) = Hold(b, rl, a)
  <2>1. rl.feeTiming # ""
    BY <1>1, <1>7 DEF FeesInv, RulesOf
  <2>2. rl.feeTiming # "settlement" <=> rl.feeTiming = "acceptance"
    BY <1>4, <2>1 DEF FeeTimings
  <2> HIDE DEF b, rl
  <2> QED BY <1>5, <1>7, <2>2 DEF Hold, Release
<1> QED BY <1>3, <1>6, <1>7

(* The weights LockedIsHeld adds up. *)
HeldWeights(a) == [i \in Nat |-> HeldBy(i, a)]

LEMMA HeldNat ==
  ASSUME TablesInv, NEW i, NEW a
  PROVE  HeldBy(i, a) \in Nat
<1>1. CASE i \in DOMAIN bets
  <2>1. bets[i] \in Bet /\ bets[i].round \in DOMAIN rounds
    BY <1>1, SeqFacts DEF TablesInv, TypeOK, BetsMatchRound
  <2>2. RulesOf(bets[i]) \in ValidRuleSets
    <3>1. rounds[bets[i].round] \in Round
      BY <2>1, SeqFacts DEF TablesInv, TypeOK
    <3> QED BY <3>1 DEF RulesOf, Round
  <2>3. Hold(bets[i], RulesOf(bets[i]), a) \in Nat
    BY <2>1, <2>2, HoldNat
  <2> QED BY <2>3 DEF HeldBy
<1>2. CASE i \notin DOMAIN bets
  BY <1>2 DEF HeldBy
<1> QED BY <1>1, <1>2

LEMMA HeldWeightsInt ==
  ASSUME TablesInv, NEW a
  PROVE  HeldWeights(a) \in [Nat -> Int]
<1>1. \A i \in Nat : HeldBy(i, a) \in Int
  BY HeldNat
<1> QED BY <1>1 DEF HeldWeights

(* A bet that stays as it is goes on holding what it held. *)
LEMMA HeldKept ==
  ASSUME TablesInv, NEW i \in DOMAIN bets, i \in DOMAIN bets', bets'[i] = bets[i],
         \A r \in DOMAIN rounds :
           rounds[r].state # "DRAFT" => rounds'[r].rules = rounds[r].rules,
         NEW a
  PROVE  HeldBy(i, a)' = HeldBy(i, a)
<1>1. bets[i].round \in DOMAIN rounds /\ rounds[bets[i].round].state # "DRAFT"
  BY DEF TablesInv, BetsMatchRound
<1>2. rounds'[bets[i].round].rules = rounds[bets[i].round].rules
  BY <1>1
<1>3. RulesOf(bets[i])' = RulesOf(bets[i])
  BY <1>2 DEF RulesOf
<1>4. Hold(bets[i], RulesOf(bets[i]), a)' = Hold(bets[i], RulesOf(bets[i]), a)
  BY <1>3 DEF Hold, Reserve, Exposure
<1> QED BY <1>4 DEF HeldBy

LEMMA InitLocks == ASSUME TimedRules PROVE Init => LocksInv
<1> SUFFICES ASSUME Init PROVE LocksInv
  OBVIOUS
<1>1. TablesInv
  BY InitTables
<1>2. bets = << >> /\ DOMAIN bets = {} /\ Len(bets) = 0
  BY DEF Init
<1>a. \A r \in DOMAIN rounds : rounds[r].rules = settings.rules
  <2>1. rounds = [i \in DOMAIN OldNumbers |-> Voided(OldNumbers[i])]
    BY DEF Init
  <2>2. \A n : Voided(n).rules = settings.rules
    BY DEF Voided
  <2> QED BY <2>1, <2>2
<1>3. FeesInv
  <2>1. InitialRules \in Rules
    BY ConstantsAssumption, RateTypes
  <2>2. \A c : [InitialRules EXCEPT !.confirmed = c].feeTiming = InitialRules.feeTiming
    BY <2>1 DEF Rules
  <2>3. settings.rules.feeTiming = InitialRules.feeTiming
    <3>1. settings.rules =
            [InitialRules EXCEPT !.confirmed = PlayerOnly \/ InitialRules.confirmed]
      BY DEF Init
    <3> QED BY <2>2, <3>1
  <2> QED BY <1>2, <1>a, <2>3 DEF FeesInv, TimedRules
<1>4. LockedIsHeld
  <2> SUFFICES ASSUME NEW a \in Accounts
               PROVE  locked[a] = SumTo(HeldWeights(a), Len(bets))
    BY DEF LockedIsHeld, HeldWeights
  <2>1. SumTo(HeldWeights(a), 0) = 0
    BY <1>1, HeldWeightsInt, SumStep
  <2>2. locked[a] = 0
    BY DEF Init
  <2> QED BY <1>2, <2>1, <2>2
<1> QED BY <1>1, <1>3, <1>4 DEF LocksInv

(* The steps that change a bet or a lock are acceptances and settlements. *)
LEMMA LockSteps ==
  ASSUME [Next]_vars
  PROVE  \/ UNCHANGED <<locked, bets>>
         \/ \E r \in DOMAIN rounds, p \in Players, pos \in Positions, stake \in Stakes :
              PlaceBet(r, p, pos, stake)
         \/ \E r \in DOMAIN rounds, in \in Inputs : Settle(r, in) \/ CancelRound(r, in)
BY DEF Next, vars, Contact, SetPlayer, Adjust, SaveRules, Restart, CreateDraft,
       Configure, OpenRound, CloseRound, Preview

(* ... and those that change the rules in force. *)
LEMMA SettingsSteps ==
  ASSUME [Next]_vars
  PROVE  \/ UNCHANGED settings
         \/ \E expected \in 1 .. MaxVersion, rl \in RuleSet : SaveRules(expected, rl)
         \/ Restart
<1>1. ASSUME NEW r \in DOMAIN rounds, NEW in \in Inputs, Settle(r, in) \/ CancelRound(r, in)
      PROVE  UNCHANGED settings
  <2>1. ASSUME NEW rd, Finish(r, rd, in) PROVE UNCHANGED settings
    BY <2>1 DEF Finish
  <2> QED BY <1>1, <2>1 DEF Settle, CancelRound
<1>2. /\ \A p : Contact(p) => UNCHANGED settings
      /\ \A p, enabled : SetPlayer(p, enabled) => UNCHANGED settings
      /\ \A a, delta : Adjust(a, delta) => UNCHANGED settings
  BY DEF Contact, SetPlayer, Adjust
<1>3. /\ \A number, banker : CreateDraft(number, banker) => UNCHANGED settings
      /\ \A r, number, banker : Configure(r, number, banker) => UNCHANGED settings
      /\ \A r : OpenRound(r) \/ CloseRound(r) => UNCHANGED settings
  BY DEF CreateDraft, Configure, OpenRound, CloseRound
<1>4. \A r, p, pos, stake : PlaceBet(r, p, pos, stake) => UNCHANGED settings
  BY DEF PlaceBet
<1>5. \A r, in : Preview(r, in) => UNCHANGED settings
  BY DEF Preview
<1>6. UNCHANGED vars => UNCHANGED settings
  BY DEF vars
<1> QED BY <1>1, <1>2, <1>3, <1>4, <1>5, <1>6 DEF Next

(* Rules saved are timed, and so are the rounds that take them over. *)
LEMMA NextFees ==
  ASSUME TimedRules, TablesInv, FeesInv, [Next]_vars
  PROVE  FeesInv'
<1>1. ASSUME ~ PlayerOnly
      PROVE  /\ settings'.rules.feeTiming # ""
             /\ \A r \in DOMAIN rounds' : rounds'[r].rules.feeTiming # ""
  <2>1. settings.rules.feeTiming # ""
        /\ \A r \in DOMAIN rounds : rounds[r].rules.feeTiming # ""
    BY <1>1 DEF FeesInv
  <2>2. \A r \in DOMAIN rounds' : rounds'[r].rules.feeTiming # ""
    BY <2>1, NextRules
  <2>3. ~ Restart
    BY <1>1 DEF Restart
  <2>4. ASSUME NEW expected \in 1 .. MaxVersion, NEW rl \in RuleSet, SaveRules(expected, rl)
        PROVE  settings'.rules.feeTiming # ""
    <3>1. rl.feeTiming # ""
      BY <1>1 DEF TimedRules
    <3>2. settings'.rules = rl
      BY <2>4 DEF SaveRules
    <3> QED BY <3>1, <3>2
  <2>5. CASE UNCHANGED settings
    BY <2>1, <2>2, <2>5
  <2> QED BY <2>2, <2>3, <2>4, <2>5, SettingsSteps
<1>2. ASSUME PlayerOnly PROVE \A i \in DOMAIN bets' : bets'[i].fee = 0
  <2>1. \A i \in DOMAIN bets : bets[i].fee = 0
    BY <1>2 DEF FeesInv
  <2>2. CASE UNCHANGED <<locked, bets>>
    BY <2>1, <2>2
  <2>3. ASSUME NEW r \in DOMAIN rounds, NEW p \in Players, NEW pos \in Positions,
               NEW stake \in Stakes, PlaceBet(r, p, pos, stake)
        PROVE  \A i \in DOMAIN bets' : bets'[i].fee = 0
    <3> DEFINE b == [round |-> r, account |-> p, position |-> pos, stake |-> stake,
                     fee |-> IF PlayerOnly THEN 0 ELSE fee(stake),
                     state |-> "RESERVED", delta |-> 0]
    <3>1. bets' = Append(bets, b)
      BY <2>3 DEF PlaceBet
    <3>2. b.fee = 0 /\ b \in Bet
      <4>1. r \in Nat /\ stake \in Nat \ {0}
        BY SeqFacts, ConstantsAssumption DEF TablesInv, TypeOK
      <4> QED BY <1>2, <4>1 DEF Bet
    <3>3. bets \in Seq(Bet)
      BY DEF TablesInv, TypeOK
    <3> HIDE DEF b
    <3> QED BY <2>1, <3>1, <3>2, <3>3, SeqAppend
  <2>4. ASSUME NEW r \in DOMAIN rounds, NEW in \in Inputs, Settle(r, in) \/ CancelRound(r, in)
        PROVE  \A i \in DOMAIN bets' : bets'[i].fee = 0
    <3>1. TypeOK /\ BankerChosen /\ in \in Input
      BY ConstantsAssumption DEF TablesInv
    <3>2. PICK rd \in Round : rd.banker \in Positions /\ Finish(r, rd, in)
      BY <2>4, <3>1, FinishedRow
    <3> QED BY <2>1, <3>1, <3>2, FinishEffect
  <2> QED BY <2>2, <2>3, <2>4, LockSteps
<1> QED BY <1>1, <1>2 DEF FeesInv

WeightsTyped == \A a \in Accounts : HeldWeights(a) \in [Nat -> Int]

LEMMA HeldWeightsNext == TablesInv' => WeightsTyped'
<1>1. TablesInv => WeightsTyped
  BY HeldWeightsInt DEF WeightsTyped
<1> QED BY <1>1, PTL

(* A bet just accepted holds what PlaceBet locked for it. *)
LEMMA HeldNew ==
  ASSUME NEW i, NEW b, NEW rl, NEW a, i \in DOMAIN bets', bets'[i] = b,
         b.state = "RESERVED", rounds'[b.round].rules = rl
  PROVE  HeldBy(i, a)' = Hold(b, rl, a)
<1>1. HeldBy(i, a)' = Hold(bets[i], RulesOf(bets[i]), a)'
  BY DEF HeldBy
<1>2. RulesOf(bets[i])' = rl
  BY DEF RulesOf
<1> QED BY <1>1, <1>2 DEF Hold, Reserve, Exposure

LEMMA SameLocks ==
  ASSUME LocksInv, TablesInv', [Next]_vars, UNCHANGED <<locked, bets>>
  PROVE  LockedIsHeld'
<1> SUFFICES ASSUME NEW a \in Accounts
             PROVE  locked[a] = SumTo(HeldWeights(a)', Len(bets))
  BY DEF LockedIsHeld, HeldWeights
<1>1. \A i \in DOMAIN bets : HeldBy(i, a)' = HeldBy(i, a)
  <2>1. TablesInv
    BY DEF LocksInv
  <2>2. \A r \in DOMAIN rounds :
          rounds[r].state # "DRAFT" => rounds'[r].rules = rounds[r].rules
    BY <2>1, NextRules
  <2> QED BY <2>1, <2>2, HeldKept
<1>2. Len(bets) \in Nat /\ DOMAIN bets = 1 .. Len(bets)
  BY SeqFacts DEF LocksInv, TablesInv, TypeOK
<1>3. HeldWeights(a) \in [Nat -> Int] /\ HeldWeights(a)' \in [Nat -> Int]
  BY HeldWeightsInt, HeldWeightsNext DEF LocksInv, WeightsTyped
<1>4. \A i \in 1 .. Len(bets) : HeldWeights(a)'[i] = HeldWeights(a)[i]
  BY <1>1, <1>2 DEF HeldWeights
<1>5. SumTo(HeldWeights(a)', Len(bets)) = SumTo(HeldWeights(a), Len(bets))
  BY <1>2, <1>3, <1>4, SumAgree
<1> QED BY <1>5 DEF LocksInv, LockedIsHeld, HeldWeights

LEMMA PlaceBetLocks ==
  ASSUME LocksInv, TablesInv', [Next]_vars,
         NEW r \in DOMAIN rounds, NEW p \in Players, NEW pos \in Positions,
         NEW stake \in Stakes, PlaceBet(r, p, pos, stake)
  PROVE  LockedIsHeld'
<1> DEFINE rl == rounds[r].rules
           b  == [round |-> r, account |-> p, position |-> pos, stake |-> stake,
                  fee |-> IF PlayerOnly THEN 0 ELSE fee(stake),
                  state |-> "RESERVED", delta |-> 0]
<1>1. TablesInv /\ bets \in Seq(Bet) /\ Len(bets) \in Nat /\ DOMAIN bets = 1 .. Len(bets)
  BY SeqFacts DEF LocksInv, TablesInv, TypeOK
<1> PICK n \in Nat : n = Len(bets)
  BY <1>1
<1>2. b \in Bet /\ b.round = r /\ b.state = "RESERVED"
  <2>1. r \in Nat
    BY SeqFacts DEF LocksInv, TablesInv, TypeOK
  <2>2. stake \in Nat \ {0} /\ fee(stake) \in Nat
    BY ConstantsAssumption, FeeNat
  <2> QED BY <2>1, <2>2 DEF Bet
<1>3. bets' = Append(bets, b) /\ locked' = [a \in Accounts |-> locked[a] + Hold(b, rl, a)]
  BY DEF PlaceBet
<1>4. /\ DOMAIN bets' = DOMAIN bets \cup {n + 1} /\ Len(bets') = n + 1
      /\ bets'[n + 1] = b /\ \A i \in DOMAIN bets : bets'[i] = bets[i]
  <2> HIDE DEF b
  <2> QED BY <1>1, <1>2, <1>3, SeqAppend
<1>5. \A q \in DOMAIN rounds : rounds[q].state # "DRAFT" => rounds'[q].rules = rounds[q].rules
  BY <1>1, NextRules
<1>6. rounds[r].state = "OPEN" /\ rounds'[r].rules = rl
  BY <1>5 DEF PlaceBet
<1> HIDE DEF b
<1> SUFFICES ASSUME NEW a \in Accounts
             PROVE  locked'[a] = SumTo(HeldWeights(a)', n + 1)
  BY <1>4 DEF LockedIsHeld, HeldWeights
<1>7. HeldWeights(a) \in [Nat -> Int] /\ HeldWeights(a)' \in [Nat -> Int]
  BY <1>1, HeldWeightsInt, HeldWeightsNext DEF WeightsTyped
<1>8. \A i \in 1 .. n : HeldWeights(a)'[i] = HeldWeights(a)[i]
  <2>1. \A i \in DOMAIN bets : HeldBy(i, a)' = HeldBy(i, a)
    BY <1>1, <1>4, <1>5, HeldKept
  <2> QED BY <1>1, <2>1 DEF HeldWeights
<1>9. HeldWeights(a)'[n + 1] = Hold(b, rl, a)
  <2>1. HeldBy(n + 1, a)' = Hold(b, rl, a)
    BY <1>2, <1>4, <1>6, HeldNew
  <2> QED BY <1>1, <2>1 DEF HeldWeights
<1>10. SumTo(HeldWeights(a)', n + 1) = SumTo(HeldWeights(a)', n) + Hold(b, rl, a)
  BY <1>1, <1>7, <1>9, SumStep
<1>11. SumTo(HeldWeights(a)', n) = SumTo(HeldWeights(a), n)
  BY <1>1, <1>7, <1>8, SumAgree
<1>12. locked[a] = SumTo(HeldWeights(a), n)
  BY DEF LocksInv, LockedIsHeld, HeldWeights
<1> QED BY <1>3, <1>10, <1>11, <1>12

LEMMA FinishLocks ==
  ASSUME LocksInv, TablesInv', [Next]_vars,
         NEW r \in DOMAIN rounds, rounds[r].state \in {"OPEN", "CLOSED"},
         NEW rd \in Round, rd.banker \in Positions, NEW in \in Input, Finish(r, rd, in)
  PROVE  LockedIsHeld'
<1> DEFINE n    == Len(bets)
           W(a) == [i \in Nat |-> IF i \in BetsOf(r) THEN Release(bets[i], RulesOf(bets[i]), a)
                                  ELSE 0]
<1>1. TablesInv /\ TypeOK /\ n \in Nat /\ DOMAIN bets = 1 .. n
  BY SeqFacts DEF LocksInv, TablesInv, TypeOK
<1>2. /\ Len(bets') = n /\ DOMAIN bets' = DOMAIN bets
      /\ \A i \in DOMAIN bets :
           /\ bets[i].round = r => bets'[i].state \in {"WIN", "LOSS", "VOID"}
           /\ bets[i].round # r => bets'[i] = bets[i]
  BY <1>1, FinishEffect
<1>3. \A q \in DOMAIN rounds : rounds[q].state # "DRAFT" => rounds'[q].rules = rounds[q].rules
  BY <1>1, NextRules
<1> SUFFICES ASSUME NEW a \in Accounts
             PROVE  locked'[a] = SumTo(HeldWeights(a)', n)
  BY <1>2 DEF LockedIsHeld, HeldWeights
<1>4. HeldWeights(a) \in [Nat -> Int] /\ HeldWeights(a)' \in [Nat -> Int]
  BY <1>1, HeldWeightsInt, HeldWeightsNext DEF WeightsTyped
<1>5. \A i \in BetsOf(r) : /\ Release(bets[i], RulesOf(bets[i]), a) = HeldBy(i, a)
                           /\ HeldBy(i, a) \in Nat /\ HeldBy(i, a)' = 0
  <2> SUFFICES ASSUME NEW i \in BetsOf(r)
               PROVE  /\ Release(bets[i], RulesOf(bets[i]), a) = HeldBy(i, a)
                      /\ HeldBy(i, a) \in Nat /\ HeldBy(i, a)' = 0
    OBVIOUS
  <2>1. i \in DOMAIN bets /\ bets[i].round = r
    BY DEF BetsOf
  <2>2. bets[i].state = "RESERVED"
    BY <1>1, <2>1 DEF TablesInv, BetsMatchRound
  <2>3. Release(bets[i], RulesOf(bets[i]), a) = Hold(bets[i], RulesOf(bets[i]), a)
    BY <2>1, ReleaseIsHold DEF LocksInv
  <2>4. HeldBy(i, a) \in Nat
    BY <1>1, HeldNat
  <2>5. HeldBy(i, a)' = 0
    BY <1>2, <2>1 DEF HeldBy
  <2> QED BY <2>1, <2>2, <2>3, <2>4, <2>5 DEF HeldBy
<1>6. W(a) \in [Nat -> Int]
  <2>1. \A i \in BetsOf(r) : Release(bets[i], RulesOf(bets[i]), a) \in Int
    BY <1>5
  <2> QED BY <2>1
<1>7. \A i \in 1 .. n : HeldWeights(a)[i] = HeldWeights(a)'[i] + W(a)[i]
  <2> SUFFICES ASSUME NEW i \in 1 .. n
               PROVE  HeldWeights(a)[i] = HeldWeights(a)'[i] + W(a)[i]
    OBVIOUS
  <2>1. i \in Nat /\ HeldWeights(a)[i] = HeldBy(i, a) /\ HeldWeights(a)'[i] = HeldBy(i, a)'
    <3>1. i \in Nat
      BY <1>1
    <3>2. HeldWeights(a)[i] = HeldBy(i, a)
      BY <3>1 DEF HeldWeights
    <3>3. HeldWeights(a)'[i] = HeldBy(i, a)'
      BY <3>1 DEF HeldWeights
    <3> QED BY <3>1, <3>2, <3>3
  <2>2. i \in Nat /\ i \in DOMAIN bets /\ HeldBy(i, a) \in Nat
    BY <1>1, HeldNat
  <2>3. HeldBy(i, a) = HeldBy(i, a)' + W(a)[i]
    <3>1. CASE i \in BetsOf(r)
      <4>1. W(a)[i] = HeldBy(i, a) /\ HeldBy(i, a)' = 0
        BY <1>5, <2>2, <3>1
      <4> QED BY <2>2, <4>1
    <3>2. CASE i \notin BetsOf(r)
      <4>1. bets'[i] = bets[i]
        BY <1>2, <2>2, <3>2 DEF BetsOf
      <4>2. HeldBy(i, a)' = HeldBy(i, a)
        BY <1>1, <1>2, <1>3, <2>2, <4>1, HeldKept
      <4>3. W(a)[i] = 0
        BY <2>2, <3>2
      <4> QED BY <2>2, <4>2, <4>3
    <3> QED BY <3>1, <3>2
  <2> HIDE DEF W
  <2> QED BY <2>1, <2>3
<1>8. locked'[a] = locked[a] - SumTo(W(a), n)
  BY DEF Finish, LockedAfter, ReleasedBy
<1>9. locked[a] = SumTo(HeldWeights(a), n)
  BY DEF LocksInv, LockedIsHeld, HeldWeights
<1> HIDE DEF W
<1>10. SumTo(HeldWeights(a), n) = SumTo(HeldWeights(a)', n) + SumTo(W(a), n)
  BY <1>1, <1>4, <1>6, <1>7, SumAdd
<1>11. SumTo(HeldWeights(a)', n) \in Int /\ SumTo(W(a), n) \in Int
  BY <1>1, <1>4, <1>6, SumStep
<1> QED BY <1>8, <1>9, <1>10, <1>11

LEMMA NextLocks == ASSUME TimedRules PROVE LocksInv /\ [Next]_vars => LocksInv'
<1> SUFFICES ASSUME LocksInv, [Next]_vars PROVE LocksInv'
  OBVIOUS
<1>1. TablesInv /\ FeesInv /\ TablesInv' /\ FeesInv'
  BY NextTables, NextFees DEF LocksInv
<1>2. CASE UNCHANGED <<locked, bets>>
  BY <1>1, <1>2, SameLocks DEF LocksInv
<1>3. CASE \E r \in DOMAIN rounds, p \in Players, pos \in Positions, stake \in Stakes :
             PlaceBet(r, p, pos, stake)
  BY <1>1, <1>3, PlaceBetLocks DEF LocksInv
<1>4. CASE \E r \in DOMAIN rounds, in \in Inputs : Settle(r, in) \/ CancelRound(r, in)
  <2>1. PICK r \in DOMAIN rounds, in \in Inputs : Settle(r, in) \/ CancelRound(r, in)
    BY <1>4
  <2>2. TypeOK /\ BankerChosen
    BY <1>1 DEF TablesInv
  <2>3. PICK rd \in Round : rd.banker \in Positions /\ Finish(r, rd, in)
    BY <2>1, <2>2, FinishedRow
  <2>4. rounds[r].state \in {"OPEN", "CLOSED"} /\ in \in Input
    BY <2>1, <2>2, FinishedRow
  <2> QED BY <1>1, <2>3, <2>4, FinishLocks DEF LocksInv
<1> QED BY <1>2, <1>3, <1>4, LockSteps

(* In player mode, and in house mode when every rule set names a fee timing, *)
(* what an account has locked is exactly what its open bets reserved:        *)
(* PlaceBet's reservations and Settle's releases, computed apart, agree      *)
(* for all rules, stakes and numbers of bets, whatever happens in between.   *)
THEOREM LocksMatchBets == ASSUME TimedRules PROVE Spec => []LockedIsHeld
<1>1. Init => LocksInv
  BY InitLocks
<1>2. LocksInv /\ [Next]_vars => LocksInv'
  BY NextLocks
<1>3. LocksInv => LockedIsHeld
  BY DEF LocksInv
<1> QED BY <1>1, <1>2, <1>3, PTL DEF Spec

-----------------------------------------------------------------------------
(* Settlements: what a round that finishes does to bets and balances *)

(* A settlement decides its bets one by one, and its round as a whole. *)
LEMMA FinishResults ==
  ASSUME TypeOK, NEW r \in DOMAIN rounds, NEW rd \in Round, NEW in, Finish(r, rd, in)
  PROVE  /\ rounds'[r].state = IF WholeVoid(rd, in) THEN "VOID" ELSE "SETTLED"
         /\ \A i \in BetsOf(r) : /\ bets'[i].state = Outcome(rd, in, bets[i].position)
                                 /\ bets'[i].delta = GameDelta(bets[i], rd, in)
         /\ balance' = BalanceWhen(r, rd, in, BetsOf(r))
         /\ locked' = LockedAfter(r)
<1> DEFINE p  == MakePreview(r, rd, in)
           st == IF p.wholeVoid THEN "VOID" ELSE "SETTLED"
           nr == [rd EXCEPT !.state = st, !.revision = @ + 1]
<1>1. p.wholeVoid = WholeVoid(rd, in) /\ \A i \in BetsOf(r) : p.lines[i] = Line(bets[i], rd, in)
  BY DEF MakePreview
<1>2. rounds'[r] = nr
  <2>1. PICK number : rounds' = Append([rounds EXCEPT ![r] = nr], Draft(number, 0))
    BY DEF Finish
  <2>2. rounds \in Seq(Round) /\ DOMAIN rounds = 1 .. Len(rounds) /\ Len(rounds) \in Nat
    BY SeqFacts DEF TypeOK
  <2> DEFINE rs == [rounds EXCEPT ![r] = nr]
  <2>3. nr \in Round
    <3>1. st \in RoundStates
      BY DEF RoundStates
    <3> HIDE DEF st
    <3> QED BY <3>1, RoundUpdates
  <2>4. rs \in Seq(Round) /\ Len(rs) = Len(rounds) /\ rs[r] = nr
    <3> HIDE DEF nr
    <3> QED BY <2>2, <2>3
  <2> HIDE DEF rs, nr
  <2>5. \A d : Append(rs, d)[r] = rs[r]
    BY <2>2, <2>4
  <2> QED BY <2>1, <2>4, <2>5 DEF rs
<1>3. nr.state = st
  BY DEF Round
<1>4. ASSUME NEW i \in BetsOf(r)
      PROVE  /\ bets'[i].state = Outcome(rd, in, bets[i].position)
             /\ bets'[i].delta = GameDelta(bets[i], rd, in)
  <2>1. i \in DOMAIN bets /\ bets[i] \in Bet
    BY SeqFacts DEF BetsOf, TypeOK
  <2>2. bets'[i] = SettledBet(bets[i], Line(bets[i], rd, in))
    BY <1>1, <2>1 DEF Finish
  <2>3. \A line : /\ SettledBet(bets[i], line).state = line.outcome
                  /\ SettledBet(bets[i], line).delta = line.delta
    BY <2>1 DEF SettledBet, Bet
  <2> QED BY <2>2, <2>3 DEF Line
<1>5. balance' = BalanceWhen(r, rd, in, BetsOf(r)) /\ locked' = LockedAfter(r)
  BY DEF Finish, BalanceAfter
<1> HIDE DEF p, nr
<1> QED BY <1>1, <1>2, <1>3, <1>4, <1>5

(* Only a settlement or a cancellation of that round settles it or voids it. *)
LEMMA FinishingSteps ==
  ASSUME TablesInv, [Next]_vars, NEW r \in DOMAIN rounds,
         rounds'[r].state \in {"SETTLED", "VOID"}, rounds'[r].state # rounds[r].state
  PROVE  \E in \in Inputs : Settle(r, in) \/ CancelRound(r, in)
<1> USE DEF TablesInv
<1>1. rounds \in Seq(Round) /\ \A q \in DOMAIN rounds : rounds[q] \in Round
  BY SeqFacts DEF TypeOK
<1>2. ~ UNCHANGED rounds
  OBVIOUS
<1>3. ASSUME NEW number \in 1 .. LastNumber, NEW banker \in Positions \cup {0},
             CreateDraft(number, banker)
      PROVE  FALSE
  <2>1. Draft(number, banker) \in Round
    BY DraftType
  <2>2. rounds' = Append(rounds, Draft(number, banker))
    BY <1>3 DEF CreateDraft
  <2> QED BY <1>1, <2>1, <2>2, SeqAppend
<1>4. ASSUME NEW q \in DOMAIN rounds, NEW row, rounds' = [rounds EXCEPT ![q] = row],
             row.state \notin {"SETTLED", "VOID"}
      PROVE  FALSE
  BY <1>4
<1>5. ASSUME NEW q \in DOMAIN rounds, NEW number \in 1 .. LastNumber, NEW banker \in Positions,
             Configure(q, number, banker)
      PROVE  FALSE
  <2>1. [rounds[q] EXCEPT !.number = number, !.banker = banker, !.revision = @ + 1].state
          = "DRAFT"
    BY <1>1, <1>5 DEF Round, Configure
  <2> QED BY <1>5, <2>1 DEF Configure
<1>6. ASSUME NEW q \in DOMAIN rounds, OpenRound(q) PROVE FALSE
  <2>1. [rounds[q] EXCEPT !.state = "OPEN", !.rules = settings.rules, !.revision = @ + 1].state
          = "OPEN"
    BY <1>1 DEF Round
  <2> QED BY <1>6, <2>1 DEF OpenRound
<1>7. ASSUME NEW q \in DOMAIN rounds, CloseRound(q) PROVE FALSE
  <2>1. rounds' = [rounds EXCEPT ![q] = Closed(rounds[q])]
    BY <1>1, <1>7 DEF CloseRound
  <2>2. Closed(rounds[q]).state = "CLOSED"
    BY <1>1, ClosedType
  <2> QED BY <1>4, <2>1, <2>2
<1>8. ASSUME NEW q \in DOMAIN rounds, NEW p \in Players, NEW pos \in Positions,
             NEW stake \in Stakes, PlaceBet(q, p, pos, stake)
      PROVE  FALSE
  <2>1. [rounds[q] EXCEPT !.revision = @ + 1].state = "OPEN"
    BY <1>1, <1>8 DEF Round, PlaceBet
  <2>2. rounds' = [rounds EXCEPT ![q].revision = @ + 1]
    BY <1>8 DEF PlaceBet
  <2> QED BY <2>1, <2>2
<1>9. ASSUME NEW q \in DOMAIN rounds, NEW in \in Inputs, Settle(q, in) \/ CancelRound(q, in)
      PROVE  q = r
  <2>1. PICK rd \in Round : rd.banker \in Positions /\ Finish(q, rd, in)
    BY <1>9, FinishedRow
  <2>2. in \in Input
    BY ConstantsAssumption
  <2>3. \A o \in DOMAIN rounds \ {q} : rounds'[o] = rounds[o]
    BY <2>1, <2>2, FinishEffect
  <2> QED BY <2>3
<1>10. \/ UNCHANGED rounds
       \/ \E number \in 1 .. LastNumber, banker \in Positions \cup {0} : CreateDraft(number, banker)
       \/ \E q \in DOMAIN rounds, number \in 1 .. LastNumber, banker \in Positions :
            Configure(q, number, banker)
       \/ \E q \in DOMAIN rounds : OpenRound(q) \/ CloseRound(q)
       \/ \E q \in DOMAIN rounds, p \in Players, pos \in Positions, stake \in Stakes :
            PlaceBet(q, p, pos, stake)
       \/ \E q \in DOMAIN rounds, in \in Inputs : Settle(q, in) \/ CancelRound(q, in)
  BY DEF Next, vars, Contact, SetPlayer, Adjust, SaveRules, Restart, Preview
<1> QED BY <1>2, <1>3, <1>5, <1>6, <1>7, <1>8, <1>9, <1>10

(* The player mode moves no fees: a settlement changes the player's balance *)
(* by the winnings or the loss and no other balance at all.                 *)
LEMMA PlayerEffect ==
  ASSUME PlayerOnly, NEW b \in Bet, NEW rd \in Round, rd.banker \in Positions,
         NEW in \in Input, NEW a
  PROVE  /\ Effect(b, rd, in, a) = IF a = b.account THEN GameDelta(b, rd, in) ELSE 0
         /\ GameEffect(b, rd, in, a) = IF a = b.account THEN GameDelta(b, rd, in) ELSE 0
<1>1. FeeMove(b, rd, in) = 0
  BY DEF FeeMove
<1>2. \A from, to : Moved(from, to, 0, a) = 0
  BY DEF Moved
<1>3. GameEffect(b, rd, in, a) = IF a = b.account THEN GameDelta(b, rd, in) ELSE 0
  BY DEF GameEffect
<1>4. GameEffect(b, rd, in, a) \in Int
  BY EffectInt
<1>5. Effect(b, rd, in, a) = GameEffect(b, rd, in, a) + 0
  BY <1>1, <1>2 DEF Effect
<1> QED BY <1>3, <1>4, <1>5

(* The terms a settlement adds to one balance. *)
EffectWeights(r, rd, in, S, a) ==
  [i \in Nat |-> IF i \in BetsOf(r) /\ i \in S THEN Effect(bets[i], rd, in, a) ELSE 0]

(* The effects of a round's bets on one account, as terms of a sum. *)
LEMMA EffectWeightsInt ==
  ASSUME TypeOK, NEW r, NEW rd \in Round, rd.banker \in Positions, NEW in \in Input, NEW S, NEW a
  PROVE  EffectWeights(r, rd, in, S, a) \in [Nat -> Int]
<1>1. ASSUME NEW i \in BetsOf(r) PROVE Effect(bets[i], rd, in, a) \in Int
  <2>1. bets[i] \in Bet
    BY SeqFacts DEF BetsOf, TypeOK
  <2> QED BY <2>1, EffectInt
<1> QED BY <1>1 DEF EffectWeights

(* What an account has after part of the postings is its balance and the  *)
(* sum of the effects of the bets posted.                                  *)
LEMMA BalanceIsSum ==
  ASSUME NEW r, NEW rd, NEW in, NEW S, NEW a \in Accounts
  PROVE  BalanceWhen(r, rd, in, S)[a]
           = balance[a] + SumTo(EffectWeights(r, rd, in, S, a), Len(bets))
BY DEF BalanceWhen, EffectWeights

(* A settlement checks its token against the preview of the round as it is. *)
LEMMA SettledIsShown ==
  ASSUME TablesInv, NEW r \in DOMAIN rounds, NEW in \in Inputs, Settle(r, in)
  PROVE  /\ shown.round = r /\ DOMAIN shown.lines = BetsOf(r)
         /\ \A i \in BetsOf(r) :
              /\ bets'[i].state = shown.lines[i].outcome
              /\ bets'[i].delta = shown.lines[i].delta
         /\ PlayerOnly => \A p \in Players : balance'[p] = balance[p] + AnnouncedChange(r, p)
<1> USE DEF TablesInv
<1> DEFINE rd == rounds[r]
<1>1. rd \in Round /\ rd.banker \in Positions /\ in \in Input
  <2>1. rd \in Round
    BY SeqFacts DEF TypeOK
  <2>2. rd.state = "CLOSED"
    BY DEF Settle, PreviewOK
  <2> QED BY <2>1, <2>2, ConstantsAssumption DEF BankerChosen, Round
<1>2. Finish(r, rd, in) /\ shown = MakePreview(r, rd, in)
  BY DEF Settle, TokenMatches
<1> HIDE DEF rd
<1>3. /\ shown.round = r
      /\ shown.lines = [i \in BetsOf(r) |-> Line(bets[i], rd, in)]
  BY <1>2 DEF MakePreview
<1>4. \A i \in BetsOf(r) : /\ shown.lines[i].outcome = Outcome(rd, in, bets[i].position)
                           /\ shown.lines[i].delta = GameDelta(bets[i], rd, in)
  BY <1>3 DEF Line
<1>5. /\ \A i \in BetsOf(r) : /\ bets'[i].state = Outcome(rd, in, bets[i].position)
                              /\ bets'[i].delta = GameDelta(bets[i], rd, in)
      /\ balance' = BalanceWhen(r, rd, in, BetsOf(r))
  BY <1>1, <1>2, FinishResults
<1>6. ASSUME PlayerOnly, NEW p \in Players
      PROVE  balance'[p] = balance[p] + AnnouncedChange(r, p)
  <2> DEFINE w == EffectWeights(r, rd, in, BetsOf(r), p)
             v == [i \in Nat |-> IF i \in BetsOf(r) /\ bets[i].account = p
                                 THEN shown.lines[i].delta ELSE 0]
  <2>1. w \in [Nat -> Int] /\ Len(bets) \in Nat
    BY <1>1, EffectWeightsInt, SeqFacts DEF TypeOK
  <2>2. v = w
    <3>1. ASSUME NEW i \in BetsOf(r)
          PROVE  Effect(bets[i], rd, in, p)
                   = IF bets[i].account = p THEN shown.lines[i].delta ELSE 0
      <4>1. bets[i] \in Bet
        BY SeqFacts DEF BetsOf, TypeOK
      <4>2. Effect(bets[i], rd, in, p)
              = IF p = bets[i].account THEN GameDelta(bets[i], rd, in) ELSE 0
        BY <1>1, <1>6, <4>1, PlayerEffect
      <4> QED BY <1>4, <4>2
    <3>2. ASSUME NEW i \in Nat PROVE v[i] = w[i]
      BY <3>1 DEF EffectWeights
    <3>3. v = [i \in Nat |-> v[i]] /\ w = [i \in Nat |-> w[i]]
      BY DEF EffectWeights
    <3> HIDE DEF v, w
    <3> QED BY <3>2, <3>3
  <2>3. AnnouncedChange(r, p) = SumTo(v, Len(bets))
    BY DEF AnnouncedChange
  <2>4. p \in Accounts
    BY DEF Accounts
  <2>5. balance'[p] = balance[p] + SumTo(w, Len(bets))
    BY <1>5, <2>4, BalanceIsSum
  <2> QED BY <2>2, <2>3, <2>5
<1> QED BY <1>3, <1>4, <1>5, <1>6

(* A cancelled round is void, so settled rounds went through Settle. *)
LEMMA NextShown ==
  ASSUME TablesInv, [Next]_vars, NEW r \in DOMAIN rounds,
         rounds[r].state # "SETTLED", rounds'[r].state = "SETTLED"
  PROVE  \E in \in Inputs : Settle(r, in)
<1>1. PICK in \in Inputs : Settle(r, in) \/ CancelRound(r, in)
  BY FinishingSteps
<1>2. ASSUME CancelRound(r, in) PROVE FALSE
  <2>1. TypeOK /\ BankerChosen
    BY DEF TablesInv
  <2>2. in.kind = "cancel"
    BY <1>2 DEF CancelRound
  <2>3. PICK rd \in Round : Finish(r, rd, in)
    BY <1>2, <2>1, FinishedRow
  <2>4. rounds'[r].state = IF WholeVoid(rd, in) THEN "VOID" ELSE "SETTLED"
    BY <2>1, <2>3, FinishResults
  <2>5. WholeVoid(rd, in)
    BY <2>2 DEF WholeVoid
  <2> QED BY <2>4, <2>5
<1> QED BY <1>1, <1>2

(* A round is settled only with the results of the preview the operator     *)
(* looked at last: outcome and amount of each bet, and in player mode each   *)
(* player's new balance, are those on the screen, whatever was commanded in  *)
(* between.  The token of the preview is compared with one computed afresh.  *)
THEOREM SettledOnlyAsShown == Spec => SettledAsShown
<1>1. ASSUME TablesInv, [Next]_vars, NEW r \in DOMAIN rounds,
             rounds[r].state # "SETTLED", rounds'[r].state = "SETTLED"
      PROVE  /\ shown.round = r /\ DOMAIN shown.lines = BetsOf(r)
             /\ \A i \in BetsOf(r) :
                  /\ bets'[i].state = shown.lines[i].outcome
                  /\ bets'[i].delta = shown.lines[i].delta
             /\ PlayerOnly => \A p \in Players : balance'[p] = balance[p] + AnnouncedChange(r, p)
  <2>1. PICK in \in Inputs : Settle(r, in)
    BY <1>1, NextShown
  <2> QED BY <1>1, <2>1, SettledIsShown
<1>2. TablesInv /\ [Next]_vars =>
        [\A r \in DOMAIN rounds :
           rounds[r].state # "SETTLED" /\ rounds'[r].state = "SETTLED" =>
             /\ shown.round = r /\ DOMAIN shown.lines = BetsOf(r)
             /\ \A i \in BetsOf(r) : /\ bets'[i].state = shown.lines[i].outcome
                                     /\ bets'[i].delta = shown.lines[i].delta
             /\ PlayerOnly => \A p \in Players :
                                balance'[p] = balance[p] + AnnouncedChange(r, p)]_vars
  BY <1>1
<1> QED BY <1>2, TablesInvariant, PTL DEF Spec, SettledAsShown

-----------------------------------------------------------------------------
(* Void rounds *)

FeesFree == TablesInv /\ (PlayerOnly => FeesInv)

LEMMA NextFree == FeesFree /\ [Next]_vars => FeesFree'
<1>1. PlayerOnly => TimedRules
  BY DEF TimedRules
<1> QED BY <1>1, NextTables, NextFees DEF FeesFree

(* Both facts hold throughout. *)
LEMMA FeesFreeInvariant == Spec => []FeesFree
<1>1. Init => FeesFree
  <2>1. PlayerOnly => TimedRules
    BY DEF TimedRules
  <2> QED BY <2>1, InitTables, InitLocks DEF FeesFree, LocksInv
<1> QED BY <1>1, NextFree, PTL DEF Spec

(* A void line has no effect on any account in player mode. *)
LEMMA VoidEffect ==
  ASSUME NEW b \in Bet, b.account \in Players, NEW rd \in Round, rd.banker \in Positions,
         NEW in \in Input, WholeVoid(rd, in), NEW p \in Players,
         \/ PlayerOnly /\ b.fee = 0
         \/ /\ ~ PlayerOnly /\ rd.rules.feeTiming = "acceptance"
            /\ rd.rules.voidFee = "refund" /\ rd.rules.feeRecipient # p
  PROVE  Effect(b, rd, in, p) = IF b.account = p THEN b.fee ELSE 0
<1>1. Outcome(rd, in, b.position) = "VOID"
  BY DEF Outcome
<1>2. GameDelta(b, rd, in) = 0 /\ b.fee \in Nat
  BY <1>1 DEF GameDelta, Bet
<1>3. CASE PlayerOnly
  <2>1. Effect(b, rd, in, p) = IF p = b.account THEN GameDelta(b, rd, in) ELSE 0
    BY <1>3, PlayerEffect
  <2> QED BY <1>2, <1>3, <2>1
<1>4. CASE ~ PlayerOnly
  <2>1. LineFee(b, rd, in) = 0
    BY <1>1, <1>4 DEF LineFee
  <2>2. FeeMove(b, rd, in) = - b.fee
    BY <1>4, <2>1 DEF FeeMove
  <2>3. GameEffect(b, rd, in, p) = 0
    BY <1>2, <1>4 DEF GameEffect, Moved
  <2>4. Moved(b.account, rd.rules.feeRecipient, - b.fee, p) = IF b.account = p THEN b.fee ELSE 0
    BY <1>2, <1>4 DEF Moved
  <2> QED BY <1>2, <2>2, <2>3, <2>4 DEF Effect
<1> QED BY <1>3, <1>4

(* A settlement never locks more. *)
LEMMA ReleasedByNat ==
  ASSUME TypeOK, BetsMatchRound, NEW r, NEW a
  PROVE  ReleasedBy(r, a) \in Nat
<1> DEFINE w == [i \in Nat |-> IF i \in BetsOf(r) THEN Release(bets[i], RulesOf(bets[i]), a)
                               ELSE 0]
           z == [i \in Nat |-> 0]
<1>1. ASSUME NEW i \in BetsOf(r) PROVE Release(bets[i], RulesOf(bets[i]), a) \in Nat
  <2>1. i \in DOMAIN bets /\ bets[i] \in Bet
    BY SeqFacts DEF BetsOf, TypeOK
  <2>2. RulesOf(bets[i]) \in ValidRuleSets
    <3>1. bets[i].round \in DOMAIN rounds
      BY <2>1 DEF BetsMatchRound
    <3>2. rounds[bets[i].round] \in Round
      BY <3>1, SeqFacts DEF TypeOK
    <3> QED BY <3>2 DEF RulesOf, Round
  <2> QED BY <2>1, <2>2, HoldNat
<1>2. w \in [Nat -> Int] /\ z \in [Nat -> Int] /\ \A i \in Nat : z[i] = 0 /\ z[i] <= w[i]
  BY <1>1
<1>3. Len(bets) \in Nat
  BY SeqFacts DEF TypeOK
<1>4. \A i \in 1 .. Len(bets) : z[i] = 0 /\ z[i] <= w[i]
  BY <1>2, <1>3
<1>5. ReleasedBy(r, a) = SumTo(w, Len(bets))
  BY DEF ReleasedBy
<1> HIDE DEF w, z
<1>6. SumTo(z, Len(bets)) <= SumTo(w, Len(bets)) /\ SumTo(w, Len(bets)) \in Int
  BY <1>2, <1>3, <1>4, SumMono, SumStep
<1>7. SumTo(z, Len(bets)) = 0
  BY <1>2, <1>3, <1>4, SumZero
<1> QED BY <1>5, <1>6, <1>7

(* One step: a round that becomes void leaves the players as they were. *)
LEMMA StepVoid ==
  ASSUME FeesFree, [Next]_vars, NEW r \in DOMAIN rounds, NEW p \in Players,
         rounds[r].state # "VOID", rounds'[r].state = "VOID",
         \/ PlayerOnly
         \/ /\ rounds[r].rules.feeTiming = "acceptance"
            /\ rounds[r].rules.voidFee = "refund" /\ rounds[r].rules.feeRecipient # p
  PROVE  /\ balance'[p] = balance[p] + FeesOf(r, p)
         /\ balance'[p] - locked'[p] >= balance[p] - locked[p]
<1>1. TablesInv /\ TypeOK /\ BankerChosen /\ BetsMatchRound /\ p \in Accounts
  BY DEF FeesFree, TablesInv, Accounts
<1>2. PICK in \in Inputs : Settle(r, in) \/ CancelRound(r, in)
  BY <1>1, FinishingSteps
<1>3. /\ in \in Input
      /\ \E rd \in Round : /\ rd.banker \in Positions /\ rd.rules = rounds[r].rules
                           /\ Finish(r, rd, in)
  BY <1>1, <1>2, FinishedRow
<1>4. PICK rd \in Round : /\ rd.banker \in Positions /\ rd.rules = rounds[r].rules
                          /\ Finish(r, rd, in)
  BY <1>3
<1>5. /\ WholeVoid(rd, in)
      /\ balance' = BalanceWhen(r, rd, in, BetsOf(r)) /\ locked' = LockedAfter(r)
  BY <1>1, <1>4, FinishResults
<1> DEFINE n == Len(bets)
           w == EffectWeights(r, rd, in, BetsOf(r), p)
           v == [i \in Nat |-> IF i \in BetsOf(r) /\ bets[i].account = p
                               THEN bets[i].fee ELSE 0]
           z == [i \in Nat |-> 0]
<1>6. \A i \in BetsOf(r) :
        /\ bets[i].fee \in Nat
        /\ Effect(bets[i], rd, in, p) = IF bets[i].account = p THEN bets[i].fee ELSE 0
  <2> SUFFICES ASSUME NEW i \in BetsOf(r)
               PROVE  /\ bets[i].fee \in Nat
                      /\ Effect(bets[i], rd, in, p)
                           = IF bets[i].account = p THEN bets[i].fee ELSE 0
    OBVIOUS
  <2>1. i \in DOMAIN bets /\ bets[i] \in Bet
    BY <1>1, SeqFacts DEF BetsOf, TypeOK
  <2>2. bets[i].account \in Players /\ bets[i].fee \in Nat
    BY <2>1 DEF Bet
  <2>3. PlayerOnly => bets[i].fee = 0
    BY <2>1 DEF FeesFree, FeesInv
  <2>4. \/ PlayerOnly /\ bets[i].fee = 0
        \/ /\ ~ PlayerOnly /\ rd.rules.feeTiming = "acceptance"
           /\ rd.rules.voidFee = "refund" /\ rd.rules.feeRecipient # p
    BY <1>4, <2>3
  <2> QED BY <1>3, <1>4, <1>5, <2>1, <2>2, <2>4, VoidEffect
<1>7. w \in [Nat -> Int] /\ n \in Nat
  BY <1>1, <1>3, <1>4, EffectWeightsInt, SeqFacts DEF TypeOK
<1>8. v \in [Nat -> Int] /\ z \in [Nat -> Int]
  BY <1>6
<1>9. \A i \in 1 .. n : v[i] = w[i] /\ z[i] = 0 /\ z[i] <= v[i]
  BY <1>6 DEF EffectWeights
<1>10. FeesOf(r, p) = SumTo(v, n)
  BY DEF FeesOf
<1>11. balance'[p] = balance[p] + SumTo(w, n)
  BY <1>1, <1>5, BalanceIsSum
<1> HIDE DEF v, w, z, n
<1>12. SumTo(v, n) = SumTo(w, n)
  BY <1>7, <1>8, <1>9, SumAgree
<1>13. SumTo(z, n) = 0 /\ SumTo(z, n) <= SumTo(v, n) /\ SumTo(v, n) \in Int
  BY <1>7, <1>8, <1>9, SumZero, SumMono, SumStep
<1>14. locked'[p] = locked[p] - ReleasedBy(r, p) /\ ReleasedBy(r, p) \in Nat
  BY <1>1, <1>5, ReleasedByNat DEF LockedAfter
<1>15. balance[p] \in Int /\ locked[p] \in Int
  BY <1>1 DEF TypeOK
<1>16. balance'[p] = balance[p] + FeesOf(r, p)
  BY <1>10, <1>11, <1>12
<1>17. balance'[p] - locked'[p] >= balance[p] - locked[p]
  BY <1>11, <1>12, <1>13, <1>14, <1>15
<1> QED BY <1>16, <1>17

(* A round that is voided, by its result or by a cancellation, gives every   *)
(* player back what was taken for it and freezes nothing: in player mode,    *)
(* and in house mode for everybody but the recipient of refunded fees.       *)
THEOREM VoidCostsNothing == Spec => VoidIsNeutral
<1>1. FeesFree /\ [Next]_vars =>
        [\A r \in DOMAIN rounds, p \in Players :
           rounds[r].state # "VOID" /\ rounds'[r].state = "VOID"
           /\ (PlayerOnly \/ (rounds[r].rules.feeTiming = "acceptance"
                              /\ rounds[r].rules.voidFee = "refund"
                              /\ rounds[r].rules.feeRecipient # p))
           => /\ balance'[p] = balance[p] + FeesOf(r, p)
              /\ balance'[p] - locked'[p] >= balance[p] - locked[p]]_vars
  BY StepVoid
<1> QED BY <1>1, FeesFreeInvariant, PTL DEF Spec, VoidIsNeutral

-----------------------------------------------------------------------------
(* What is reserved covers every result *)

(* The house's exposure, in whole points, covers the profit at any rate. *)
LEMMA ExposureCovers ==
  ASSUME NEW stake \in Nat, NEW low \in Nat, NEW high \in Nat, low <= high
  PROVE  profitFor(stake, low) <= exposureFor(stake, high)
<1> DEFINE x == stake * high
           d == 100 * MoneyScale
           q == (x + 100 * MoneyScale - 1) \div (100 * MoneyScale)
<1>1. profitFor(stake, low) \in Nat /\ profitFor(stake, low) <= profitFor(stake, high)
  BY ProfitBounds
<1>2. x \in Nat /\ d \in Nat /\ d > 0 /\ d = 100 * MoneyScale /\ MoneyScale \in Nat
  BY MoneyScaleAssumption
<1>3. profitFor(stake, high) = (x + 50) \div 100
  BY DEF profitFor
<1>4. exposureFor(stake, high) = q * MoneyScale
  BY DEF exposureFor
<1>5. \A y \in Nat, c \in Nat : c > 0 => ((y + c - 1) \div c) \in Nat
                                          /\ c * ((y + c - 1) \div c) >= y
  OBVIOUS
<1>6. q = (x + d - 1) \div d
  BY <1>2
<1>7. q \in Nat /\ d * q >= x
  BY <1>2, <1>5, <1>6
<1> HIDE DEF q, x
<1>8. d * q = 100 * (q * MoneyScale) /\ q * MoneyScale \in Nat
  BY <1>2, <1>7
<1>9. \A e \in Nat : 100 * e >= x => (x + 50) \div 100 <= e
  BY <1>2
<1>10. (x + 50) \div 100 <= q * MoneyScale
  BY <1>7, <1>8, <1>9
<1>11. exposureFor(stake, high) \in Nat /\ profitFor(stake, high) \in Int
  BY ProfitBounds, <1>4, <1>8
<1> HIDE DEF d
<1> QED BY <1>1, <1>3, <1>4, <1>10, <1>11

(* The game part of a bet takes no more than PlaceBet reserved for it on    *)
(* the player and on the house.                                            *)
LEMMA GameCovered ==
  ASSUME NEW b \in Bet, NEW rd \in Round, rd.banker \in Positions, NEW in \in Input, NEW a
  PROVE  GameEffect(b, rd, in, a)
           + ((IF a = b.account THEN riskFor(b.stake, MaxRate(rd.rules.loss)) ELSE 0)
              + (IF a = House THEN Exposure(b, rd.rules) ELSE 0)) >= 0
<1> DEFINE risk == riskFor(b.stake, MaxRate(rd.rules.loss))
           top  == exposureFor(b.stake, MaxRate(rd.rules.payout))
           delta == GameDelta(b, rd, in)
<1>1. /\ b.stake \in Nat /\ b.position \in Positions /\ b.fee \in Nat
      /\ b.account \in Players
  BY DEF Bet
<1>2. b.account # House
  BY <1>1, ConstantsAssumption DEF Operators
<1>3. rd.rules \in ValidRuleSets
  BY DEF Round
<1>4. rd.rules.payout \in [Ranks -> Rates] /\ rd.rules.loss \in [Ranks -> Rates]
  BY <1>3, RateTypes
<1>5. /\ risk \in Nat
      /\ \A k \in Ranks : /\ lossFor(b.stake, rd.rules.loss[k]) \in Nat
                          /\ lossFor(b.stake, rd.rules.loss[k]) <= risk
  BY <1>1, <1>4, RiskCovers
<1>6. /\ top \in Nat
      /\ \A k \in Ranks : /\ profitFor(b.stake, rd.rules.payout[k]) \in Nat
                          /\ profitFor(b.stake, rd.rules.payout[k]) <= top
  <2>1. MaxRate(rd.rules.payout) \in Nat
        /\ \A k \in Ranks : rd.rules.payout[k] <= MaxRate(rd.rules.payout)
    BY <1>4, MaxRateBounds
  <2>2. \A k \in Ranks : rd.rules.payout[k] \in Nat
    <3>1. Rates \subseteq Nat
      BY DEF Rates
    <3> QED BY <1>4, <3>1
  <2>3. top \in Nat
    BY <1>1, <2>1, ExposureNat
  <2>4. ASSUME NEW k \in Ranks
        PROVE  /\ profitFor(b.stake, rd.rules.payout[k]) \in Nat
               /\ profitFor(b.stake, rd.rules.payout[k]) <= top
    <3>1. profitFor(b.stake, rd.rules.payout[k]) <= top
      BY <1>1, <2>1, <2>2, ExposureCovers
    <3>2. profitFor(b.stake, rd.rules.payout[k]) \in Nat
      BY <1>1, <2>1, <2>2, ProfitBounds
    <3> QED BY <3>1, <3>2
  <2> QED BY <2>3, <2>4
<1>7. delta \in Int /\ delta >= - risk /\ delta <= top
  <2> HIDE DEF risk, top
  <2>1. CASE Outcome(rd, in, b.position) = "WIN"
    <3>1. in.hands[b.position].rank \in Ranks
      BY <1>1, <2>1, OutcomeTypes
    <3>2. delta = profitFor(b.stake, rd.rules.payout[in.hands[b.position].rank])
      BY <2>1 DEF GameDelta
    <3> HIDE DEF delta
    <3>3. \A n, m \in Nat : n \in Int /\ n >= - m
      OBVIOUS
    <3> QED BY <1>5, <1>6, <3>1, <3>2, <3>3, ZenonT(20)
  <2>2. CASE Outcome(rd, in, b.position) = "LOSS"
    <3>1. in.hands[rd.banker].rank \in Ranks
      BY <1>1, <2>2, OutcomeTypes
    <3>2. delta = - lossFor(b.stake, rd.rules.loss[in.hands[rd.banker].rank])
      BY <2>2 DEF GameDelta
    <3> HIDE DEF delta
    <3>3. \A n, m, k \in Nat : n <= m => - n \in Int /\ - n >= - m /\ - n <= k
      OBVIOUS
    <3> QED BY <1>5, <1>6, <3>1, <3>2, <3>3, ZenonT(20)
  <2>3. CASE Outcome(rd, in, b.position) = "VOID"
    <3>1. delta = 0
      BY <2>3 DEF GameDelta
    <3> HIDE DEF delta
    <3> QED BY <1>5, <1>6, <3>1
  <2> QED BY <1>1, <2>1, <2>2, <2>3, OutcomeTypes
<1>8. Exposure(b, rd.rules) = IF PlayerOnly THEN 0 ELSE top
  BY DEF Exposure
<1>9. PlayerOnly \in BOOLEAN
  BY ConstantsAssumption
<1> HIDE DEF risk, top, delta
<1>10. CASE PlayerOnly
  <2>1. GameEffect(b, rd, in, a) = IF a = b.account THEN delta ELSE 0
    BY <1>10 DEF GameEffect, delta
  <2> QED BY <1>5, <1>7, <1>8, <1>10, <2>1 DEF risk
<1>11. CASE ~ PlayerOnly
  <2>1. GameEffect(b, rd, in, a) = (IF a = b.account THEN delta ELSE 0)
                                   - (IF a = House THEN delta ELSE 0)
    BY <1>11 DEF GameEffect, delta, Moved
  <2> QED BY <1>2, <1>5, <1>6, <1>7, <1>8, <1>11, <2>1 DEF risk
<1> QED BY <1>10, <1>11

(* The part of a reservation that its fee adds. *)
FeeReserved(b, rl, a) ==
  (IF a = b.account /\ ~ PlayerOnly /\ rl.feeTiming = "settlement" THEN b.fee ELSE 0)
  + (IF a = rl.feeRecipient /\ rl.feeTiming = "acceptance" /\ rl.voidFee = "refund"
     THEN b.fee ELSE 0)

(* ... covers what leaves an account as a fee, or comes back. *)
LEMMA FeeCovered ==
  ASSUME NEW b \in Bet, NEW rd \in Round, NEW in \in Input, RefundReserved(rd, in), NEW a
  PROVE  /\ FeeReserved(b, rd.rules, a) \in Nat
         /\ Moved(b.account, rd.rules.feeRecipient, FeeMove(b, rd, in), a)
              + FeeReserved(b, rd.rules, a) >= 0
<1>1. b.fee \in Nat
  BY DEF Bet
<1>2. FeeReserved(b, rd.rules, a) \in Nat
  BY <1>1 DEF FeeReserved
<1>3. LineFee(b, rd, in) \in Nat /\ LineFee(b, rd, in) <= b.fee
  BY <1>1 DEF LineFee
<1> DEFINE move == FeeMove(b, rd, in)
<1>4. CASE PlayerOnly \/ rd.rules.feeTiming \notin {"settlement", "acceptance"}
  <2>1. move = 0
    BY <1>4 DEF FeeMove
  <2> QED BY <1>2, <2>1 DEF Moved
<1>5. CASE ~ PlayerOnly /\ rd.rules.feeTiming = "settlement"
  <2>1. move = LineFee(b, rd, in)
    BY <1>5 DEF FeeMove
  <2>2. FeeReserved(b, rd.rules, a) = IF a = b.account THEN b.fee ELSE 0
    BY <1>1, <1>5 DEF FeeReserved
  <2> HIDE DEF move
  <2>3. Moved(b.account, rd.rules.feeRecipient, move, a)
          + FeeReserved(b, rd.rules, a) >= 0
    BY <1>1, <1>3, <2>1, <2>2 DEF Moved
  <2> QED BY <1>2, <2>3 DEF move
<1>6. CASE ~ PlayerOnly /\ rd.rules.feeTiming = "acceptance"
  <2>1. CASE LineFee(b, rd, in) # 0 \/ b.fee = 0
    <3>1. move = 0
      BY <1>6, <2>1 DEF FeeMove
    <3> QED BY <1>2, <3>1 DEF Moved
  <2>2. CASE LineFee(b, rd, in) = 0 /\ b.fee # 0
    <3>1. rd.rules.voidFee = "refund"
      BY <1>1, <1>6, <2>2 DEF LineFee, RefundReserved
    <3>2. move = - b.fee
      BY <1>6, <2>2 DEF FeeMove
    <3>3. FeeReserved(b, rd.rules, a) = IF a = rd.rules.feeRecipient THEN b.fee ELSE 0
      BY <1>1, <1>6, <3>1 DEF FeeReserved
    <3> HIDE DEF move
    <3>4. Moved(b.account, rd.rules.feeRecipient, move, a)
            + FeeReserved(b, rd.rules, a) >= 0
      BY <1>1, <3>2, <3>3 DEF Moved
    <3> QED BY <1>2, <3>4 DEF move
  <2> QED BY <2>1, <2>2
<1> QED BY <1>4, <1>5, <1>6

(* One bet takes from no account more than its release gives back. *)
LEMMA BetCovered ==
  ASSUME NEW b \in Bet, NEW rd \in Round, rd.banker \in Positions, NEW in \in Input,
         RefundReserved(rd, in), NEW a
  PROVE  /\ Release(b, rd.rules, a) \in Nat
         /\ GameEffect(b, rd, in, a) + Release(b, rd.rules, a) >= 0
         /\ Effect(b, rd, in, a) + Release(b, rd.rules, a) >= 0
<1> DEFINE rl   == rd.rules
           move == Moved(b.account, rl.feeRecipient, FeeMove(b, rd, in), a)
           game == GameEffect(b, rd, in, a)
           held == (IF a = b.account THEN riskFor(b.stake, MaxRate(rl.loss)) ELSE 0)
                   + (IF a = House THEN Exposure(b, rl) ELSE 0)
           fees == FeeReserved(b, rl, a)
<1>1. rl \in ValidRuleSets /\ b.fee \in Nat /\ b.stake \in Nat
  BY DEF Round, Bet
<1>2. Release(b, rl, a) \in Nat
  BY <1>1, HoldNat
<1>3. held \in Nat /\ riskFor(b.stake, MaxRate(rl.loss)) \in Nat /\ Exposure(b, rl) \in Nat
  <2>1. rl.payout \in [Ranks -> Rates] /\ rl.loss \in [Ranks -> Rates]
    BY <1>1, RateTypes
  <2>2. riskFor(b.stake, MaxRate(rl.loss)) \in Nat
    BY <1>1, <2>1, RiskCovers
  <2>3. Exposure(b, rl) \in Nat
    BY <1>1, <2>1, MaxRateBounds, ExposureNat DEF Exposure
  <2> QED BY <2>2, <2>3
<1>4. game \in Int /\ Effect(b, rd, in, a) \in Int /\ Effect(b, rd, in, a) = game + move
  BY EffectInt DEF Effect
<1>5. move \in Int
  <2>1. LineFee(b, rd, in) \in Nat
    BY <1>1 DEF LineFee
  <2>2. FeeMove(b, rd, in) \in Int
    BY <1>1, <2>1 DEF FeeMove
  <2> QED BY <2>2 DEF Moved
<1>6. game + held >= 0
  BY GameCovered
<1>7. fees \in Nat /\ move + fees >= 0
  BY FeeCovered
<1>8. Release(b, rl, a) = held + fees
  BY <1>1, <1>3 DEF Release, ReserveReleased, FeeReserved
<1> HIDE DEF game, held, fees, move, rl
<1>9. game + Release(b, rl, a) >= 0 /\ Effect(b, rd, in, a) + Release(b, rl, a) >= 0
  BY <1>3, <1>4, <1>5, <1>6, <1>7, <1>8
<1> QED BY <1>2, <1>9 DEF rl, game

(* A sum of which only one term counts. *)
LEMMA SumSingle ==
  ASSUME NEW w \in [Nat -> Int], NEW n \in Nat, NEW m \in 1 .. n,
         \A i \in 1 .. n : i # m => w[i] = 0
  PROVE  SumTo(w, n) = w[m]
<1> DEFINE S == { j \in Nat : j <= n => SumTo(w, j) = IF m <= j THEN w[m] ELSE 0 }
<1>1. 0 \in S
  BY SumStep
<1>2. ASSUME NEW j \in Nat, j \in S PROVE j + 1 \in S
  <2> SUFFICES ASSUME j + 1 <= n
               PROVE  SumTo(w, (j + 1)) = IF m <= j + 1 THEN w[m] ELSE 0
    OBVIOUS
  <2>1. j + 1 \in 1 .. n /\ SumTo(w, j) = IF m <= j THEN w[m] ELSE 0
    BY <1>2
  <2>2. SumTo(w, (j + 1)) = SumTo(w, j) + w[j + 1] /\ w[m] \in Int /\ w[j + 1] \in Int
    BY SumStep
  <2> QED BY <2>1, <2>2
<1>3. \A j \in Nat : j \in S
  <2> HIDE DEF S
  <2> QED BY <1>1, <1>2, NatSetInduction
<1> QED BY <1>3

(* Two sums of which each pair of terms makes no loss make none together. *)
LEMMA SumCovers ==
  ASSUME NEW v \in [Nat -> Int], NEW w \in [Nat -> Int], NEW n \in Nat,
         \A i \in 1 .. n : v[i] + w[i] >= 0
  PROVE  /\ SumTo(v, n) \in Int /\ SumTo(w, n) \in Int
         /\ SumTo(v, n) + SumTo(w, n) >= 0
<1> DEFINE S == { j \in Nat : j <= n => SumTo(v, j) + SumTo(w, j) >= 0 }
<1>1. 0 \in S
  BY SumStep
<1>2. ASSUME NEW j \in Nat, j \in S PROVE j + 1 \in S
  <2> SUFFICES ASSUME j + 1 <= n PROVE SumTo(v, (j + 1)) + SumTo(w, (j + 1)) >= 0
    OBVIOUS
  <2>1. j + 1 \in 1 .. n /\ SumTo(v, j) + SumTo(w, j) >= 0
    BY <1>2
  <2>2. v[j + 1] + w[j + 1] >= 0 /\ v[j + 1] \in Int /\ w[j + 1] \in Int
    BY <2>1
  <2> QED BY <2>1, <2>2, SumStep
<1>3. \A j \in Nat : j \in S
  <2> HIDE DEF S
  <2> QED BY <1>1, <1>2, NatSetInduction
<1> QED BY <1>3, SumStep

-----------------------------------------------------------------------------
(* No account but the outside world is ever short of what it has locked. *)
Solvent == \A a \in Accounts \ {External} : balance[a] >= locked[a]

(* What makes every settlement possible: the tables and solvency. *)
SolventInv == TablesInv /\ Solvent

(* Adjust debits no account below its locks, except the outside world. *)
LEMMA AdjustSolvent ==
  ASSUME TypeOK, Solvent, NEW c \in Accounts, NEW delta \in Deltas, Adjust(c, delta)
  PROVE  Solvent'
<1>1. delta \in Int /\ balance \in [Accounts -> Int] /\ locked \in [Accounts -> Nat]
  BY ConstantsAssumption DEF TypeOK
<1>2. locked' = locked /\ c # External
  BY DEF Adjust
<1> SUFFICES ASSUME NEW a \in Accounts \ {External} PROVE balance'[a] >= locked[a]
  BY <1>2 DEF Solvent
<1>3. balance[a] >= locked[a] /\ balance[a] \in Int /\ locked[a] \in Int
  BY <1>1 DEF Solvent
<1>4. CASE PlayerOnly
  <2>1. /\ balance' = [balance EXCEPT ![c] = @ + delta]
        /\ delta < 0 => balance[c] + delta >= locked[c]
    BY <1>4 DEF Adjust
  <2> QED BY <1>1, <1>3, <2>1
<1>5. CASE ~ PlayerOnly
  <2>1. /\ balance' = [k \in Accounts |-> balance[k] + Moved(External, c, delta, k)]
        /\ CanMove(balance, locked, External, c, delta)
    BY <1>5 DEF Adjust
  <2>2. balance'[a] = balance[a] + IF a = c THEN delta ELSE 0
    BY <1>1, <1>2, <1>3, <2>1 DEF Moved
  <2>3. ASSUME delta < 0 PROVE balance[c] - locked[c] >= - delta
    BY <1>1, <1>2, <2>1, <2>3 DEF CanMove, CanTransfer
  <2> QED BY <1>1, <1>3, <2>2, <2>3
<1> QED BY <1>4, <1>5

(* A bet locks what it may take at its player, so that there is a lock there. *)
LEMMA PlaceBetSolvent ==
  ASSUME TypeOK, Solvent, NEW r \in DOMAIN rounds, NEW p \in Players,
         NEW pos \in Positions, NEW stake \in Stakes, PlaceBet(r, p, pos, stake)
  PROVE  Solvent'
<1> DEFINE rl     == rounds[r].rules
           b      == [round |-> r, account |-> p, position |-> pos, stake |-> stake,
                      fee |-> IF PlayerOnly THEN 0 ELSE fee(stake),
                      state |-> "RESERVED", delta |-> 0]
           atOnce == IF ~ PlayerOnly /\ rl.feeTiming # "settlement" THEN b.fee ELSE 0
           after  == [a \in Accounts |-> balance[a] + Moved(p, rl.feeRecipient, atOnce, a)]
<1>1. stake \in Nat \ {0} /\ fee(stake) \in Nat /\ r \in Nat
  BY ConstantsAssumption, FeeNat, SeqFacts DEF TypeOK
<1>2. b \in Bet /\ b.stake = stake /\ b.account = p /\ b.fee \in Nat
  BY <1>1 DEF Bet
<1>3. rl \in ValidRuleSets
  <2>1. rounds[r] \in Round
    BY SeqFacts DEF TypeOK
  <2> QED BY <2>1 DEF Round
<1>4. /\ balance' = after /\ locked' = [a \in Accounts |-> locked[a] + Hold(b, rl, a)]
      /\ \A a \in Accounts : Hold(b, rl, a) > 0 => locked[a] + Hold(b, rl, a) <= after[a]
  BY DEF PlaceBet
<1>5. atOnce \in Nat
  BY <1>2
<1> SUFFICES ASSUME NEW a \in Accounts \ {External} PROVE balance'[a] >= locked'[a]
  BY DEF Solvent
<1>6. balance[a] >= locked[a] /\ balance[a] \in Int /\ locked[a] \in Int
  BY DEF Solvent, TypeOK
<1>7. Hold(b, rl, a) \in Nat
  <2> HIDE DEF b, rl
  <2> QED BY <1>2, <1>3, HoldNat
<1>8. a = p => Hold(b, rl, a) > 0
  <2> SUFFICES ASSUME a = p PROVE Hold(b, rl, p) > 0
    BY <1>7
  <2>1. rl.loss \in [Ranks -> Rates] /\ rl.payout \in [Ranks -> Rates]
    BY <1>3, RateTypes
  <2> HIDE DEF b, rl
  <2>2. riskFor(stake, MaxRate(rl.loss)) \in Nat /\ riskFor(stake, MaxRate(rl.loss)) >= stake
    BY <1>1, <2>1, RiskCovers
  <2>3. Exposure(b, rl) \in Nat
    <3>1. MaxRate(rl.payout) \in Nat /\ b.stake \in Nat
      BY <1>1, <1>2, <2>1, MaxRateBounds
    <3>2. exposureFor(b.stake, MaxRate(rl.payout)) \in Nat
      BY <3>1, ExposureNat
    <3> QED BY <3>2 DEF Exposure
  <2>4. Reserve(b, rl) \in Nat /\ Reserve(b, rl) >= stake
    BY <1>1, <1>2, <2>2 DEF Reserve
  <2> QED BY <1>1, <1>2, <2>3, <2>4 DEF Hold
<1>9. a # p => Moved(p, rl.feeRecipient, atOnce, a) >= 0
  <2> HIDE DEF atOnce, rl
  <2> QED BY <1>5 DEF Moved
<1>10. after[a] = balance[a] + Moved(p, rl.feeRecipient, atOnce, a)
       /\ Moved(p, rl.feeRecipient, atOnce, a) \in Int
  <2> HIDE DEF atOnce, rl
  <2> QED BY <1>5 DEF Moved
<1>11. locked'[a] = locked[a] + Hold(b, rl, a) /\ balance'[a] = after[a]
  BY <1>4
<1> HIDE DEF b, rl, atOnce, after
<1>12. CASE Hold(b, rl, a) > 0
  BY <1>4, <1>11, <1>12
<1>13. CASE ~ (Hold(b, rl, a) > 0)
  BY <1>6, <1>7, <1>8, <1>9, <1>10, <1>11, <1>13
<1> QED BY <1>12, <1>13

(* The steps that change a balance or a lock. *)
LEMMA BalanceSteps ==
  ASSUME [Next]_vars
  PROVE  \/ UNCHANGED <<balance, locked>>
         \/ \E a \in Accounts, delta \in Deltas : Adjust(a, delta)
         \/ \E r \in DOMAIN rounds, p \in Players, pos \in Positions, stake \in Stakes :
              PlaceBet(r, p, pos, stake)
         \/ \E r \in DOMAIN rounds, in \in Inputs : Settle(r, in) \/ CancelRound(r, in)
BY DEF Next, vars, Contact, SetPlayer, SaveRules, Restart, CreateDraft,
       Configure, OpenRound, CloseRound, Preview

(* Every step keeps the accounts solvent. *)
LEMMA NextSolvent == SolventInv /\ [Next]_vars => SolventInv'
<1> SUFFICES ASSUME SolventInv, [Next]_vars PROVE SolventInv'
  OBVIOUS
<1>1. TablesInv /\ TypeOK /\ BankerChosen /\ Solvent /\ TablesInv'
  BY NextTables DEF SolventInv, TablesInv
<1>2. CASE UNCHANGED <<balance, locked>>
  BY <1>1, <1>2 DEF SolventInv, Solvent
<1>3. CASE \E a \in Accounts, delta \in Deltas : Adjust(a, delta)
  BY <1>1, <1>3, AdjustSolvent DEF SolventInv
<1>4. CASE \E r \in DOMAIN rounds, p \in Players, pos \in Positions, stake \in Stakes :
             PlaceBet(r, p, pos, stake)
  BY <1>1, <1>4, PlaceBetSolvent DEF SolventInv
<1>5. CASE \E r \in DOMAIN rounds, in \in Inputs : Settle(r, in) \/ CancelRound(r, in)
  <2>1. PICK r \in DOMAIN rounds, in \in Inputs : Settle(r, in) \/ CancelRound(r, in)
    BY <1>5
  <2>2. PICK rd \in Round : Finish(r, rd, in)
    BY <1>1, <2>1, FinishedRow
  <2>3. /\ \A a \in Accounts : RowOK(BalanceAfter(r, rd, in), LockedAfter(r), a)
        /\ balance' = BalanceAfter(r, rd, in) /\ locked' = LockedAfter(r)
    BY <2>2 DEF Finish
  <2>4. Solvent'
    BY <2>3 DEF Solvent, RowOK
  <2> QED BY <1>1, <2>4 DEF SolventInv
<1> QED BY <1>2, <1>3, <1>4, <1>5, BalanceSteps

(* Hence they are, in every state. *)
LEMMA SolventInvariant == Spec => []SolventInv
<1>1. Init => SolventInv
  <2> SUFFICES ASSUME Init PROVE SolventInv
    OBVIOUS
  <2>1. \A a \in Accounts : balance[a] = 0 /\ locked[a] = 0
    BY DEF Init
  <2> QED BY <2>1, InitTables DEF SolventInv, Solvent
<1> QED BY <1>1, NextSolvent, PTL DEF Spec

(* Postings that each take no more than their bet's release gives back     *)
(* leave what stays locked covered.                                        *)
LEMMA CoveredSum ==
  ASSUME TypeOK, BetsMatchRound, Solvent, NEW r, NEW a \in Accounts \ {External},
         NEW e \in [Nat -> Int],
         \A j \in 1 .. Len(bets) :
           e[j] + (IF j \in BetsOf(r) THEN Release(bets[j], RulesOf(bets[j]), a) ELSE 0) >= 0
  PROVE  balance[a] + SumTo(e, Len(bets)) >= LockedAfter(r)[a]
<1> DEFINE w == [i \in Nat |-> IF i \in BetsOf(r) THEN Release(bets[i], RulesOf(bets[i]), a)
                               ELSE 0]
           n == Len(bets)
<1>1. ASSUME NEW i \in BetsOf(r) PROVE Release(bets[i], RulesOf(bets[i]), a) \in Int
  <2>1. i \in DOMAIN bets /\ bets[i] \in Bet
    BY SeqFacts DEF BetsOf, TypeOK
  <2>2. RulesOf(bets[i]) \in ValidRuleSets
    <3>1. bets[i].round \in DOMAIN rounds
      BY <2>1 DEF BetsMatchRound
    <3>2. rounds[bets[i].round] \in Round
      BY <3>1, SeqFacts DEF TypeOK
    <3> QED BY <3>2 DEF RulesOf, Round
  <2> QED BY <2>1, <2>2, HoldNat
<1>2. w \in [Nat -> Int]
  BY <1>1
<1>3. n \in Nat /\ DOMAIN bets = 1 .. n
  BY SeqFacts DEF TypeOK
<1>4. \A i \in 1 .. n : e[i] + w[i] >= 0
  OBVIOUS
<1>5. LockedAfter(r)[a] = locked[a] - SumTo(w, n)
  BY DEF LockedAfter, ReleasedBy
<1> HIDE DEF w, n
<1>6. SumTo(e, n) \in Int /\ SumTo(w, n) \in Int /\ SumTo(e, n) + SumTo(w, n) >= 0
  BY <1>2, <1>3, <1>4, SumCovers
<1>7. balance[a] \in Int /\ locked[a] \in Int /\ balance[a] >= locked[a]
  BY DEF Solvent, TypeOK
<1>8. balance[a] + SumTo(e, n) >= LockedAfter(r)[a]
  BY <1>5, <1>6, <1>7
<1> QED BY <1>8 DEF n

(* Any part of the bets settled, and any one more with its fee to come, *)
(* leaves an account with what stays locked on it.                      *)
LEMMA AnyResultCovered ==
  ASSUME SolventInv, NEW r \in DOMAIN rounds, NEW rd \in Round, rd.banker \in Positions,
         rd.rules = rounds[r].rules, NEW in \in Input, RefundReserved(rd, in),
         NEW S, NEW a \in Accounts \ {External}
  PROVE  /\ BalanceWhen(r, rd, in, S)[a] >= LockedAfter(r)[a]
         /\ \A i \in BetsOf(r) :
              i \notin S => BalanceMid(r, rd, in, S, i)[a] >= LockedAfter(r)[a]
<1> DEFINE w == EffectWeights(r, rd, in, S, a)
           n == Len(bets)
<1>1. /\ TypeOK /\ BetsMatchRound /\ Solvent /\ a \in Accounts
      /\ n \in Nat /\ DOMAIN bets = 1 .. n
  BY SeqFacts DEF SolventInv, TablesInv, TypeOK
<1>2. \A j \in BetsOf(r) :
        /\ Release(bets[j], RulesOf(bets[j]), a) \in Nat
        /\ GameEffect(bets[j], rd, in, a) \in Int /\ Effect(bets[j], rd, in, a) \in Int
        /\ GameEffect(bets[j], rd, in, a) + Release(bets[j], RulesOf(bets[j]), a) >= 0
        /\ Effect(bets[j], rd, in, a) + Release(bets[j], RulesOf(bets[j]), a) >= 0
  <2> SUFFICES ASSUME NEW j \in BetsOf(r)
               PROVE  /\ Release(bets[j], RulesOf(bets[j]), a) \in Nat
                      /\ GameEffect(bets[j], rd, in, a) \in Int
                      /\ Effect(bets[j], rd, in, a) \in Int
                      /\ GameEffect(bets[j], rd, in, a)
                           + Release(bets[j], RulesOf(bets[j]), a) >= 0
                      /\ Effect(bets[j], rd, in, a)
                           + Release(bets[j], RulesOf(bets[j]), a) >= 0
    OBVIOUS
  <2>1. bets[j] \in Bet /\ RulesOf(bets[j]) = rd.rules
    BY <1>1, SeqFacts DEF BetsOf, TypeOK, RulesOf
  <2>2. GameEffect(bets[j], rd, in, a) \in Int /\ Effect(bets[j], rd, in, a) \in Int
    BY <2>1, EffectInt
  <2> QED BY <2>1, <2>2, BetCovered
<1>3. w \in [Nat -> Int]
  BY <1>1, EffectWeightsInt
<1>4. \A j \in 1 .. n : w[j] = IF j \in BetsOf(r) /\ j \in S
                               THEN Effect(bets[j], rd, in, a) ELSE 0
  BY DEF EffectWeights
<1>5. BalanceWhen(r, rd, in, S)[a] = balance[a] + SumTo(w, n)
  BY <1>1, BalanceIsSum
<1>6. balance[a] \in Int /\ SumTo(w, n) \in Int
  BY <1>1, <1>3, SumStep DEF TypeOK
<1> HIDE DEF w
<1>7. BalanceWhen(r, rd, in, S)[a] >= LockedAfter(r)[a]
  <2>1. \A j \in 1 .. n :
          w[j] + (IF j \in BetsOf(r) THEN Release(bets[j], RulesOf(bets[j]), a) ELSE 0) >= 0
    BY <1>2, <1>4
  <2> QED BY <1>1, <1>3, <1>5, <2>1, CoveredSum
<1>8. ASSUME NEW i \in BetsOf(r), i \notin S
      PROVE  BalanceMid(r, rd, in, S, i)[a] >= LockedAfter(r)[a]
  <2> DEFINE u == [j \in Nat |-> IF j = i THEN GameEffect(bets[i], rd, in, a) ELSE 0]
             e == [j \in Nat |-> w[j] + u[j]]
  <2>1. i \in 1 .. n
    BY <1>1 DEF BetsOf
  <2>2. u \in [Nat -> Int] /\ u[i] = GameEffect(bets[i], rd, in, a)
        /\ \A j \in 1 .. n : j # i => u[j] = 0
    BY <1>2, <2>1
  <2>3. e \in [Nat -> Int] /\ \A j \in 1 .. n : e[j] = w[j] + u[j]
    <3> HIDE DEF u
    <3> QED BY <1>3, <2>2
  <2>4. \A j \in 1 .. n :
          e[j] + (IF j \in BetsOf(r) THEN Release(bets[j], RulesOf(bets[j]), a) ELSE 0) >= 0
    <3> HIDE DEF u, e
    <3> SUFFICES ASSUME NEW j \in 1 .. n
                 PROVE  e[j] + (IF j \in BetsOf(r)
                                THEN Release(bets[j], RulesOf(bets[j]), a) ELSE 0) >= 0
      OBVIOUS
    <3>1. e[j] = w[j] + u[j]
      BY <2>3
    <3>2. CASE j = i
      <4>1. w[j] = 0
        BY <1>4, <1>8, <3>2
      <4> QED BY <1>2, <2>2, <3>1, <3>2, <4>1
    <3>3. CASE j # i
      <4>1. u[j] = 0
        BY <2>2, <3>3
      <4> QED BY <1>2, <1>4, <3>1, <4>1, SMTT(30)
    <3> QED BY <3>2, <3>3
  <2>10. n \in Nat
    BY <1>1
  <2> HIDE DEF u, e, n
  <2>5. SumTo(u, n) = GameEffect(bets[i], rd, in, a)
    BY <2>1, <2>2, <2>10, SumSingle
  <2>6. SumTo(e, n) = SumTo(w, n) + SumTo(u, n)
    BY <1>3, <2>2, <2>3, <2>10, SumAdd
  <2>7. BalanceMid(r, rd, in, S, i)[a]
          = BalanceWhen(r, rd, in, S)[a] + GameEffect(bets[i], rd, in, a)
    BY <1>1 DEF BalanceMid
  <2>8. BalanceMid(r, rd, in, S, i)[a] = balance[a] + SumTo(e, n)
    BY <1>2, <1>5, <1>6, <2>5, <2>6, <2>7
  <2>9. balance[a] + SumTo(e, n) >= LockedAfter(r)[a]
    BY <1>1, <2>3, <2>4, CoveredSum DEF n
  <2> QED BY <2>8, <2>9
<1> QED BY <1>7, <1>8

(* A solvent state is one whose closed rounds can all be settled. *)
LEMMA CoveredState == SolventInv => SettlementCovered
<1> SUFFICES ASSUME SolventInv, NEW r \in DOMAIN rounds, NEW in \in Inputs,
                    rounds[r].state \in {"OPEN", "CLOSED"},
                    RefundReserved(Closed(rounds[r]), in),
                    NEW S \in SUBSET BetsOf(r), NEW i \in BetsOf(r),
                    NEW a \in Accounts \ {External}, i \notin S
             PROVE  /\ BalanceMid(r, Closed(rounds[r]), in, S, i)[a] >= LockedAfter(r)[a]
                    /\ BalanceWhen(r, Closed(rounds[r]), in, S \cup {i})[a]
                         >= LockedAfter(r)[a]
  BY DEF SettlementCovered
<1> DEFINE rd == Closed(rounds[r])
<1>1. rounds[r] \in Round /\ rounds[r].banker \in Positions /\ in \in Input
  <2>1. rounds[r] \in Round
    BY SeqFacts DEF SolventInv, TablesInv, TypeOK
  <2> QED BY <2>1, ConstantsAssumption DEF SolventInv, TablesInv, BankerChosen, Round
<1>2. rd \in Round /\ rd.banker \in Positions /\ rd.rules = rounds[r].rules
  BY <1>1, ClosedType
<1> HIDE DEF rd
<1>3. BalanceMid(r, rd, in, S, i)[a] >= LockedAfter(r)[a]
  BY <1>1, <1>2, AnyResultCovered DEF rd
<1>4. BalanceWhen(r, rd, in, S \cup {i})[a] >= LockedAfter(r)[a]
  BY <1>1, <1>2, AnyResultCovered DEF rd
<1> QED BY <1>3, <1>4 DEF rd

(* Whatever the result, and in whatever order the bets are settled, no       *)
(* posting takes from an account what it needs for the locks that stay: the  *)
(* reservations of PlaceBet are large enough for every stake, rate and       *)
(* number of bets, whatever operators add, take or save in between.          *)
THEOREM SettlementIsCovered == Spec => []SettlementCovered
BY SolventInvariant, CoveredState, PTL

-----------------------------------------------------------------------------
(* No balance leaves the safe range *)

InRange(bal) == \A a \in Accounts : bal[a] \in Int /\ bal[a] >= - MoneyLimit /\ bal[a] <= MoneyLimit

RangeInv == SolventInv /\ InRange(balance)

(* transfer's checks keep both sides in the range. *)
LEMMA MoveInRange ==
  ASSUME NEW bal, InRange(bal), NEW lck, NEW from, NEW to, NEW amount \in Int,
         CanMove(bal, lck, from, to, amount), NEW new,
         \A a \in Accounts : new[a] = bal[a] + Moved(from, to, amount, a)
  PROVE  InRange(new)
<1> SUFFICES ASSUME NEW a \in Accounts
             PROVE  new[a] \in Int /\ new[a] >= - MoneyLimit /\ new[a] <= MoneyLimit
  BY DEF InRange
<1>1. /\ bal[a] \in Int /\ bal[a] >= - MoneyLimit /\ bal[a] <= MoneyLimit
      /\ new[a] = bal[a] + Moved(from, to, amount, a)
      /\ MoneyLimit \in Nat
  BY ConstantsAssumption DEF InRange
<1>2. ASSUME amount > 0
      PROVE  from # to /\ bal[from] - amount >= - MoneyLimit /\ bal[to] + amount <= MoneyLimit
  BY <1>2 DEF CanMove, CanTransfer
<1>3. ASSUME amount < 0
      PROVE  /\ from # to /\ bal[to] - (- amount) >= - MoneyLimit
             /\ bal[from] + (- amount) <= MoneyLimit
  BY <1>3 DEF CanMove, CanTransfer
<1>4. CASE amount = 0
  BY <1>1, <1>4 DEF Moved
<1>5. CASE amount > 0
  BY <1>1, <1>2, <1>5 DEF Moved
<1>6. CASE amount < 0
  BY <1>1, <1>3, <1>6 DEF Moved
<1> QED BY <1>4, <1>5, <1>6

(* Adjust checks the new balance against the limit. *)
LEMMA AdjustInRange ==
  ASSUME RangeInv, NEW c \in Accounts, NEW delta \in Deltas, Adjust(c, delta)
  PROVE  InRange(balance')
<1>1. /\ delta \in Int /\ balance \in [Accounts -> Int] /\ locked \in [Accounts -> Nat]
      /\ MoneyLimit \in Nat /\ InRange(balance)
  BY ConstantsAssumption DEF RangeInv, SolventInv, TablesInv, TypeOK
<1>2. CASE PlayerOnly
  <2>1. /\ balance' = [balance EXCEPT ![c] = @ + delta]
        /\ balance[c] + delta <= MoneyLimit
        /\ delta < 0 => balance[c] + delta >= locked[c]
    BY <1>2 DEF Adjust
  <2>2. locked[c] \in Nat /\ balance[c] \in Int /\ balance[c] >= - MoneyLimit
    BY <1>1 DEF InRange
  <2>3. balance[c] + delta >= - MoneyLimit
    BY <1>1, <2>1, <2>2
  <2> QED BY <1>1, <2>1, <2>2, <2>3 DEF InRange
<1>3. CASE ~ PlayerOnly
  <2>1. /\ CanMove(balance, locked, External, c, delta)
        /\ \A a \in Accounts : balance'[a] = balance[a] + Moved(External, c, delta, a)
    BY <1>3 DEF Adjust
  <2> QED BY <1>1, <2>1, MoveInRange
<1> QED BY <1>2, <1>3

(* A fee taken at acceptance is money that is there. *)
LEMMA PlaceBetInRange ==
  ASSUME RangeInv, NEW r \in DOMAIN rounds, NEW p \in Players,
         NEW pos \in Positions, NEW stake \in Stakes, PlaceBet(r, p, pos, stake)
  PROVE  InRange(balance')
<1> DEFINE rl     == rounds[r].rules
           charge == IF PlayerOnly THEN 0 ELSE fee(stake)
           atOnce == IF ~ PlayerOnly /\ rl.feeTiming # "settlement" THEN charge ELSE 0
<1>1. atOnce \in Nat
  <2>1. stake \in Int
    BY ConstantsAssumption
  <2> QED BY <2>1, FeeNat
<1>2. /\ CanTransfer(balance, locked, p, rl.feeRecipient, atOnce)
      /\ balance' = [a \in Accounts |-> balance[a] + Moved(p, rl.feeRecipient, atOnce, a)]
  BY DEF PlaceBet
<1> HIDE DEF atOnce, rl
<1>3. CanMove(balance, locked, p, rl.feeRecipient, atOnce)
  BY <1>1, <1>2 DEF CanMove
<1>4. \A a \in Accounts : balance'[a] = balance[a] + Moved(p, rl.feeRecipient, atOnce, a)
  BY <1>2
<1> QED BY <1>1, <1>3, <1>4, MoveInRange DEF RangeInv

(* One posting that goes through keeps every balance in the range. *)
LEMMA PostingInRange ==
  ASSUME TypeOK, BetsMatchRound, NEW r, NEW rd \in Round, rd.banker \in Positions,
         NEW in \in Input, NEW i \in BetsOf(r), NEW S, i \notin S,
         InRange(BalanceWhen(r, rd, in, S)), PostingOK(r, rd, in, S, i), NEW new,
         \A a \in Accounts : new[a] = BalanceWhen(r, rd, in, S)[a] + Effect(bets[i], rd, in, a)
  PROVE  InRange(new)
<1> DEFINE b   == bets[i]
           bal == BalanceWhen(r, rd, in, S)
           mid == BalanceMid(r, rd, in, S, i)
           lck == LockedAfter(r)
<1>1. b \in Bet /\ b.account \in Players /\ b.account \in Accounts
      /\ b.account # House /\ b.account # External
  <2>1. b \in Bet
    BY SeqFacts DEF BetsOf, TypeOK
  <2>2. b.account \in Players
    BY <2>1 DEF Bet
  <2> QED BY <2>1, <2>2, ConstantsAssumption DEF Accounts, Operators
<1>2. GameDelta(b, rd, in) \in Int /\ \A a : GameEffect(b, rd, in, a) \in Int
  BY <1>1, GameDeltaInt, EffectInt
<1>3. FeeMove(b, rd, in) \in Int
  <2>1. b.fee \in Nat
    BY <1>1 DEF Bet
  <2>2. LineFee(b, rd, in) \in Nat
    BY <2>1 DEF LineFee
  <2> QED BY <2>1, <2>2 DEF FeeMove
<1>4. \A a \in Accounts : mid[a] = bal[a] + GameEffect(b, rd, in, a)
  BY DEF BalanceMid
<1>5. MoneyLimit \in Nat
  BY ConstantsAssumption
<1> HIDE DEF bal, mid, lck, b
<1>6. CASE PlayerOnly
  <2>1. mid[b.account] <= MoneyLimit /\ lck[b.account] >= 0 /\ mid[b.account] >= lck[b.account]
    BY <1>1, <1>6 DEF PostingOK, RowOK, b, mid, lck
  <2>2. \A a \in Accounts :
          /\ new[a] = bal[a] + Effect(b, rd, in, a)
          /\ Effect(b, rd, in, a) = IF a = b.account THEN GameDelta(b, rd, in) ELSE 0
          /\ GameEffect(b, rd, in, a) = IF a = b.account THEN GameDelta(b, rd, in) ELSE 0
    BY <1>1, <1>6, PlayerEffect DEF bal, b
  <2>3. lck[b.account] \in Int
    <3>1. ReleasedBy(r, b.account) \in Int /\ locked[b.account] \in Int
      BY <1>1, ReleasedByInt DEF TypeOK
    <3> QED BY <1>1, <3>1 DEF lck, LockedAfter
  <2> QED BY <1>1, <1>2, <1>4, <1>5, <2>1, <2>2, <2>3 DEF InRange, bal
<1>7. CASE ~ PlayerOnly
  <2>1. /\ CanMove(bal, lck, House, b.account, GameDelta(b, rd, in))
        /\ CanMove(mid, lck, b.account, rd.rules.feeRecipient, FeeMove(b, rd, in))
    BY <1>7 DEF PostingOK, bal, mid, lck, b
  <2>2. \A a \in Accounts : mid[a] = bal[a] + Moved(House, b.account, GameDelta(b, rd, in), a)
    BY <1>4, <1>7 DEF GameEffect
  <2>3. InRange(mid)
    BY <1>2, <2>1, <2>2, MoveInRange DEF bal
  <2>4. \A a \in Accounts :
          new[a] = mid[a] + Moved(b.account, rd.rules.feeRecipient, FeeMove(b, rd, in), a)
    <3> SUFFICES ASSUME NEW a \in Accounts
                 PROVE  new[a] = mid[a] + Moved(b.account, rd.rules.feeRecipient,
                                                FeeMove(b, rd, in), a)
      OBVIOUS
    <3>1. new[a] = bal[a] + Effect(b, rd, in, a) /\ bal[a] \in Int
      BY DEF bal, b, InRange
    <3>2. GameEffect(b, rd, in, a) \in Int
      BY <1>2
    <3>3. Moved(b.account, rd.rules.feeRecipient, FeeMove(b, rd, in), a) \in Int
      BY <1>3 DEF Moved
    <3>4. mid[a] = bal[a] + GameEffect(b, rd, in, a)
      BY <1>4
    <3> QED BY <3>1, <3>2, <3>3, <3>4 DEF Effect
  <2> QED BY <1>3, <2>1, <2>3, <2>4, MoveInRange
<1> QED BY <1>6, <1>7

(* One posting more adds one bet's effect. *)
LEMMA OneMore ==
  ASSUME TypeOK, NEW r, NEW rd \in Round, rd.banker \in Positions, NEW in \in Input,
         NEW S, NEW i \in BetsOf(r), i \notin S, NEW T,
         \A j \in BetsOf(r) : j \in T <=> j \in S \/ j = i, NEW a \in Accounts
  PROVE  BalanceWhen(r, rd, in, T)[a] = BalanceWhen(r, rd, in, S)[a] + Effect(bets[i], rd, in, a)
<1> DEFINE n == Len(bets)
           w == EffectWeights(r, rd, in, S, a)
           v == EffectWeights(r, rd, in, T, a)
           x == Effect(bets[i], rd, in, a)
           u == [j \in Nat |-> IF j = i THEN x ELSE 0]
<1>1. n \in Nat /\ DOMAIN bets = 1 .. n /\ i \in 1 .. n /\ bets[i] \in Bet
  BY SeqFacts DEF TypeOK, BetsOf
<1>2. x \in Int
  BY <1>1, EffectInt
<1>3. w \in [Nat -> Int] /\ v \in [Nat -> Int]
  BY EffectWeightsInt
<1>4. /\ \A j \in 1 .. n : w[j] = IF j \in BetsOf(r) /\ j \in S
                                  THEN Effect(bets[j], rd, in, a) ELSE 0
      /\ \A j \in 1 .. n : v[j] = IF j \in BetsOf(r) /\ j \in T
                                  THEN Effect(bets[j], rd, in, a) ELSE 0
  BY DEF EffectWeights
<1>5. /\ BalanceWhen(r, rd, in, S)[a] = balance[a] + SumTo(w, n)
      /\ BalanceWhen(r, rd, in, T)[a] = balance[a] + SumTo(v, n)
  BY BalanceIsSum
<1>6. balance[a] \in Int
  BY DEF TypeOK
<1> HIDE DEF n, w, v
<1>7. u \in [Nat -> Int] /\ u[i] = x /\ \A j \in 1 .. n : j # i => u[j] = 0
  <2> HIDE DEF x
  <2> QED BY <1>1, <1>2
<1> HIDE DEF u
<1>8. \A j \in 1 .. n : v[j] = w[j] + u[j]
  <2> SUFFICES ASSUME NEW j \in 1 .. n PROVE v[j] = w[j] + u[j]
    OBVIOUS
  <2>0. j \in Nat /\ w[j] \in Int /\ v[j] \in Int
    BY <1>1, <1>3
  <2>1. CASE j = i
    <3>1. w[j] = 0 /\ v[j] = x
      BY <1>4, <2>1
    <3> HIDE DEF x
    <3> QED BY <1>2, <1>7, <2>1, <3>1
  <2>2. CASE j # i
    <3>1. w[j] = v[j]
      BY <1>4, <2>2
    <3> QED BY <1>7, <2>0, <2>2, <3>1
  <2> QED BY <2>1, <2>2
<1>9. SumTo(v, n) = SumTo(w, n) + SumTo(u, n)
  BY <1>1, <1>3, <1>7, <1>8, SumAdd
<1>10. SumTo(u, n) = x
  BY <1>1, <1>7, SumSingle
<1>11. SumTo(w, n) \in Int
  BY <1>1, <1>3, SumStep
<1> HIDE DEF x
<1>12. balance[a] + SumTo(v, n) = (balance[a] + SumTo(w, n)) + x
  BY <1>2, <1>6, <1>9, <1>10, <1>11
<1> QED BY <1>5, <1>12 DEF x

(* The bets that do not count change nothing. *)
LEMMA SameBets ==
  ASSUME NEW r, NEW rd, NEW in, NEW S, NEW T, \A j \in BetsOf(r) : j \in T <=> j \in S
  PROVE  BalanceWhen(r, rd, in, T) = BalanceWhen(r, rd, in, S)
<1>1. ASSUME NEW a \in Accounts
      PROVE  BalanceWhen(r, rd, in, T)[a] = BalanceWhen(r, rd, in, S)[a]
  <2>1. \A i \in Nat :
          (IF i \in BetsOf(r) /\ i \in T THEN Effect(bets[i], rd, in, a) ELSE 0)
            = (IF i \in BetsOf(r) /\ i \in S THEN Effect(bets[i], rd, in, a) ELSE 0)
    OBVIOUS
  <2>2. EffectWeights(r, rd, in, T, a) = EffectWeights(r, rd, in, S, a)
    BY <2>1 DEF EffectWeights
  <2> QED BY <2>2, BalanceIsSum
<1>2. \A X : BalanceWhen(r, rd, in, X) = [a \in Accounts |-> BalanceWhen(r, rd, in, X)[a]]
  BY DEF BalanceWhen
<1>3. /\ BalanceWhen(r, rd, in, T) = [a \in Accounts |-> BalanceWhen(r, rd, in, T)[a]]
      /\ BalanceWhen(r, rd, in, S) = [a \in Accounts |-> BalanceWhen(r, rd, in, S)[a]]
  BY <1>2
<1> QED BY <1>1, <1>3

(* A settlement checks the balance after each posting; the last one stands. *)
LEMMA FinishInRange ==
  ASSUME RangeInv, NEW r \in DOMAIN rounds, NEW rd \in Round, rd.banker \in Positions,
         NEW in \in Input, Finish(r, rd, in)
  PROVE  InRange(balance')
<1>1. TypeOK /\ BetsMatchRound /\ InRange(balance)
  BY DEF RangeInv, SolventInv, TablesInv
<1> DEFINE c == Cardinality(BetsOf(r))
<1>2. c \in Nat
  <2>0. Len(bets) \in Nat /\ DOMAIN bets = 1 .. Len(bets)
    BY <1>1, SeqFacts DEF TypeOK
  <2>1. IsFiniteSet(1 .. Len(bets)) /\ BetsOf(r) \subseteq 1 .. Len(bets)
    BY <2>0, FS_Interval DEF BetsOf
  <2>2. IsFiniteSet(BetsOf(r))
    BY <2>1, FS_Subset
  <2> QED BY <2>2, FS_CardinalityType
<1>3. PICK ord \in Orders(BetsOf(r)) :
        \A i \in BetsOf(r) :
          PostingOK(r, rd, in, { j \in BetsOf(r) : ord[j] < ord[i] }, i)
  BY DEF Finish
<1>4. /\ \A i \in BetsOf(r) : ord[i] \in 1 .. c
      /\ \A i, j \in BetsOf(r) : ord[i] = ord[j] => i = j
  BY <1>3 DEF Orders
<1> HIDE DEF c
<1>5. \A i \in BetsOf(r) : ord[i] \in Nat /\ ord[i] >= 1 /\ ord[i] <= c
  BY <1>2, <1>4
<1> DEFINE First(k) == { j \in BetsOf(r) : ord[j] <= k }
           Bal(k) == BalanceWhen(r, rd, in, First(k))
           Good == { k \in Nat : InRange(Bal(k)) }
<1>6. 0 \in Good
  <2>1. First(0) = {}
    BY <1>5
  <2>2. \A a \in Accounts : Bal(0)[a] = balance[a]
    <3> SUFFICES ASSUME NEW a \in Accounts PROVE Bal(0)[a] = balance[a]
      OBVIOUS
    <3> DEFINE w == EffectWeights(r, rd, in, {}, a)
    <3>1. w \in [Nat -> Int] /\ Len(bets) \in Nat
      BY <1>1, EffectWeightsInt, SeqFacts DEF TypeOK
    <3>2. \A i \in 1 .. Len(bets) : w[i] = 0
      BY DEF EffectWeights
    <3> HIDE DEF w
    <3>3. SumTo(w, Len(bets)) = 0
      BY <3>1, <3>2, SumZero
    <3>4. Bal(0)[a] = balance[a] + SumTo(w, Len(bets))
      BY <2>1, BalanceIsSum DEF w
    <3>5. balance[a] \in Int
      BY <1>1 DEF TypeOK
    <3> QED BY <3>3, <3>4, <3>5
  <2>3. InRange(Bal(0))
    <3> HIDE DEF Bal
    <3> QED BY <1>1, <2>2 DEF InRange
  <2> QED BY <2>3
<1>7. ASSUME NEW k \in Nat, k \in Good PROVE k + 1 \in Good
  <2>1. InRange(Bal(k))
    BY <1>7
  <2>2. CASE \A i \in BetsOf(r) : ord[i] # k + 1
    <3>1. \A j \in BetsOf(r) : j \in First(k + 1) <=> j \in First(k)
      BY <1>5, <2>2
    <3>2. Bal(k + 1) = Bal(k)
      <4> HIDE DEF First
      <4> QED BY <3>1, SameBets
    <3> HIDE DEF Bal
    <3> QED BY <2>1, <3>2
  <2>3. ASSUME NEW i \in BetsOf(r), ord[i] = k + 1 PROVE InRange(Bal(k + 1))
    <3>1. { j \in BetsOf(r) : ord[j] < ord[i] } = First(k)
      BY <1>5, <2>3
    <3>2. PostingOK(r, rd, in, First(k), i)
      BY <1>3, <3>1
    <3>3. i \notin First(k)
      BY <2>3
    <3>4. \A j \in BetsOf(r) : j \in First(k + 1) <=> (j \in First(k) \/ j = i)
      BY <1>4, <1>5, <2>3
    <3> HIDE DEF First
    <3>5. \A a \in Accounts : Bal(k + 1)[a] = Bal(k)[a] + Effect(bets[i], rd, in, a)
      BY <1>1, <3>3, <3>4, OneMore
    <3>6. InRange(BalanceWhen(r, rd, in, First(k)))
      BY <2>1
    <3>7. \A a \in Accounts :
            Bal(k + 1)[a] = BalanceWhen(r, rd, in, First(k))[a] + Effect(bets[i], rd, in, a)
      BY <3>5
    <3> DEFINE new == Bal(k + 1)
    <3> HIDE DEF Bal
    <3>8. \A a \in Accounts :
            new[a] = BalanceWhen(r, rd, in, First(k))[a] + Effect(bets[i], rd, in, a)
      BY <3>7
    <3> HIDE DEF new
    <3>9. InRange(new)
      BY <1>1, <3>2, <3>3, <3>6, <3>8, PostingInRange
    <3> QED BY <3>9 DEF new
  <2>4. InRange(Bal(k + 1))
    BY <2>2, <2>3
  <2> QED BY <2>4
<1>8. \A k \in Nat : k \in Good
  <2> HIDE DEF Good
  <2> QED BY <1>6, <1>7, NatSetInduction
<1>9. InRange(Bal(c))
  BY <1>2, <1>8
<1>10. \A j \in BetsOf(r) : j \in First(c) <=> j \in BetsOf(r)
  BY <1>5
<1>11. BalanceWhen(r, rd, in, BetsOf(r)) = BalanceWhen(r, rd, in, First(c))
  <2> HIDE DEF First
  <2> QED BY <1>10, SameBets
<1>12. balance' = BalanceWhen(r, rd, in, BetsOf(r))
  BY DEF Finish, BalanceAfter
<1> QED BY <1>9, <1>11, <1>12

(* Every step keeps the balances in range. *)
LEMMA NextRange == RangeInv /\ [Next]_vars => RangeInv'
<1> SUFFICES ASSUME RangeInv, [Next]_vars PROVE RangeInv'
  OBVIOUS
<1>1. TypeOK /\ BankerChosen /\ SolventInv' /\ InRange(balance)
  BY NextSolvent DEF RangeInv, SolventInv, TablesInv
<1>2. CASE UNCHANGED <<balance, locked>>
  BY <1>1, <1>2 DEF RangeInv, InRange
<1>3. CASE \E a \in Accounts, delta \in Deltas : Adjust(a, delta)
  <2>1. InRange(balance')
    BY <1>3, AdjustInRange
  <2> QED BY <1>1, <2>1 DEF RangeInv, InRange
<1>4. CASE \E r \in DOMAIN rounds, p \in Players, pos \in Positions, stake \in Stakes :
             PlaceBet(r, p, pos, stake)
  <2>1. InRange(balance')
    BY <1>4, PlaceBetInRange
  <2> QED BY <1>1, <2>1 DEF RangeInv, InRange
<1>5. CASE \E r \in DOMAIN rounds, in \in Inputs : Settle(r, in) \/ CancelRound(r, in)
  <2>1. PICK r \in DOMAIN rounds, in \in Inputs : Settle(r, in) \/ CancelRound(r, in)
    BY <1>5
  <2>2. PICK rd \in Round : rd.banker \in Positions /\ Finish(r, rd, in)
    BY <1>1, <2>1, FinishedRow
  <2>3. in \in Input
    BY <1>1, <2>1, FinishedRow
  <2>4. InRange(balance')
    BY <2>2, <2>3, FinishInRange
  <2> QED BY <1>1, <2>4 DEF RangeInv, InRange
<1> QED BY <1>2, <1>3, <1>4, <1>5, BalanceSteps

(* Whatever players win and operators add, no balance leaves the range the   *)
(* program computes with: each posting of a settlement checks the balance it *)
(* leads to, and this is so whatever the order of the postings.              *)
THEOREM BalancesStayInRange == Spec => []WithinLimit
<1>1. Init => RangeInv
  <2> SUFFICES ASSUME Init PROVE RangeInv
    OBVIOUS
  <2>1. \A a \in Accounts : balance[a] = 0 /\ locked[a] = 0
    BY DEF Init
  <2>2. MoneyLimit \in Nat
    BY ConstantsAssumption
  <2>3. InRange(balance)
    BY <2>1, <2>2 DEF InRange
  <2> QED BY <2>1, <2>3, InitTables DEF RangeInv, SolventInv, Solvent
<1>2. RangeInv => WithinLimit
  <2>1. MoneyLimit \in Nat
    BY ConstantsAssumption
  <2> QED BY <2>1 DEF RangeInv, InRange, WithinLimit
<1> QED BY <1>1, <1>2, NextRange, PTL DEF Spec

-----------------------------------------------------------------------------
(* House mode: the quarter rule *)

Running(st) == st \in {"OPEN", "CLOSED"}

QuarterInv == SolventInv /\ FeesInv /\ QuarterRule

StakeWeights(r, a) ==
  [i \in Nat |-> IF i \in BetsOf(r) /\ bets[i].account = a THEN bets[i].stake ELSE 0]

FeeWeights(r, a) ==
  [i \in Nat |-> IF i \in BetsOf(r) /\ bets[i].account = a THEN bets[i].fee ELSE 0]

SumsTyped ==
  \A r, a : /\ StakeWeights(r, a) \in [Nat -> Int] /\ FeeWeights(r, a) \in [Nat -> Int]
            /\ StakesOf(r, a) = SumTo(StakeWeights(r, a), Len(bets))
            /\ FeesOf(r, a) = SumTo(FeeWeights(r, a), Len(bets))
            /\ StakesOf(r, a) \in Int /\ FeesOf(r, a) \in Int

(* The terms are integers, before a step and after it. *)
LEMMA SumsAreTyped == TypeOK => SumsTyped
<1> SUFFICES ASSUME TypeOK, NEW r, NEW a
             PROVE  /\ StakeWeights(r, a) \in [Nat -> Int] /\ FeeWeights(r, a) \in [Nat -> Int]
                    /\ StakesOf(r, a) = SumTo(StakeWeights(r, a), Len(bets))
                    /\ FeesOf(r, a) = SumTo(FeeWeights(r, a), Len(bets))
                    /\ StakesOf(r, a) \in Int /\ FeesOf(r, a) \in Int
  BY DEF SumsTyped
<1>1. \A i \in BetsOf(r) : bets[i].stake \in Int /\ bets[i].fee \in Int
  <2>1. \A i \in BetsOf(r) : bets[i] \in Bet
    BY SeqFacts DEF BetsOf, TypeOK
  <2> QED BY <2>1 DEF Bet
<1>2. StakeWeights(r, a) \in [Nat -> Int] /\ FeeWeights(r, a) \in [Nat -> Int]
  BY <1>1 DEF StakeWeights, FeeWeights
<1>3. /\ StakesOf(r, a) = SumTo(StakeWeights(r, a), Len(bets))
      /\ FeesOf(r, a) = SumTo(FeeWeights(r, a), Len(bets))
  BY DEF StakesOf, FeesOf, StakeWeights, FeeWeights
<1>4. Len(bets) \in Nat
  BY SeqFacts DEF TypeOK
<1>5. /\ SumTo(StakeWeights(r, a), Len(bets)) \in Int
      /\ SumTo(FeeWeights(r, a), Len(bets)) \in Int
  BY <1>2, <1>4, SumStep
<1> QED BY <1>2, <1>3, <1>5

LEMMA SumsWillBeTyped == TypeOK' => SumsTyped'
BY SumsAreTyped, PTL

(* Bets that stay as they are count as before. *)
LEMMA SumsKept ==
  ASSUME TypeOK, TypeOK', \A i \in DOMAIN bets : i \in DOMAIN bets' /\ bets'[i] = bets[i],
         NEW r, NEW a
  PROVE  /\ SumTo(StakeWeights(r, a)', Len(bets)) = StakesOf(r, a)
         /\ SumTo(FeeWeights(r, a)', Len(bets)) = FeesOf(r, a)
<1>1. SumsTyped /\ SumsTyped' /\ Len(bets) \in Nat /\ DOMAIN bets = 1 .. Len(bets)
  BY SumsAreTyped, SumsWillBeTyped, SeqFacts DEF TypeOK
<1>2. \A i \in 1 .. Len(bets) : /\ StakeWeights(r, a)'[i] = StakeWeights(r, a)[i]
                                /\ FeeWeights(r, a)'[i] = FeeWeights(r, a)[i]
  BY <1>1 DEF StakeWeights, FeeWeights, BetsOf
<1>3. /\ StakeWeights(r, a) \in [Nat -> Int] /\ FeeWeights(r, a) \in [Nat -> Int]
      /\ StakeWeights(r, a)' \in [Nat -> Int] /\ FeeWeights(r, a)' \in [Nat -> Int]
      /\ StakesOf(r, a) = SumTo(StakeWeights(r, a), Len(bets))
      /\ FeesOf(r, a) = SumTo(FeeWeights(r, a), Len(bets))
  BY <1>1 DEF SumsTyped
<1>4. SumTo(StakeWeights(r, a)', Len(bets)) = SumTo(StakeWeights(r, a), Len(bets))
  BY <1>1, <1>2, <1>3, SumAgree
<1>5. SumTo(FeeWeights(r, a)', Len(bets)) = SumTo(FeeWeights(r, a), Len(bets))
  BY <1>1, <1>2, <1>3, SumAgree
<1> QED BY <1>3, <1>4, <1>5

(* A round whose bets do not change keeps both sums. *)
LEMMA SumsUnchanged ==
  ASSUME TypeOK, TypeOK', UNCHANGED bets, NEW r, NEW a
  PROVE  StakesOf(r, a)' = StakesOf(r, a) /\ FeesOf(r, a)' = FeesOf(r, a)
<1>1. SumsTyped'
  BY SumsWillBeTyped
<1>2. /\ StakesOf(r, a)' = SumTo(StakeWeights(r, a)', Len(bets))
      /\ FeesOf(r, a)' = SumTo(FeeWeights(r, a)', Len(bets))
  BY <1>1 DEF SumsTyped
<1>3. /\ SumTo(StakeWeights(r, a)', Len(bets)) = StakesOf(r, a)
      /\ SumTo(FeeWeights(r, a)', Len(bets)) = FeesOf(r, a)
  BY SumsKept
<1> QED BY <1>2, <1>3

(* An accepted bet counts for its round and its player. *)
LEMMA SumsNext ==
  ASSUME TypeOK, TypeOK', NEW b \in Bet, bets' = Append(bets, b), NEW a
  PROVE  /\ StakesOf(b.round, a)'
              = StakesOf(b.round, a) + IF a = b.account THEN b.stake ELSE 0
         /\ FeesOf(b.round, a)'
              = FeesOf(b.round, a) + IF a = b.account THEN b.fee ELSE 0
<1> DEFINE r == b.round
<1>1. bets \in Seq(Bet) /\ Len(bets) \in Nat /\ DOMAIN bets = 1 .. Len(bets)
  BY SeqFacts DEF TypeOK
<1> PICK n \in Nat : n = Len(bets)
  BY <1>1
<1>2. /\ Len(bets') = n + 1 /\ DOMAIN bets' = DOMAIN bets \cup {n + 1} /\ bets'[n + 1] = b
      /\ \A i \in DOMAIN bets : i \in DOMAIN bets' /\ bets'[i] = bets[i]
  BY <1>1, SeqAppend
<1>3. SumsTyped /\ SumsTyped'
  BY SumsAreTyped, SumsWillBeTyped
<1>4. /\ SumTo(StakeWeights(r, a)', n) = StakesOf(r, a)
      /\ SumTo(FeeWeights(r, a)', n) = FeesOf(r, a)
  BY <1>2, SumsKept
<1>5. /\ StakesOf(r, a)' = SumTo(StakeWeights(r, a)', n + 1)
      /\ FeesOf(r, a)' = SumTo(FeeWeights(r, a)', n + 1)
      /\ StakeWeights(r, a)' \in [Nat -> Int] /\ FeeWeights(r, a)' \in [Nat -> Int]
  BY <1>2, <1>3 DEF SumsTyped
<1>6. /\ StakeWeights(r, a)'[n + 1] = IF a = b.account THEN b.stake ELSE 0
      /\ FeeWeights(r, a)'[n + 1] = IF a = b.account THEN b.fee ELSE 0
  BY <1>2 DEF StakeWeights, FeeWeights, BetsOf
<1>7. /\ SumTo(StakeWeights(r, a)', n + 1)
           = SumTo(StakeWeights(r, a)', n) + StakeWeights(r, a)'[n + 1]
      /\ SumTo(FeeWeights(r, a)', n + 1)
           = SumTo(FeeWeights(r, a)', n) + FeeWeights(r, a)'[n + 1]
  BY <1>5, SumStep
<1> QED BY <1>4, <1>5, <1>6, <1>7

(* Where the running round comes from. *)
LEMMA RunningSteps ==
  ASSUME TablesInv, [Next]_vars, NEW r \in DOMAIN rounds', Running(rounds'[r].state)
  PROVE  /\ r \in DOMAIN rounds
         /\ \/ Running(rounds[r].state) /\ rounds'[r].rules = rounds[r].rules
            \/ rounds[r].state = "DRAFT" /\ UNCHANGED <<balance, locked, bets>>
<1> USE DEF TablesInv
<1> DEFINE Goal == /\ r \in DOMAIN rounds
                   /\ \/ Running(rounds[r].state)
                      \/ rounds[r].state = "DRAFT" /\ UNCHANGED <<balance, locked, bets>>
<1>1. rounds \in Seq(Round) /\ \A q \in DOMAIN rounds : rounds[q] \in Round
  BY SeqFacts DEF TypeOK
<1>2. CASE UNCHANGED rounds
  BY <1>2
<1>3. ASSUME NEW number \in 1 .. LastNumber, NEW banker \in Positions \cup {0},
             CreateDraft(number, banker)
      PROVE  Goal
  <2>1. Draft(number, banker) \in Round /\ Draft(number, banker).state = "DRAFT"
    BY DraftType
  <2>2. rounds' = Append(rounds, Draft(number, banker))
    BY <1>3 DEF CreateDraft
  <2> QED BY <1>1, <2>1, <2>2, SeqAppend DEF Running
<1>4. ASSUME NEW q \in DOMAIN rounds, NEW row, rounds' = [rounds EXCEPT ![q] = row],
             \/ Running(rounds[q].state)
             \/ row.state = "DRAFT"
             \/ rounds[q].state = "DRAFT" /\ UNCHANGED <<balance, locked, bets>>
      PROVE  Goal
  BY <1>4 DEF Running
<1>5. ASSUME NEW q \in DOMAIN rounds, NEW number \in 1 .. LastNumber, NEW banker \in Positions,
             Configure(q, number, banker)
      PROVE  Goal
  <2>1. [rounds[q] EXCEPT !.number = number, !.banker = banker, !.revision = @ + 1].state
          = "DRAFT"
    BY <1>1, <1>5 DEF Round, Configure
  <2> QED BY <1>5, <2>1 DEF Configure, Running
<1>6. ASSUME NEW q \in DOMAIN rounds, OpenRound(q) PROVE Goal
  <2>1. rounds[q].state = "DRAFT" /\ UNCHANGED <<balance, locked, bets>>
    BY <1>6 DEF OpenRound
  <2> QED BY <1>6, <2>1 DEF OpenRound, Running
<1>7. ASSUME NEW q \in DOMAIN rounds, CloseRound(q) PROVE Goal
  <2>1. rounds' = [rounds EXCEPT ![q] = Closed(rounds[q])] /\ Running(rounds[q].state)
    BY <1>1, <1>7 DEF CloseRound, Running
  <2> QED BY <1>4, <2>1
<1>8. ASSUME NEW q \in DOMAIN rounds, NEW p \in Players, NEW pos \in Positions,
             NEW stake \in Stakes, PlaceBet(q, p, pos, stake)
      PROVE  Goal
  <2>1. Running(rounds[q].state)
    BY <1>8 DEF PlaceBet, Running
  <2>2. rounds' = [rounds EXCEPT ![q].revision = @ + 1]
    BY <1>8 DEF PlaceBet
  <2> QED BY <2>1, <2>2 DEF Running
<1>9. ASSUME NEW q \in DOMAIN rounds, NEW in \in Inputs, Settle(q, in) \/ CancelRound(q, in)
      PROVE  Goal
  <2>1. PICK rd \in Round : rd.banker \in Positions /\ Finish(q, rd, in)
    BY <1>9, FinishedRow
  <2>2. in \in Input
    BY ConstantsAssumption
  <2>3. /\ \A o \in DOMAIN rounds \ {q} : rounds'[o] = rounds[o]
        /\ DOMAIN rounds' = DOMAIN rounds \cup {Len(rounds) + 1}
        /\ rounds'[Len(rounds) + 1].state = "DRAFT"
        /\ rounds'[q].state \in {"SETTLED", "VOID"}
    BY <2>1, <2>2, FinishEffect
  <2> QED BY <2>3 DEF Running
<1>10. \/ UNCHANGED rounds
       \/ \E number \in 1 .. LastNumber, banker \in Positions \cup {0} : CreateDraft(number, banker)
       \/ \E q \in DOMAIN rounds, number \in 1 .. LastNumber, banker \in Positions :
            Configure(q, number, banker)
       \/ \E q \in DOMAIN rounds : OpenRound(q) \/ CloseRound(q)
       \/ \E q \in DOMAIN rounds, p \in Players, pos \in Positions, stake \in Stakes :
            PlaceBet(q, p, pos, stake)
       \/ \E q \in DOMAIN rounds, in \in Inputs : Settle(q, in) \/ CancelRound(q, in)
  BY DEF Next, vars, Contact, SetPlayer, Adjust, SaveRules, Restart, Preview
<1>11. Goal
  <2> HIDE DEF Goal
  <2>1. CASE UNCHANGED rounds
    BY <1>2, <2>1 DEF Goal
  <2> QED BY <2>1, <1>3, <1>5, <1>6, <1>7, <1>8, <1>9, <1>10
<1>12. Running(rounds[r].state) => rounds'[r].rules = rounds[r].rules
  BY <1>11, NextRules DEF Running
<1> QED BY <1>11, <1>12

(* The balance the quarter is taken of. *)
Base(r, p) ==
  balance[p] + (IF rounds[r].rules.feeTiming = "acceptance" THEN FeesOf(r, p) ELSE 0)

(* The rule for one round and one player. *)
InQuarter(r, p) == StakesOf(r, p) <= Base(r, p) \div 4

LEMMA QuarterByRound ==
  QuarterRule <=> \A r \in DOMAIN rounds, p \in Players : Running(rounds[r].state) => InQuarter(r, p)
BY DEF QuarterRule, Running, InQuarter, Base

LEMMA BaseInt ==
  ASSUME TypeOK, NEW r, NEW p \in Players
  PROVE  Base(r, p) \in Int /\ StakesOf(r, p) \in Int /\ FeesOf(r, p) \in Int /\ balance[p] \in Int
<1>1. FeesOf(r, p) \in Int /\ StakesOf(r, p) \in Int
  BY SumsAreTyped DEF SumsTyped
<1>2. balance[p] \in Int
  BY DEF TypeOK, Accounts
<1> QED BY <1>1, <1>2 DEF Base

(* A step that leaves bets and rules alone and takes nothing off the player. *)
LEMMA KeepsQuarter ==
  ASSUME TypeOK, TypeOK', UNCHANGED bets, NEW r, NEW p \in Players, InQuarter(r, p),
         rounds'[r].rules = rounds[r].rules, balance'[p] >= balance[p]
  PROVE  InQuarter(r, p)'
<1>1. StakesOf(r, p)' = StakesOf(r, p) /\ FeesOf(r, p)' = FeesOf(r, p)
  BY SumsUnchanged
<1>2. FeesOf(r, p) \in Int /\ StakesOf(r, p) \in Int /\ balance[p] \in Int /\ Base(r, p) \in Int
  BY BaseInt
<1>3. balance'[p] \in Int
  BY DEF TypeOK, Accounts
<1>4. Base(r, p)' \in Int /\ Base(r, p)' >= Base(r, p)
  BY <1>1, <1>2, <1>3 DEF Base
<1>5. \A x, y \in Int : x <= y => x \div 4 <= y \div 4 /\ x \div 4 \in Int /\ y \div 4 \in Int
  OBVIOUS
<1>6. Base(r, p) \div 4 <= Base(r, p)' \div 4 /\ Base(r, p) \div 4 \in Int
      /\ Base(r, p)' \div 4 \in Int
  BY <1>2, <1>4, <1>5
<1>7. StakesOf(r, p)' <= Base(r, p)' \div 4
  BY <1>1, <1>2, <1>6 DEF InQuarter
<1> QED BY <1>7 DEF InQuarter

(* A round just opened has no bets. *)
LEMMA OpenedQuarter ==
  ASSUME SolventInv, TypeOK', NEW r \in DOMAIN rounds, rounds[r].state = "DRAFT",
         UNCHANGED <<balance, bets>>, NEW p \in Players
  PROVE  InQuarter(r, p)'
<1>1. TypeOK /\ BetsMatchRound /\ Solvent /\ p \in Accounts \ {External}
  BY ConstantsAssumption DEF SolventInv, TablesInv, Accounts, Operators
<1>2. BetsOf(r) = {}
  BY <1>1 DEF BetsMatchRound, BetsOf
<1>3. SumsTyped /\ Len(bets) \in Nat
  BY <1>1, SumsAreTyped, SeqFacts DEF TypeOK
<1>4. /\ \A i \in 1 .. Len(bets) : StakeWeights(r, p)[i] = 0 /\ FeeWeights(r, p)[i] = 0
      /\ StakeWeights(r, p) \in [Nat -> Int] /\ FeeWeights(r, p) \in [Nat -> Int]
  BY <1>2, <1>3 DEF StakeWeights, FeeWeights, SumsTyped
<1>5. SumTo(StakeWeights(r, p), Len(bets)) = 0
  BY <1>3, <1>4, SumZero
<1>6. SumTo(FeeWeights(r, p), Len(bets)) = 0
  BY <1>3, <1>4, SumZero
<1>7. StakesOf(r, p)' = 0 /\ FeesOf(r, p)' = 0
  BY <1>1, <1>3, <1>5, <1>6, SumsUnchanged DEF SumsTyped
<1>8. balance'[p] \in Int /\ balance'[p] >= 0
  BY <1>1 DEF Solvent, TypeOK
<1>9. Base(r, p)' \in Int /\ Base(r, p)' >= 0
  BY <1>7, <1>8 DEF Base
<1>10. \A x \in Int : x >= 0 => 0 <= x \div 4
  OBVIOUS
<1> QED BY <1>7, <1>9, <1>10 DEF InQuarter

(* A debit looks at all open bets, which are those of the running round. *)
LEMMA AdjustQuarter ==
  ASSUME QuarterInv, TypeOK', ~ PlayerOnly, NEW a \in Accounts, NEW delta \in Deltas,
         Adjust(a, delta), NEW r \in DOMAIN rounds, Running(rounds[r].state), NEW p \in Players
  PROVE  InQuarter(r, p)'
<1>1. TypeOK /\ BetsMatchRound /\ RoundChain /\ p \in Accounts /\ p # External
  BY ConstantsAssumption DEF QuarterInv, SolventInv, TablesInv, Accounts, Operators
<1>2. /\ UNCHANGED <<bets, rounds>> /\ delta \in Int
      /\ balance'[p] = balance[p] + Moved(External, a, delta, p)
      /\ delta < 0 /\ a \in Players => QuarterKept(a, delta)
  BY <1>1, ConstantsAssumption DEF Adjust
<1>3. InQuarter(r, p)
  BY QuarterByRound DEF QuarterInv
<1>4. balance[p] \in Int /\ balance'[p] = balance[p] + IF p = a THEN delta ELSE 0
  BY <1>1, <1>2 DEF Moved, TypeOK
<1>5. CASE p # a \/ delta >= 0
  <2>1. balance'[p] >= balance[p]
    BY <1>2, <1>4, <1>5
  <2> QED BY <1>1, <1>2, <1>3, <2>1, KeepsQuarter
<1>6. CASE p = a /\ delta < 0
  <2>1. StakesReserved(p) <= (balance[p] + delta + FeesPaid(p)) \div 4
    BY <1>2, <1>6 DEF QuarterKept
  <2>2. \A i \in DOMAIN bets : bets[i].state = "RESERVED" <=> bets[i].round = r
    <3> SUFFICES ASSUME NEW i \in DOMAIN bets
                 PROVE  bets[i].state = "RESERVED" <=> bets[i].round = r
      OBVIOUS
    <3>1. /\ bets[i].round \in DOMAIN rounds
          /\ bets[i].state = "RESERVED" <=> Running(rounds[bets[i].round].state)
      BY <1>1 DEF BetsMatchRound, Running
    <3>2. \A q \in DOMAIN rounds : Running(rounds[q].state) => q = r
      BY <1>1 DEF RoundChain, Running, Active
    <3> QED BY <3>1, <3>2
  <2> DEFINE n == Len(bets)
             v == [i \in Nat |-> IF i \in DOMAIN bets /\ bets[i].account = p
                                    /\ bets[i].state = "RESERVED"
                                 THEN bets[i].stake ELSE 0]
             f == [i \in Nat |-> IF i \in DOMAIN bets /\ bets[i].account = p
                                    /\ bets[i].state = "RESERVED"
                                    /\ RulesOf(bets[i]).feeTiming = "acceptance"
                                 THEN bets[i].fee ELSE 0]
             s == StakeWeights(r, p)
             g == FeeWeights(r, p)
  <2>3. SumsTyped /\ n \in Nat /\ DOMAIN bets = 1 .. n
    BY <1>1, SumsAreTyped, SeqFacts DEF TypeOK
  <2>4. s \in [Nat -> Int] /\ g \in [Nat -> Int]
    BY <2>3 DEF SumsTyped
  <2>5. \A i \in DOMAIN bets : bets[i].stake \in Int /\ bets[i].fee \in Int
    <3>1. \A i \in DOMAIN bets : bets[i] \in Bet
      BY <1>1, SeqFacts DEF TypeOK
    <3> QED BY <3>1 DEF Bet
  <2>6. v \in [Nat -> Int] /\ f \in [Nat -> Int]
    BY <2>5
  <2>7. \A i \in 1 .. n : v[i] = s[i]
    BY <2>2, <2>3 DEF StakeWeights, BetsOf
  <2>8. StakesReserved(p) = SumTo(v, n)
    BY DEF StakesReserved
  <2>9. FeesPaid(p) = SumTo(f, n)
    BY DEF FeesPaid
  <2>10. StakesOf(r, p) = SumTo(s, n) /\ FeesOf(r, p) = SumTo(g, n)
    BY <2>3 DEF SumsTyped
  <2>11. rounds[r].rules.feeTiming = "acceptance" => \A i \in 1 .. n : f[i] = g[i]
    BY <2>2, <2>3 DEF FeeWeights, BetsOf, RulesOf
  <2>12. rounds[r].rules.feeTiming # "acceptance" => \A i \in 1 .. n : f[i] = 0
    BY <2>2, <2>3 DEF RulesOf
  <2> HIDE DEF n, v, f, s, g
  <2>13. StakesReserved(p) = StakesOf(r, p)
    BY <2>3, <2>4, <2>6, <2>7, <2>8, <2>10, SumAgree
  <2>14. FeesPaid(p) = IF rounds[r].rules.feeTiming = "acceptance" THEN FeesOf(r, p) ELSE 0
    <3>1. CASE rounds[r].rules.feeTiming = "acceptance"
      <4>1. SumTo(f, n) = SumTo(g, n)
        BY <2>3, <2>4, <2>6, <2>11, <3>1, SumAgree
      <4> QED BY <2>9, <2>10, <3>1, <4>1
    <3>2. CASE rounds[r].rules.feeTiming # "acceptance"
      <4>1. SumTo(f, n) = 0
        BY <2>3, <2>6, <2>12, <3>2, SumZero
      <4> QED BY <2>9, <3>2, <4>1
    <3> QED BY <3>1, <3>2
  <2>15. StakesOf(r, p)' = StakesOf(r, p) /\ FeesOf(r, p)' = FeesOf(r, p)
    BY <1>1, <1>2, SumsUnchanged
  <2>16. FeesOf(r, p) \in Int
    BY <1>1, BaseInt
  <2>17. Base(r, p)' = balance[p] + delta + FeesPaid(p)
    BY <1>2, <1>4, <1>6, <2>14, <2>15, <2>16 DEF Base
  <2> QED BY <2>1, <2>13, <2>15, <2>17 DEF InQuarter
<1> QED BY <1>2, <1>5, <1>6

(* PlaceBet checks the quarter with the new stake; a fee it takes at once   *)
(* comes off the balance and counts as paid.                                *)
LEMMA PlaceBetQuarter ==
  ASSUME QuarterInv, TablesInv', ~ PlayerOnly, [Next]_vars,
         NEW r \in DOMAIN rounds, NEW p \in Players, NEW pos \in Positions,
         NEW stake \in Stakes, PlaceBet(r, p, pos, stake), NEW q \in Players
  PROVE  InQuarter(r, q)'
<1> DEFINE rl     == rounds[r].rules
           charge == fee(stake)
           b      == [round |-> r, account |-> p, position |-> pos, stake |-> stake,
                      fee |-> IF PlayerOnly THEN 0 ELSE fee(stake),
                      state |-> "RESERVED", delta |-> 0]
           atOnce == IF ~ PlayerOnly /\ rl.feeTiming # "settlement" THEN b.fee ELSE 0
           base   == balance[p] + (IF ~ PlayerOnly /\ rl.feeTiming = "acceptance"
                                   THEN FeesOf(r, p) ELSE 0)
<1>1. TypeOK /\ TypeOK' /\ TablesInv
  BY DEF QuarterInv, SolventInv, TablesInv
<1>2. r \in Nat /\ stake \in Nat \ {0} /\ charge \in Nat /\ charge # 0
  <2>1. r \in Nat
    BY <1>1, SeqFacts DEF TypeOK
  <2>2. stake \in Nat \ {0}
    BY ConstantsAssumption
  <2>3. charge \in Nat /\ charge # 0
    BY MoneyScaleAssumption DEF fee, Points
  <2> QED BY <2>1, <2>2, <2>3
<1>3. /\ b \in Bet /\ b.round = r /\ b.account = p /\ b.stake = stake /\ b.fee = charge
  BY <1>2 DEF Bet
<1>4. rl.feeTiming \in FeeTimings /\ rl.feeTiming # ""
  <2>1. rounds[r] \in Round
    BY <1>1, SeqFacts DEF TypeOK
  <2>2. rl \in Rules
    BY <2>1, RateTypes DEF Round
  <2>3. rl.feeTiming # ""
    BY DEF QuarterInv, FeesInv
  <2> QED BY <2>2, <2>3 DEF Rules
<1>5. /\ bets' = Append(bets, b)
      /\ StakesOf(r, p) + stake <= base \div 4
      /\ CanTransfer(balance, locked, p, rl.feeRecipient, atOnce)
      /\ balance' = [a \in Accounts |-> balance[a] + Moved(p, rl.feeRecipient, atOnce, a)]
  BY DEF PlaceBet
<1>6. rounds[r].state = "OPEN" /\ rounds'[r].rules = rl
  <2>1. rounds[r].state = "OPEN"
    BY DEF PlaceBet
  <2>2. DOMAIN rounds \subseteq DOMAIN rounds'
    BY <1>1, NextRules
  <2> QED BY <1>1, <2>1, <2>2, NextRules
<1>7. /\ StakesOf(r, q)' = StakesOf(r, q) + IF q = p THEN stake ELSE 0
      /\ FeesOf(r, q)' = FeesOf(r, q) + IF q = p THEN charge ELSE 0
  <2> HIDE DEF b, charge
  <2> QED BY <1>1, <1>3, <1>5, SumsNext
<1>8. atOnce = IF rl.feeTiming = "acceptance" THEN charge ELSE 0
  <2>1. rl.feeTiming # "settlement" <=> rl.feeTiming = "acceptance"
    BY <1>4 DEF FeeTimings
  <2> HIDE DEF b, rl
  <2> QED BY <1>3, <2>1
<1>9. base = Base(r, p)
  BY DEF Base
<1>10. InQuarter(r, q)
  BY <1>6, QuarterByRound DEF QuarterInv, Running
<1>11. /\ Base(r, q) \in Int /\ StakesOf(r, q) \in Int /\ FeesOf(r, q) \in Int
       /\ balance[q] \in Int /\ q \in Accounts
  BY <1>1, BaseInt DEF Accounts
<1>12. balance'[q] = balance[q] + Moved(p, rl.feeRecipient, atOnce, q)
  <2> HIDE DEF rl, atOnce
  <2> QED BY <1>5, <1>11
<1>13. atOnce # 0 => p # rl.feeRecipient
  <2> HIDE DEF rl, atOnce
  <2> QED BY <1>5 DEF CanTransfer
<1>14. Base(r, q)' = balance'[q] + (IF rl.feeTiming = "acceptance" THEN FeesOf(r, q)' ELSE 0)
  BY <1>6 DEF Base
<1>15. Base(r, q) = balance[q] + (IF rl.feeTiming = "acceptance" THEN FeesOf(r, q) ELSE 0)
  BY DEF Base
<1> HIDE DEF rl, b, charge, atOnce, base
<1>16. \A x, y \in Int : x <= y => x \div 4 <= y \div 4 /\ x \div 4 \in Int /\ y \div 4 \in Int
  OBVIOUS
<1>17. CASE q = p
  <2>1. Base(r, q)' = Base(r, q)
    BY <1>2, <1>7, <1>8, <1>11, <1>12, <1>13, <1>14, <1>15, <1>17 DEF Moved
  <2>2. StakesOf(r, q) + stake <= Base(r, q) \div 4
    BY <1>5, <1>9, <1>17
  <2> QED BY <1>7, <1>17, <2>1, <2>2 DEF InQuarter
<1>18. CASE q # p
  <2>1. Base(r, q)' \in Int /\ Base(r, q)' >= Base(r, q)
    BY <1>2, <1>7, <1>8, <1>11, <1>12, <1>14, <1>15, <1>18 DEF Moved
  <2>2. StakesOf(r, q)' = StakesOf(r, q)
    BY <1>7, <1>11, <1>18
  <2>3. StakesOf(r, q) <= Base(r, q) \div 4
    BY <1>10 DEF InQuarter
  <2>4. Base(r, q) \div 4 <= Base(r, q)' \div 4 /\ Base(r, q) \div 4 \in Int
        /\ Base(r, q)' \div 4 \in Int
    BY <1>11, <1>16, <2>1
  <2>5. StakesOf(r, q)' <= Base(r, q)' \div 4
    BY <1>11, <2>2, <2>3, <2>4
  <2> QED BY <2>5 DEF InQuarter
<1> QED BY <1>17, <1>18

(* Every step keeps the quarter rule. *)
LEMMA NextQuarter ==
  ASSUME TimedRules, ~ PlayerOnly
  PROVE  QuarterInv /\ [Next]_vars => QuarterInv'
<1> SUFFICES ASSUME QuarterInv, [Next]_vars PROVE QuarterInv'
  OBVIOUS
<1>1. SolventInv /\ TablesInv /\ TypeOK /\ BankerChosen /\ RoundChain /\ FeesInv
  BY DEF QuarterInv, SolventInv, TablesInv
<1>2. SolventInv' /\ TablesInv' /\ TypeOK' /\ FeesInv' /\ RoundChain'
  BY <1>1, NextSolvent, NextFees DEF SolventInv, TablesInv
<1>3. ASSUME NEW r \in DOMAIN rounds', Running(rounds'[r].state), NEW p \in Players
      PROVE  InQuarter(r, p)'
  <2>1. /\ r \in DOMAIN rounds
        /\ \/ Running(rounds[r].state) /\ rounds'[r].rules = rounds[r].rules
           \/ rounds[r].state = "DRAFT" /\ UNCHANGED <<balance, locked, bets>>
    BY <1>1, <1>3, RunningSteps
  <2>2. CASE rounds[r].state = "DRAFT" /\ UNCHANGED <<balance, locked, bets>>
    BY <1>1, <1>2, <2>1, <2>2, OpenedQuarter
  <2>3. CASE Running(rounds[r].state) /\ rounds'[r].rules = rounds[r].rules
    <3>1. InQuarter(r, p)
      BY <2>1, <2>3, QuarterByRound DEF QuarterInv
    <3>2. CASE UNCHANGED <<balance, bets>>
      <4>1. balance'[p] >= balance[p]
        BY <1>1, <3>2 DEF TypeOK, Accounts
      <4> QED BY <1>1, <1>2, <2>3, <3>1, <3>2, <4>1, KeepsQuarter
    <3>3. CASE \E a \in Accounts, delta \in Deltas : Adjust(a, delta)
      BY <1>2, <2>1, <2>3, <3>3, AdjustQuarter
    <3>4. ASSUME NEW q \in DOMAIN rounds, NEW c \in Players, NEW pos \in Positions,
                 NEW stake \in Stakes, PlaceBet(q, c, pos, stake)
          PROVE  InQuarter(r, p)'
      <4>1. Running(rounds[q].state)
        BY <3>4 DEF PlaceBet, Running
      <4>2. q = r
        BY <1>1, <2>1, <2>3, <4>1 DEF RoundChain, Running, Active
      <4> QED BY <1>2, <3>4, <4>2, PlaceBetQuarter
    <3>5. ASSUME NEW q \in DOMAIN rounds, NEW in \in Inputs, Settle(q, in) \/ CancelRound(q, in)
          PROVE  FALSE
      <4>1. /\ Running(rounds[q].state) /\ in \in Input
            /\ \E rd \in Round : rd.banker \in Positions /\ Finish(q, rd, in)
        BY <1>1, <3>5, FinishedRow DEF Running
      <4>2. PICK rd \in Round : rd.banker \in Positions /\ Finish(q, rd, in)
        BY <4>1
      <4>3. rounds'[q].state \in {"SETTLED", "VOID"}
        BY <1>1, <4>1, <4>2, FinishEffect
      <4>4. q = r
        BY <1>1, <2>1, <2>3, <4>1 DEF RoundChain, Running, Active
      <4> QED BY <1>3, <4>3, <4>4 DEF Running
    <3>6. \/ UNCHANGED <<balance, bets>>
          \/ \E a \in Accounts, delta \in Deltas : Adjust(a, delta)
          \/ \E q \in DOMAIN rounds, c \in Players, pos \in Positions, stake \in Stakes :
               PlaceBet(q, c, pos, stake)
          \/ \E q \in DOMAIN rounds, in \in Inputs : Settle(q, in) \/ CancelRound(q, in)
      BY DEF Next, vars, Contact, SetPlayer, SaveRules, Restart, CreateDraft,
             Configure, OpenRound, CloseRound, Preview
    <3> QED BY <3>2, <3>3, <3>4, <3>5, <3>6
  <2> QED BY <2>1, <2>2, <2>3
<1>4. (QuarterRule <=> \A r \in DOMAIN rounds, p \in Players :
                         Running(rounds[r].state) => InQuarter(r, p))'
  BY QuarterByRound, PTL
<1>5. QuarterRule'
  BY <1>3, <1>4
<1> QED BY <1>2, <1>5 DEF QuarterInv

(* In house mode, with rules that name when fees are taken, no player ever   *)
(* has more than a quarter of the balance, paid fees included, staked on the *)
(* running round: not after the next bet, whose fee comes off at once, nor   *)
(* after an operator's debit between two bets.                               *)
THEOREM StakesWithinQuarter ==
  ASSUME TimedRules, ~ PlayerOnly
  PROVE  Spec => []QuarterRule
<1>1. Init => QuarterInv
  <2> SUFFICES ASSUME Init PROVE QuarterInv
    OBVIOUS
  <2>1. \A a \in Accounts : balance[a] = 0 /\ locked[a] = 0
    BY DEF Init
  <2>2. TablesInv /\ FeesInv
    BY InitTables, InitLocks DEF LocksInv
  <2>3. \A r \in DOMAIN rounds : rounds[r].state = "VOID"
    <3>1. \A n : Voided(n).state = "VOID"
      BY DEF Voided
    <3> QED BY <3>1 DEF Init
  <2>4. QuarterRule
    BY <2>3 DEF QuarterRule
  <2> QED BY <2>1, <2>2, <2>4 DEF QuarterInv, SolventInv, Solvent
<1>2. QuarterInv /\ [Next]_vars => QuarterInv'
  BY NextQuarter
<1>3. QuarterInv => QuarterRule
  BY DEF QuarterInv
<1> QED BY <1>1, <1>2, <1>3, PTL DEF Spec

-----------------------------------------------------------------------------
(* The audit *)

(* The accounts are listed once each. *)
LEMMA RowsList ==
  /\ Cardinality(Accounts) \in Nat
  /\ Rows \in [1 .. Cardinality(Accounts) -> Accounts]
  /\ \A a \in Accounts : \E n \in 1 .. Cardinality(Accounts) : Rows[n] = a
  /\ \A m, n \in 1 .. Cardinality(Accounts) : Rows[m] = Rows[n] => m = n
<1>1. IsFiniteSet(Accounts)
  <2>1. IsFiniteSet({}) /\ Operators = (({} \cup {House}) \cup {Fees}) \cup {External}
    BY FS_EmptySet DEF Operators
  <2>2. IsFiniteSet(Operators)
    BY <2>1, FS_AddElement
  <2> QED BY <2>2, ReconcileAssumption, FS_Union DEF Accounts
<1>2. Cardinality(Accounts) \in Nat /\ ExistsBijection(1 .. Cardinality(Accounts), Accounts)
  BY <1>1, FS_CardinalityType
<1>3. \E row \in [1 .. Cardinality(Accounts) -> Accounts] :
         /\ \A a \in Accounts : \E n \in DOMAIN row : row[n] = a
         /\ \A m, n \in DOMAIN row : row[m] = row[n] => m = n
  <2>1. PICK row \in Bijection(1 .. Cardinality(Accounts), Accounts) : TRUE
    BY <1>2 DEF ExistsBijection
  <2>2. /\ row \in [1 .. Cardinality(Accounts) -> Accounts]
        /\ \A a \in Accounts : \E n \in 1 .. Cardinality(Accounts) : row[n] = a
        /\ \A m, n \in 1 .. Cardinality(Accounts) : row[m] = row[n] => m = n
    BY <2>1 DEF Bijection, Injection, Surjection, IsInjective
  <2> QED BY <2>2
<1> DEFINE Lists(row) == /\ \A a \in Accounts : \E n \in DOMAIN row : row[n] = a
                         /\ \A m, n \in DOMAIN row : row[m] = row[n] => m = n
<1>4. \E row \in [1 .. Cardinality(Accounts) -> Accounts] : Lists(row)
  BY <1>3
<1>5. Rows = CHOOSE row \in [1 .. Cardinality(Accounts) -> Accounts] : Lists(row)
  BY DEF Rows
<1> HIDE DEF Lists
<1>6. Rows \in [1 .. Cardinality(Accounts) -> Accounts] /\ Lists(Rows)
  BY <1>4, <1>5
<1>7. DOMAIN Rows = 1 .. Cardinality(Accounts)
  BY <1>6
<1> QED BY <1>2, <1>6, <1>7 DEF Lists

(* The total of all balances as a sum over that list. *)
TotalWeights(bal) ==
  [n \in Nat |-> IF n \in 1 .. Cardinality(Accounts) THEN bal[Rows[n]] ELSE 0]

LEMMA TotalIs ==
  ASSUME NEW bal \in [Accounts -> Int]
  PROVE  /\ TotalOf(bal) = SumTo(TotalWeights(bal), Cardinality(Accounts))
         /\ TotalWeights(bal) \in [Nat -> Int]
<1>1. DOMAIN Rows = 1 .. Cardinality(Accounts)
  BY RowsList
<1>2. TotalOf(bal) = SumTo(TotalWeights(bal), Cardinality(Accounts))
  BY <1>1 DEF TotalOf, TotalWeights
<1>3. TotalWeights(bal) \in [Nat -> Int]
  BY RowsList DEF TotalWeights
<1> QED BY <1>2, <1>3

(* Credited to one account, an amount is added to the total once. *)
LEMMA OneCredit ==
  ASSUME NEW bal \in [Accounts -> Int], NEW c \in Accounts, NEW x \in Int
  PROVE  TotalOf([a \in Accounts |-> bal[a] + (IF a = c THEN x ELSE 0)]) = TotalOf(bal) + x
<1> DEFINE res == [a \in Accounts |-> bal[a] + (IF a = c THEN x ELSE 0)]
<1> SUFFICES TotalOf(res) = TotalOf(bal) + x
  OBVIOUS
<1>0. /\ res \in [Accounts -> Int]
      /\ \A a \in Accounts : res[a] = bal[a] + (IF a = c THEN x ELSE 0)
  OBVIOUS
<1> HIDE DEF res
<1> DEFINE n == Cardinality(Accounts)
           u == TotalWeights(res)
           v == TotalWeights(bal)
           w == [k \in Nat |-> IF k \in 1 .. n /\ Rows[k] = c THEN x ELSE 0]
<1>1. PICK m \in 1 .. n : Rows[m] = c
  BY RowsList
<1>2. \A k \in 1 .. n : k # m => w[k] = 0
  BY <1>1, RowsList
<1>3. w[m] = x /\ w \in [Nat -> Int]
  BY <1>1, RowsList
<1>4. \A k \in 1 .. n : u[k] = v[k] + w[k]
  <2>1. SUFFICES ASSUME NEW k \in 1 .. n PROVE u[k] = v[k] + w[k]
    OBVIOUS
  <2>2. k \in Nat /\ Rows[k] \in Accounts
    BY RowsList
  <2>3. u[k] = res[Rows[k]] /\ v[k] = bal[Rows[k]]
    BY <2>2 DEF TotalWeights
  <2>4. w[k] = IF Rows[k] = c THEN x ELSE 0
    BY <2>2
  <2> QED BY <1>0, <2>2, <2>3, <2>4
<1>5. n \in Nat
  BY RowsList
<1>6. u \in [Nat -> Int] /\ v \in [Nat -> Int]
  BY <1>0, TotalIs
<1>7. TotalOf(res) = SumTo(u, n) /\ TotalOf(bal) = SumTo(v, n)
  BY <1>0, TotalIs
<1> HIDE DEF n, u, v, w
<1>8. SumTo(w, n) = x
  BY <1>1, <1>2, <1>3, <1>5, SumSingle
<1>9. SumTo(u, n) = SumTo(v, n) + SumTo(w, n)
  BY <1>3, <1>4, <1>5, <1>6, SumAdd
<1> QED BY <1>7, <1>8, <1>9

(* It is a number. *)
LEMMA TotalInt == ASSUME NEW bal \in [Accounts -> Int] PROVE TotalOf(bal) \in Int
<1>1. Cardinality(Accounts) \in Nat
  BY RowsList
<1> QED BY <1>1, TotalIs, SumStep

(* A transfer makes or loses nothing. *)
LEMMA MovedTotal ==
  ASSUME NEW bal \in [Accounts -> Int], NEW from, NEW to, NEW x \in Int,
         x = 0 \/ (from \in Accounts /\ to \in Accounts)
  PROVE  TotalOf([a \in Accounts |-> bal[a] + Moved(from, to, x, a)]) = TotalOf(bal)
<1> DEFINE res == [a \in Accounts |-> bal[a] + Moved(from, to, x, a)]
<1> SUFFICES TotalOf(res) = TotalOf(bal)
  OBVIOUS
<1>0. res \in [Accounts -> Int] /\ \A a \in Accounts : res[a] = bal[a] + Moved(from, to, x, a)
  BY DEF Moved
<1> HIDE DEF res
<1>1. CASE x = 0
  <2>1. \A a \in Accounts : res[a] = bal[a]
    BY <1>0, <1>1 DEF Moved
  <2>2. res = bal
    BY <1>0, <2>1
  <2> QED BY <2>2
<1>2. CASE from \in Accounts /\ to \in Accounts
  <2> DEFINE mid == [a \in Accounts |-> bal[a] + (IF a = to THEN x ELSE 0)]
  <2>1. mid \in [Accounts -> Int] /\ \A a \in Accounts : mid[a] = bal[a] + (IF a = to THEN x ELSE 0)
    OBVIOUS
  <2>2. \A a \in Accounts : res[a] = mid[a] + (IF a = from THEN - x ELSE 0)
    BY <1>0, <2>1 DEF Moved
  <2>3. TotalOf(mid) = TotalOf(bal) + x
    BY <1>2, OneCredit
  <2> DEFINE y == - x
  <2>4. y \in Int /\ y = - x /\ mid \in [Accounts -> Int] /\ from \in Accounts
    BY <1>2
  <2> HIDE DEF mid, y
  <2>5. TotalOf([a \in Accounts |-> mid[a] + (IF a = from THEN y ELSE 0)]) = TotalOf(mid) + y
    BY <2>4, OneCredit
  <2>6. res = [a \in Accounts |-> mid[a] + (IF a = from THEN y ELSE 0)]
    BY <1>0, <2>2, <2>4
  <2> QED BY <2>3, <2>4, <2>5, <2>6, TotalInt
<1> QED BY <1>1, <1>2

(* In house mode both postings of a bet are transfers. *)
LEMMA PostingTotal ==
  ASSUME ~ PlayerOnly, NEW rd \in Round, rd.banker \in Positions, NEW in \in Input,
         NEW b \in Bet, FeeMove(b, rd, in) = 0 \/ rd.rules.feeRecipient \in Accounts,
         NEW bal \in [Accounts -> Int], NEW res \in [Accounts -> Int],
         \A a \in Accounts : res[a] = bal[a] + Effect(b, rd, in, a)
  PROVE  TotalOf(res) = TotalOf(bal)
<1> DEFINE mid == [a \in Accounts |-> bal[a] + GameEffect(b, rd, in, a)]
<1>1. b.account \in Accounts /\ House \in Accounts /\ b.fee \in Nat
  BY DEF Bet, Accounts, Operators
<1>2. \A a : GameEffect(b, rd, in, a) \in Int
  BY EffectInt
<1>3. GameDelta(b, rd, in) \in Int
  BY GameDeltaInt
<1>4. FeeMove(b, rd, in) \in Int
  BY <1>1 DEF FeeMove, LineFee
<1>5. mid \in [Accounts -> Int] /\ \A a \in Accounts : mid[a] = bal[a] + GameEffect(b, rd, in, a)
  BY <1>2
<1>6. \A a \in Accounts : mid[a] = bal[a] + Moved(House, b.account, GameDelta(b, rd, in), a)
  BY <1>5 DEF GameEffect
<1>7. \A a \in Accounts :
        res[a] = mid[a] + Moved(b.account, rd.rules.feeRecipient, FeeMove(b, rd, in), a)
  <2> HIDE DEF mid
  <2> SUFFICES ASSUME NEW a \in Accounts
               PROVE  res[a] = mid[a] + Moved(b.account, rd.rules.feeRecipient, FeeMove(b, rd, in), a)
    OBVIOUS
  <2>1. Effect(b, rd, in, a) = GameEffect(b, rd, in, a)
          + Moved(b.account, rd.rules.feeRecipient, FeeMove(b, rd, in), a)
    BY DEF Effect
  <2>2. /\ Moved(b.account, rd.rules.feeRecipient, FeeMove(b, rd, in), a) \in Int
        /\ GameEffect(b, rd, in, a) \in Int /\ bal[a] \in Int
    BY <1>2, <1>4 DEF Moved
  <2>3. res[a] = bal[a] + Effect(b, rd, in, a) /\ mid[a] = bal[a] + GameEffect(b, rd, in, a)
    BY <1>5
  <2> QED BY <2>1, <2>2, <2>3
<1> DEFINE x  == GameDelta(b, rd, in)
           y  == FeeMove(b, rd, in)
           to == rd.rules.feeRecipient
           p  == b.account
<1>8. /\ x \in Int /\ y \in Int /\ (y = 0 \/ to \in Accounts)
      /\ p \in Accounts /\ House \in Accounts
      /\ mid = [a \in Accounts |-> bal[a] + Moved(House, p, x, a)]
      /\ res = [a \in Accounts |-> mid[a] + Moved(p, to, y, a)]
  BY <1>1, <1>3, <1>4, <1>5, <1>6, <1>7
<1> HIDE DEF mid, x, y, to, p
<1>9. TotalOf(mid) = TotalOf(bal)
  BY <1>5, <1>8, MovedTotal, ZenonT(40)
<1>10. TotalOf(res) = TotalOf(mid)
  <2> DEFINE moved == [a \in Accounts |-> mid[a] + Moved(p, to, y, a)]
  <2>1. res = moved
    BY <1>8
  <2>2. /\ mid \in [Accounts -> Int] /\ y \in Int
        /\ y = 0 \/ (p \in Accounts /\ to \in Accounts)
    BY <1>5, <1>8
  <2>3. TotalOf(moved) = TotalOf(mid)
    BY <2>2, MovedTotal
  <2> HIDE DEF moved
  <2> QED BY <2>1, <2>3
<1> QED BY <1>9, <1>10

(* A fee that moves has a recipient. *)
LEMMA FeeHasRecipient ==
  ASSUME ~ PlayerOnly, TypeOK, NEW r, NEW rd \in Round, rd.banker \in Positions, NEW in \in Input,
         NEW i \in BetsOf(r), Finish(r, rd, in)
  PROVE  FeeMove(bets[i], rd, in) = 0 \/ rd.rules.feeRecipient \in Accounts
<1>1. PICK S : PostingOK(r, rd, in, S, i)
  BY DEF Finish
<1>2. bets[i] \in Bet
  BY SeqFacts DEF BetsOf, TypeOK
<1>3. FeeMove(bets[i], rd, in) \in Int
  BY <1>2 DEF FeeMove, LineFee, Bet
<1>4. CanMove(BalanceMid(r, rd, in, S, i), LockedAfter(r), bets[i].account,
              rd.rules.feeRecipient, FeeMove(bets[i], rd, in))
  BY <1>1 DEF PostingOK
<1> QED BY <1>3, <1>4 DEF CanMove, CanTransfer, AccountExists

(* Posting by posting, a settlement leaves the total as it is. *)
LEMMA FinishTotal ==
  ASSUME ~ PlayerOnly, TypeOK, NEW r \in DOMAIN rounds, NEW rd \in Round, rd.banker \in Positions,
         NEW in \in Input, Finish(r, rd, in)
  PROVE  TotalOf(balance') = TotalOf(balance)
<1> DEFINE W(a)  == EffectWeights(r, rd, in, BetsOf(r), a)
           bal(k) == [a \in Accounts |-> balance[a] + SumTo(W(a), k)]
           S      == { k \in Nat : k <= Len(bets) => TotalOf(bal(k)) = TotalOf(balance) }
<1>1. balance \in [Accounts -> Int] /\ Len(bets) \in Nat /\ DOMAIN bets = 1 .. Len(bets)
  BY SeqFacts DEF TypeOK
<1>2. \A a : W(a) \in [Nat -> Int]
  BY EffectWeightsInt
<1>3. \A k \in Nat : bal(k) \in [Accounts -> Int]
  BY <1>1, <1>2, SumStep, SMTT(30)
<1>4. \A k \in Nat, a \in Accounts : /\ bal(0)[a] = balance[a]
                                     /\ bal(k + 1)[a] = bal(k)[a] + W(a)[k + 1]
  <2> SUFFICES ASSUME NEW k \in Nat, NEW a \in Accounts
               PROVE  bal(0)[a] = balance[a] /\ bal(k + 1)[a] = bal(k)[a] + W(a)[k + 1]
    OBVIOUS
  <2>1. /\ SumTo(W(a), k) \in Int /\ SumTo(W(a), 0) = 0
        /\ SumTo(W(a), k + 1) = SumTo(W(a), k) + W(a)[k + 1]
    BY <1>2, SumStep
  <2>2. balance[a] \in Int /\ W(a)[k + 1] \in Int
    BY <1>1, <1>2
  <2> HIDE DEF W
  <2> QED BY <2>1, <2>2
<1>5. 0 \in S
  <2>1. bal(0) = balance
    BY <1>1, <1>3, <1>4
  <2> QED BY <2>1
<1>6. ASSUME NEW k \in Nat, k \in S PROVE k + 1 \in S
  <2> SUFFICES ASSUME k + 1 <= Len(bets) PROVE TotalOf(bal(k + 1)) = TotalOf(balance)
    OBVIOUS
  <2>1. TotalOf(bal(k)) = TotalOf(balance)
    BY <1>1, <1>6
  <2>2. bal(k) \in [Accounts -> Int] /\ bal(k + 1) \in [Accounts -> Int]
    BY <1>3
  <2>3. k + 1 \in DOMAIN bets /\ k + 1 \in Nat
    BY <1>1
  <2>4. CASE k + 1 \in BetsOf(r)
    <3>1. bets[k + 1] \in Bet
      BY <2>3, SeqFacts DEF TypeOK
    <3>2. \A a \in Accounts : bal(k + 1)[a] = bal(k)[a] + Effect(bets[k + 1], rd, in, a)
      BY <1>4, <2>3, <2>4 DEF EffectWeights
    <3>3. FeeMove(bets[k + 1], rd, in) = 0 \/ rd.rules.feeRecipient \in Accounts
      BY <2>4, FeeHasRecipient
    <3> HIDE DEF bal
    <3>4. TotalOf(bal(k + 1)) = TotalOf(bal(k))
      BY <2>2, <3>1, <3>2, <3>3, PostingTotal, SMTT(30)
    <3> QED BY <2>1, <3>4
  <2>5. CASE k + 1 \notin BetsOf(r)
    <3>1. \A a \in Accounts : bal(k + 1)[a] = bal(k)[a] + 0
      BY <1>4, <2>3, <2>5 DEF EffectWeights
    <3> HIDE DEF bal
    <3>2. \A a \in Accounts : bal(k + 1)[a] = bal(k)[a]
      BY <2>2, <3>1
    <3>3. bal(k + 1) = bal(k)
      BY <2>2, <3>2
    <3> QED BY <2>1, <3>3
  <2> QED BY <2>4, <2>5
<1>7. balance' = bal(Len(bets))
  <2>1. balance' = BalanceWhen(r, rd, in, BetsOf(r))
    BY FinishResults
  <2>2. BalanceWhen(r, rd, in, BetsOf(r)) = bal(Len(bets))
    BY DEF BalanceWhen, EffectWeights
  <2> QED BY <2>1, <2>2
<1>8. Len(bets) \in S
  <2> HIDE DEF S
  <2> QED BY <1>1, <1>5, <1>6, NatSetInduction
<1>9. TotalOf(bal(Len(bets))) = TotalOf(balance)
  <2> HIDE DEF bal
  <2> QED BY <1>1, <1>8
<1> HIDE DEF bal
<1> QED BY <1>7, <1>9

(* In house mode all balances add up to zero. *)
ConservedInv == TablesInv /\ TotalOf(balance) = 0

(* Adjust moves points between the outside world and an account. *)
LEMMA AdjustTotal ==
  ASSUME ~ PlayerOnly, TypeOK, NEW c \in Accounts, NEW delta \in Deltas, Adjust(c, delta)
  PROVE  TotalOf(balance') = TotalOf(balance)
<1>1. delta \in Int /\ balance \in [Accounts -> Int] /\ External \in Accounts
  BY ConstantsAssumption DEF TypeOK, Accounts, Operators
<1>2. balance' = [a \in Accounts |-> balance[a] + Moved(External, c, delta, a)]
  BY DEF Adjust
<1>3. TotalOf([a \in Accounts |-> balance[a] + Moved(External, c, delta, a)]) = TotalOf(balance)
  BY <1>1, MovedTotal
<1> QED BY <1>2, <1>3

(* The fee of a bet moves from the player to its recipient. *)
LEMMA PlaceBetTotal ==
  ASSUME TypeOK, NEW r \in DOMAIN rounds, NEW p \in Players,
         NEW pos \in Positions, NEW stake \in Stakes, PlaceBet(r, p, pos, stake)
  PROVE  TotalOf(balance') = TotalOf(balance)
<1> DEFINE rl     == rounds[r].rules
           charge == IF PlayerOnly THEN 0 ELSE fee(stake)
           atOnce == IF ~ PlayerOnly /\ rl.feeTiming # "settlement" THEN charge ELSE 0
           to     == rl.feeRecipient
<1>1. atOnce \in Nat
  <2>1. stake \in Int
    BY ConstantsAssumption
  <2> QED BY <2>1, FeeNat
<1>2. /\ CanTransfer(balance, locked, p, to, atOnce)
      /\ balance' = [a \in Accounts |-> balance[a] + Moved(p, to, atOnce, a)]
  BY DEF PlaceBet
<1> HIDE DEF atOnce, rl, to, charge
<1>3. atOnce = 0 \/ (p \in Accounts /\ to \in Accounts)
  BY <1>2 DEF CanTransfer, AccountExists
<1>4. atOnce \in Int /\ balance \in [Accounts -> Int]
  BY <1>1 DEF TypeOK
<1>5. TotalOf([a \in Accounts |-> balance[a] + Moved(p, to, atOnce, a)]) = TotalOf(balance)
  BY <1>3, <1>4, MovedTotal
<1> QED BY <1>2, <1>5

(* Nobody has anything at the start. *)
LEMMA InitTotal == Init => TotalOf(balance) = 0
<1> SUFFICES ASSUME Init PROVE TotalOf(balance) = 0
  OBVIOUS
<1> DEFINE n == Cardinality(Accounts)
           w == TotalWeights(balance)
<1>1. n \in Nat
  BY RowsList
<1>2. balance \in [Accounts -> Int] /\ \A a \in Accounts : balance[a] = 0
  BY DEF Init
<1>3. TotalOf(balance) = SumTo(w, n) /\ w \in [Nat -> Int]
  BY <1>2, TotalIs
<1>4. \A i \in 1 .. n : w[i] = 0
  BY <1>1, <1>2, RowsList DEF TotalWeights
<1> HIDE DEF n, w
<1> QED BY <1>1, <1>3, <1>4, SumZero

(* Every command leaves the total as it is. *)
LEMMA NextTotal ==
  ASSUME ~ PlayerOnly PROVE ConservedInv /\ [Next]_vars => ConservedInv'
<1> SUFFICES ASSUME ConservedInv, [Next]_vars PROVE ConservedInv'
  OBVIOUS
<1>1. TypeOK /\ BankerChosen /\ TablesInv'
  BY NextTables DEF ConservedInv, TablesInv
<1>2. CASE UNCHANGED <<balance, locked>>
  BY <1>1, <1>2 DEF ConservedInv
<1>3. CASE \E a \in Accounts, delta \in Deltas : Adjust(a, delta)
  BY <1>1, <1>3, AdjustTotal DEF ConservedInv
<1>4. CASE \E r \in DOMAIN rounds, p \in Players, pos \in Positions, stake \in Stakes :
             PlaceBet(r, p, pos, stake)
  BY <1>1, <1>4, PlaceBetTotal DEF ConservedInv
<1>5. CASE \E r \in DOMAIN rounds, in \in Inputs : Settle(r, in) \/ CancelRound(r, in)
  <2>1. PICK r \in DOMAIN rounds, in \in Inputs : Settle(r, in) \/ CancelRound(r, in)
    BY <1>5
  <2>2. PICK rd \in Round : rd.banker \in Positions /\ Finish(r, rd, in)
    BY <1>1, <2>1, FinishedRow
  <2>3. in \in Input
    BY <1>1, <2>1, FinishedRow
  <2>4. TotalOf(balance') = TotalOf(balance)
    BY <1>1, <2>2, <2>3, FinishTotal
  <2> QED BY <1>1, <2>4 DEF ConservedInv
<1> QED BY <1>2, <1>3, <1>4, <1>5, BalanceSteps

(* The audit's formula for a bet is that of its reservation. *)
LEMMA ExpectedIsHeld ==
  ASSUME ~ PlayerOnly, LocksInv, NEW a \in Accounts
  PROVE  Expected(a) = locked[a]
<1>1. \A i \in DOMAIN bets : RulesOf(bets[i]).feeTiming \in {"acceptance", "settlement"}
  <2> SUFFICES ASSUME NEW i \in DOMAIN bets
               PROVE  RulesOf(bets[i]).feeTiming \in {"acceptance", "settlement"}
    OBVIOUS
  <2>1. bets[i].round \in DOMAIN rounds
    BY DEF LocksInv, TablesInv, BetsMatchRound
  <2>2. rounds[bets[i].round] \in Round
    BY <2>1, SeqFacts DEF LocksInv, TablesInv, TypeOK
  <2>3. rounds[bets[i].round].rules.feeTiming \in FeeTimings
    BY <2>2 DEF Round, ValidRuleSets, Rules
  <2> QED BY <2>1, <2>3 DEF LocksInv, FeesInv, RulesOf, FeeTimings
<1>2. \A i \in DOMAIN bets :
        ExpectedOf(bets[i], RulesOf(bets[i]), a) = Hold(bets[i], RulesOf(bets[i]), a)
  BY <1>1 DEF ExpectedOf, Hold, Reserve, Exposure
<1>3. \A i \in Nat :
        (IF i \in DOMAIN bets /\ bets[i].state = "RESERVED"
         THEN ExpectedOf(bets[i], RulesOf(bets[i]), a) ELSE 0) = HeldBy(i, a)
  BY <1>2 DEF HeldBy
<1>4. Expected(a) = SumTo([i \in Nat |-> HeldBy(i, a)], Len(bets))
  BY <1>3 DEF Expected
<1> QED BY <1>4 DEF LocksInv, LockedIsHeld

(* In house mode, with rules that name when fees are taken, the audit finds  *)
(* no fault: it rebuilds from the open bets exactly what is locked, and no   *)
(* command makes or loses a point, settlements, fees and refunds included.   *)
THEOREM AuditFindsNoFault ==
  ASSUME TimedRules, ~ PlayerOnly PROVE Spec => []ReconcileBalanced
<1>1. Init => LocksInv /\ ConservedInv
  BY InitLocks, InitTables, InitTotal DEF ConservedInv
<1>2. LocksInv /\ ConservedInv /\ [Next]_vars => LocksInv' /\ ConservedInv'
  BY NextLocks, NextTotal
<1>3. LocksInv /\ ConservedInv => ReconcileBalanced
  BY ExpectedIsHeld DEF ReconcileBalanced, ConservedInv, BalanceSum
<1> QED BY <1>1, <1>2, <1>3, PTL DEF Spec

-----------------------------------------------------------------------------
(* Scoring *)

(* Evaluate stops at a triple: one that makes a multiple of ten. *)
LEMMA FirstTripleIn ==
  ASSUME NEW T, T \subseteq Triples, T # {}
  PROVE  FirstTriple(T) \in T
<1> DEFINE code(t) == 25 * t[1] + 5 * t[2] + t[3]
           C == { code(t) : t \in T }
<1>1. \A t \in Triples : code(t) \in Nat
  BY DEF Triples
<1>2. C \subseteq Nat /\ C # {}
  BY <1>1
<1>3. PICK m \in C : \A k \in C : m <= k
  BY <1>2, NatLeast
<1>4. PICK t \in T : code(t) = m
  OBVIOUS
<1>5. \A u \in T : code(t) <= code(u)
  BY <1>3, <1>4
<1>6. \A u \in T : Before(t, u)
  BY <1>5 DEF Before
<1> QED BY <1>6 DEF FirstTriple

(* There are ten triples. *)
LEMMA TripleParts ==
  ASSUME NEW t \in Triples
  PROVE  \/ t = <<1, 2, 3>> \/ t = <<1, 2, 4>> \/ t = <<1, 2, 5>> \/ t = <<1, 3, 4>> \/ t = <<1, 3, 5>>
         \/ t = <<1, 4, 5>> \/ t = <<2, 3, 4>> \/ t = <<2, 3, 5>> \/ t = <<2, 4, 5>> \/ t = <<3, 4, 5>>
BY DEF Triples

(* Whatever the triple, what it leaves has the remainder of the total. *)
LEMMA RankOfTotal ==
  ASSUME NEW d, \A i \in 1 .. 5 : d[i] \in Digit, NEW t \in Triples, TripleSum(d, t) % 10 = 0
  PROVE  RankOf(d, t) \in 1 .. 10 /\ RankOf(d, t) % 10 = Total(d) % 10
<1> DEFINE s == TripleSum(d, t)
           n == Total(d)
<1>1. /\ d[1] \in 0 .. 9 /\ d[2] \in 0 .. 9 /\ d[3] \in 0 .. 9 /\ d[4] \in 0 .. 9 /\ d[5] \in 0 .. 9
      /\ t[1] \in 1 .. 5 /\ t[2] \in 1 .. 5 /\ t[3] \in 1 .. 5
  BY DEF Digit, Triples
<1>2. d[t[1]] \in 0 .. 9 /\ d[t[2]] \in 0 .. 9 /\ d[t[3]] \in 0 .. 9
  BY <1>1 DEF Digit
<1>3. s \in Int
  BY <1>2 DEF TripleSum
<1>4. n \in Int
  BY <1>1 DEF Total
<1>5. s % 10 = 0
  OBVIOUS
<1>6. RankOf(d, t) = IF (n - s) % 10 = 0 THEN 10 ELSE (n - s) % 10
  <2>1. n = d[1] + d[2] + d[3] + d[4] + d[5]
    BY DEF Total
  <2>2. RankOf(d, t) = IF (d[1] + d[2] + d[3] + d[4] + d[5] - s) % 10 = 0 THEN 10
                       ELSE (d[1] + d[2] + d[3] + d[4] + d[5] - s) % 10
    BY DEF RankOf
  <2> HIDE DEF n, s
  <2>3. d[1] + d[2] + d[3] + d[4] + d[5] - s = n - s
    BY <1>1, <1>3, <2>1
  <2> QED BY <2>2, <2>3, Zenon
<1>10. n = Total(d)
  OBVIOUS
<1> HIDE DEF s, n
<1>7. (n - s) % 10 = n % 10 /\ n % 10 \in 0 .. 9
  BY <1>3, <1>4, <1>5
<1> DEFINE r == (n - s) % 10
<1>8. r \in 0 .. 9 /\ r = n % 10
  BY <1>7
<1>9. RankOf(d, t) = IF r = 0 THEN 10 ELSE r
  BY <1>6
<1> HIDE DEF r
<1> QED BY <1>8, <1>9, <1>10

(* Five digits. *)
Five(d) == \A i \in 1 .. 5 : d[i] \in Digit

(* Evaluate gives five digits rank 0 without a triple, and otherwise the   *)
(* remainder of the total.                                                 *)
LEMMA RankOfDigits ==
  ASSUME NEW d, Five(d), NEW z
  PROVE  IF BullTriples(d, z) = {} THEN EvaluateDigits(d, z).rank = 0
         ELSE /\ EvaluateDigits(d, z).rank \in 1 .. 10
              /\ EvaluateDigits(d, z).rank % 10 = Total(d) % 10
<1> DEFINE T == BullTriples(d, z)
           t == FirstTriple(T)
<1>1. EvaluateDigits(d, z).rank = IF T = {} THEN 0 ELSE RankOf(d, t)
  BY DEF EvaluateDigits
<1>2. ASSUME T # {} PROVE RankOf(d, t) \in 1 .. 10 /\ RankOf(d, t) % 10 = Total(d) % 10
  <2>1. T \subseteq Triples
    BY DEF BullTriples
  <2>2. t \in T
    BY <1>2, <2>1, FirstTripleIn
  <2>3. t \in Triples /\ TripleSum(d, t) % 10 = 0
    BY <2>2 DEF BullTriples
  <2> HIDE DEF t
  <2> QED BY <2>3, RankOfTotal DEF Five
<1> QED BY <1>1, <1>2

(* The largest digit is among the five and none of them is larger. *)
LEMMA MaxDigitIs ==
  ASSUME NEW d, Five(d)
  PROVE  /\ MaxDigit(d) \in Digit
         /\ \E i \in 1 .. 5 : d[i] = MaxDigit(d)
         /\ \A i \in 1 .. 5 : d[i] <= MaxDigit(d)
<1> DEFINE C == { 9 - d[i] : i \in 1 .. 5 }
<1>1. \A i \in 1 .. 5 : d[i] \in 0 .. 9
  BY DEF Five, Digit
<1>2. C \subseteq Nat /\ C # {}
  <2>1. 9 - d[1] \in C
    OBVIOUS
  <2> QED BY <1>1, <2>1
<1>3. PICK m \in C : \A k \in C : m <= k
  BY <1>2, NatLeast
<1>4. PICK k \in 1 .. 5 : 9 - d[k] = m
  OBVIOUS
<1>5. \A i \in 1 .. 5 : 9 - d[k] <= 9 - d[i]
  BY <1>3, <1>4
<1>6. \A i \in 1 .. 5 : d[i] <= d[k]
  BY <1>1, <1>5
<1>7. \E x \in Digit : (\E i \in 1 .. 5 : d[i] = x) /\ (\A i \in 1 .. 5 : d[i] <= x)
  BY <1>6 DEF Five
<1> QED BY <1>7 DEF MaxDigit

(* Rank and largest digit are found by looking at ten triples and at five  *)
(* digits: the hand of five digits in another order is the same.           *)
LEMMA SameHand ==
  ASSUME NEW d, Five(d), NEW v, Five(v), NEW z,
         Total(d) = Total(v),
         BullTriples(d, z) = {} <=> BullTriples(v, z) = {},
         \A i \in 1 .. 5 : \E j \in 1 .. 5 : d[i] = v[j],
         \A j \in 1 .. 5 : \E i \in 1 .. 5 : d[i] = v[j]
  PROVE  /\ EvaluateDigits(d, z).rank = EvaluateDigits(v, z).rank
         /\ EvaluateDigits(d, z).max = EvaluateDigits(v, z).max
<1> DEFINE r == EvaluateDigits(d, z).rank
           q == EvaluateDigits(v, z).rank
           m == MaxDigit(d)
           k == MaxDigit(v)
<1>1. IF BullTriples(d, z) = {} THEN r = 0 /\ q = 0
      ELSE r \in 1 .. 10 /\ q \in 1 .. 10 /\ r % 10 = q % 10
  <2>1. IF BullTriples(d, z) = {} THEN r = 0 ELSE r \in 1 .. 10 /\ r % 10 = Total(d) % 10
    BY RankOfDigits
  <2>2. IF BullTriples(v, z) = {} THEN q = 0 ELSE q \in 1 .. 10 /\ q % 10 = Total(v) % 10
    BY RankOfDigits
  <2> HIDE DEF r, q
  <2> QED BY <2>1, <2>2
<1>2. m \in 0 .. 9 /\ k \in 0 .. 9 /\ m <= k /\ k <= m
  <2>1. /\ m \in 0 .. 9 /\ k \in 0 .. 9
        /\ \E i \in 1 .. 5 : d[i] = m
        /\ \A i \in 1 .. 5 : d[i] <= m
        /\ \E i \in 1 .. 5 : v[i] = k
        /\ \A i \in 1 .. 5 : v[i] <= k
    BY MaxDigitIs DEF Digit
  <2> HIDE DEF m, k
  <2> QED BY <2>1
<1>3. EvaluateDigits(d, z).max = m /\ EvaluateDigits(v, z).max = k
  BY DEF EvaluateDigits
<1> HIDE DEF r, q, m, k
<1>4. r = q
  BY <1>1
<1>5. m = k
  BY <1>2
<1> QED BY <1>3, <1>4, <1>5 DEF r, q

(* Where the 1 goes in four digits, counted from the front. *)
Inserted(w, n) == SubSeq(w, 1, n) \o <<1>> \o SubSeq(w, n + 1, 4)

(* The digits after the insertion. *)
LEMMA InsertedDigits ==
  ASSUME NEW w \in Seq(Digit), Len(w) = 4, NEW n \in 0 .. 4
  PROVE  \A i \in 1 .. 5 :
           Inserted(w, n)[i] = IF i <= n THEN w[i] ELSE IF i = n + 1 THEN 1 ELSE w[i - 1]
<1> DEFINE a == SubSeq(w, 1, n)
           b == SubSeq(w, n + 1, 4)
<1>1. a \in Seq(Digit) /\ Len(a) = n /\ \A i \in 1 .. n : a[i] = w[i]
  <2>1. \A i \in 1 .. n : w[i] \in Digit
    BY ElementOfSeq
  <2> QED BY <2>1, SubSeqProperties
<1>2. b \in Seq(Digit) /\ Len(b) = 4 - n /\ \A i \in 1 .. 4 - n : b[i] = w[i + n]
  <2>1. \A i \in 1 .. 4 : w[i] \in Digit
    BY ElementOfSeq
  <2>2. \A i \in n + 1 .. 4 : w[i] \in Digit
    BY <2>1
  <2> QED BY <2>2, SubSeqProperties
<1>3. <<1>> \in Seq(Digit) /\ Len(<<1>>) = 1 /\ <<1>>[1] = 1
  BY DEF Digit
<1> DEFINE o == <<1>>
<1> HIDE DEF a, b, o
<1>4. o \in Seq(Digit) /\ Len(o) = 1 /\ o[1] = 1
  BY <1>3 DEF o
<1>5. /\ a \o o \in Seq(Digit) /\ Len(a \o o) = n + 1
      /\ \A i \in 1 .. n + 1 : (a \o o)[i] = IF i <= n THEN a[i] ELSE o[i - n]
  <2>1. /\ a \o o \in Seq(Digit) /\ Len(a \o o) = Len(a) + Len(o)
        /\ \A i \in 1 .. Len(a) + Len(o) :
             (a \o o)[i] = IF i <= Len(a) THEN a[i] ELSE o[i - Len(a)]
    BY <1>1, <1>4, ConcatProperties, Zenon
  <2> QED BY <1>1, <1>4, <2>1
<1> DEFINE c == a \o o
<1> HIDE DEF c
<1>6. c \in Seq(Digit) /\ Len(c) = n + 1 /\ c[n + 1] = 1 /\ \A i \in 1 .. n : c[i] = w[i]
  BY <1>1, <1>4, <1>5 DEF c
<1>7. \A i \in 1 .. 5 : (c \o b)[i] = IF i <= n + 1 THEN c[i] ELSE b[i - (n + 1)]
  BY <1>2, <1>6, ConcatProperties
<1>8. Inserted(w, n) = c \o b
  BY DEF Inserted, a, b, c, o
<1> SUFFICES ASSUME NEW i \in 1 .. 5
             PROVE  (c \o b)[i] = IF i <= n THEN w[i] ELSE IF i = n + 1 THEN 1 ELSE w[i - 1]
  BY <1>8
<1>9. CASE i <= n
  BY <1>6, <1>7, <1>9
<1>10. CASE i = n + 1
  BY <1>6, <1>7, <1>10
<1>11. CASE i > n + 1
  <2>1. ~ (i <= n + 1) /\ ~ (i <= n) /\ i # n + 1
    BY <1>11
  <2>2. (c \o b)[i] = b[i - (n + 1)]
    BY <1>7, <2>1, Zenon
  <2> DEFINE k == i - (n + 1)
  <2>3. k \in 1 .. 4 - n /\ k + n = i - 1
    BY <1>11
  <2> HIDE DEF k
  <2>4. b[k] = w[i - 1]
    BY <1>2, <2>3
  <2>5. (c \o b)[i] = w[i - 1]
    BY <2>2, <2>4 DEF k
  <2> QED BY <2>1, <2>5, Zenon
<1>12. i <= n \/ i = n + 1 \/ i > n + 1
  OBVIOUS
<1> QED BY <1>9, <1>10, <1>11, <1>12

(* Three digits make a multiple of ten that counts. *)
Ten(x, y, w, z) == (x + y + w) % 10 = 0 /\ (x + y + w = 0 => z)

(* In any order. *)
LEMMA TenOfAny ==
  ASSUME NEW x \in Digit, NEW y \in Digit, NEW w \in Digit, NEW z
  PROVE  Ten(x, y, w, z) = Ten(y, x, w, z) /\ Ten(x, y, w, z) = Ten(x, w, y, z)
<1>1. x + y + w = y + x + w /\ x + y + w = x + w + y
  BY DEF Digit
<1> QED BY <1>1 DEF Ten

(* The ten triples one by one. *)
LEMMA TenTriples ==
  ASSUME NEW d, NEW z
  PROVE  BullTriples(d, z) = {} <=>
           ~ (\/ Ten(d[1], d[2], d[3], z) \/ Ten(d[1], d[2], d[4], z) \/ Ten(d[1], d[2], d[5], z)
              \/ Ten(d[1], d[3], d[4], z) \/ Ten(d[1], d[3], d[5], z) \/ Ten(d[1], d[4], d[5], z)
              \/ Ten(d[2], d[3], d[4], z) \/ Ten(d[2], d[3], d[5], z) \/ Ten(d[2], d[4], d[5], z)
              \/ Ten(d[3], d[4], d[5], z))
<1> DEFINE Of(t) == Ten(d[t[1]], d[t[2]], d[t[3]], z)
<1>1. BullTriples(d, z) = {} <=> \A t \in Triples : ~ Of(t)
  BY DEF BullTriples, TripleSum, Ten
<1>2. /\ <<1, 2, 3>> \in Triples /\ <<1, 2, 4>> \in Triples /\ <<1, 2, 5>> \in Triples
      /\ <<1, 3, 4>> \in Triples /\ <<1, 3, 5>> \in Triples /\ <<1, 4, 5>> \in Triples
      /\ <<2, 3, 4>> \in Triples /\ <<2, 3, 5>> \in Triples /\ <<2, 4, 5>> \in Triples
      /\ <<3, 4, 5>> \in Triples
  BY DEF Triples
<1>3. /\ Of(<<1, 2, 3>>) = Ten(d[1], d[2], d[3], z) /\ Of(<<1, 2, 4>>) = Ten(d[1], d[2], d[4], z)
      /\ Of(<<1, 2, 5>>) = Ten(d[1], d[2], d[5], z) /\ Of(<<1, 3, 4>>) = Ten(d[1], d[3], d[4], z)
      /\ Of(<<1, 3, 5>>) = Ten(d[1], d[3], d[5], z) /\ Of(<<1, 4, 5>>) = Ten(d[1], d[4], d[5], z)
      /\ Of(<<2, 3, 4>>) = Ten(d[2], d[3], d[4], z) /\ Of(<<2, 3, 5>>) = Ten(d[2], d[3], d[5], z)
      /\ Of(<<2, 4, 5>>) = Ten(d[2], d[4], d[5], z) /\ Of(<<3, 4, 5>>) = Ten(d[3], d[4], d[5], z)
  OBVIOUS
<1>4. \A t \in Triples :
        \/ t = <<1, 2, 3>> \/ t = <<1, 2, 4>> \/ t = <<1, 2, 5>> \/ t = <<1, 3, 4>> \/ t = <<1, 3, 5>>
        \/ t = <<1, 4, 5>> \/ t = <<2, 3, 4>> \/ t = <<2, 3, 5>> \/ t = <<2, 4, 5>> \/ t = <<3, 4, 5>>
  BY TripleParts
<1> HIDE DEF Of
<1> QED BY <1>1, <1>2, <1>3, <1>4, Zenon

(* The 1 in front. *)
LEMMA PaddedDigits ==
  ASSUME NEW w \in Seq(Digit), Len(w) = 4
  PROVE  /\ <<1>> \o w \in Seq(Digit) /\ Len(<<1>> \o w) = 5
         /\ \A i \in 1 .. 5 : (<<1>> \o w)[i] = IF i = 1 THEN 1 ELSE w[i - 1]
<1>1. <<1>> \in Seq(Digit) /\ Len(<<1>>) = 1 /\ <<1>>[1] = 1
  BY DEF Digit
<1> DEFINE o == <<1>>
<1> HIDE DEF o
<1>2. o \in Seq(Digit) /\ Len(o) = 1 /\ o[1] = 1
  BY <1>1 DEF o
<1>3. /\ o \o w \in Seq(Digit) /\ Len(o \o w) = Len(o) + Len(w)
      /\ \A i \in 1 .. Len(o) + Len(w) : (o \o w)[i] = IF i <= Len(o) THEN o[i] ELSE w[i - Len(o)]
  BY <1>2, ConcatProperties, Zenon
<1>4. ASSUME NEW i \in 1 .. 5 PROVE (o \o w)[i] = IF i = 1 THEN 1 ELSE w[i - 1]
  <2>1. i \in 1 .. Len(o) + Len(w)
    BY <1>2
  <2>2. (o \o w)[i] = IF i <= Len(o) THEN o[i] ELSE w[i - Len(o)]
    BY <1>3, <2>1, Zenon
  <2> QED BY <1>2, <2>2
<1>5. Len(o \o w) = 5
  BY <1>2, <1>3
<1> QED BY <1>3, <1>4, <1>5 DEF o

(* Its place makes no difference: the five digits are the same. *)
LEMMA InsertedHand ==
  ASSUME NEW w \in Seq(Digit), Len(w) = 4, NEW n \in 0 .. 4, NEW z
  PROVE  LET h == EvaluateDigits(<<1>> \o w, z)
             g == EvaluateDigits(Inserted(w, n), z)
         IN  g.rank = h.rank /\ g.max = h.max
<1> DEFINE v == <<1>> \o w
           d == Inserted(w, n)
<1>1. /\ w[1] \in Digit /\ w[2] \in Digit /\ w[3] \in Digit /\ w[4] \in Digit /\ 1 \in Digit
  <2>1. \A i \in 1 .. 4 : w[i] \in Digit
    BY ElementOfSeq
  <2> QED BY <2>1 DEF Digit
<1>2. v[1] = 1 /\ v[2] = w[1] /\ v[3] = w[2] /\ v[4] = w[3] /\ v[5] = w[4]
  <2>1. \A i \in 1 .. 5 : v[i] = IF i = 1 THEN 1 ELSE w[i - 1]
    BY PaddedDigits
  <2> HIDE DEF v
  <2> QED BY <2>1
<1>3. \A i \in 1 .. 5 : d[i] = IF i <= n THEN w[i] ELSE IF i = n + 1 THEN 1 ELSE w[i - 1]
  BY InsertedDigits
<1> HIDE DEF v, d
<1>4. \/ d[1] = 1 /\ d[2] = w[1] /\ d[3] = w[2] /\ d[4] = w[3] /\ d[5] = w[4]
      \/ d[1] = w[1] /\ d[2] = 1 /\ d[3] = w[2] /\ d[4] = w[3] /\ d[5] = w[4]
      \/ d[1] = w[1] /\ d[2] = w[2] /\ d[3] = 1 /\ d[4] = w[3] /\ d[5] = w[4]
      \/ d[1] = w[1] /\ d[2] = w[2] /\ d[3] = w[3] /\ d[4] = 1 /\ d[5] = w[4]
      \/ d[1] = w[1] /\ d[2] = w[2] /\ d[3] = w[3] /\ d[4] = w[4] /\ d[5] = 1
  <2>1. n = 0 \/ n = 1 \/ n = 2 \/ n = 3 \/ n = 4
    OBVIOUS
  <2> QED BY <1>3, <2>1
<1>5. Five(d) /\ Five(v)
  BY <1>1, <1>2, <1>4 DEF Five
<1>6. Total(d) = Total(v)
  <2>1. /\ w[1] \in 0 .. 9 /\ w[2] \in 0 .. 9 /\ w[3] \in 0 .. 9 /\ w[4] \in 0 .. 9
    BY <1>1 DEF Digit
  <2>2. Total(v) = 1 + w[1] + w[2] + w[3] + w[4]
    BY <1>2 DEF Total
  <2>3. Total(d) = 1 + w[1] + w[2] + w[3] + w[4]
    <3>1. Total(d) = d[1] + d[2] + d[3] + d[4] + d[5]
      BY DEF Total
    <3> DEFINE p == w[1] q == w[2] r == w[3] s == w[4] x == d[1] y == d[2] u == d[3] k == d[4] l == d[5]
    <3>2. p \in 0 .. 9 /\ q \in 0 .. 9 /\ r \in 0 .. 9 /\ s \in 0 .. 9
      BY <2>1
    <3>3. \/ x = 1 /\ y = p /\ u = q /\ k = r /\ l = s
          \/ x = p /\ y = 1 /\ u = q /\ k = r /\ l = s
          \/ x = p /\ y = q /\ u = 1 /\ k = r /\ l = s
          \/ x = p /\ y = q /\ u = r /\ k = 1 /\ l = s
          \/ x = p /\ y = q /\ u = r /\ k = s /\ l = 1
      BY <1>4
    <3>4. Total(d) = x + y + u + k + l
      BY <3>1
    <3> HIDE DEF p, q, r, s, x, y, u, k, l
    <3>5. x + y + u + k + l = 1 + p + q + r + s
      BY <3>2, <3>3
    <3> QED BY <3>4, <3>5 DEF p, q, r, s
  <2> QED BY <2>2, <2>3
<1>7. \A i \in 1 .. 5 : \E j \in 1 .. 5 : d[i] = v[j]
  BY <1>2, <1>4
<1>8. \A j \in 1 .. 5 : \E i \in 1 .. 5 : d[i] = v[j]
  BY <1>2, <1>4
<1>9. BullTriples(d, z) = {} <=> BullTriples(v, z) = {}
  <2> DEFINE B(x, y, u) == Ten(x, y, u, z)
  <2>1. \A x, y, u \in Digit : B(x, y, u) = B(y, x, u) /\ B(x, y, u) = B(x, u, y)
    BY TenOfAny
  <2>2. \A f : BullTriples(f, z) = {} <=>
          ~ (\/ B(f[1], f[2], f[3]) \/ B(f[1], f[2], f[4]) \/ B(f[1], f[2], f[5])
             \/ B(f[1], f[3], f[4]) \/ B(f[1], f[3], f[5]) \/ B(f[1], f[4], f[5])
             \/ B(f[2], f[3], f[4]) \/ B(f[2], f[3], f[5]) \/ B(f[2], f[4], f[5])
             \/ B(f[3], f[4], f[5]))
    BY TenTriples
  <2> HIDE DEF B
  <2> QED BY <1>1, <1>2, <1>4, <2>1, <2>2
<1>10. /\ EvaluateDigits(d, z).rank = EvaluateDigits(v, z).rank
       /\ EvaluateDigits(d, z).max = EvaluateDigits(v, z).max
  BY <1>5, <1>6, <1>7, <1>8, <1>9, SameHand
<1> QED BY <1>10 DEF d, v

(* What is typed are digits. *)
Typed == raw \in Seq(Digit)

(* Four, five and six digits become five. *)
LEMMA NormalizedFive ==
  ASSUME NEW w \in Seq(Digit), ValidRaw(w), Len(w) > 3
  PROVE  Five(Normalized(w))
<1>1. Len(w) \in Nat /\ \A i \in 1 .. Len(w) : w[i] \in Digit
  BY ElementOfSeq, LenProperties
<1>2. CASE Len(w) = 4
  <2>1. Normalized(w) = <<1>> \o w
    BY <1>2 DEF Normalized
  <2>2. <<1>> \o w \in Seq(Digit) /\ Len(<<1>> \o w) = 5
    BY <1>2, PaddedDigits
  <2>3. \A i \in 1 .. 5 : (<<1>> \o w)[i] \in Digit
    BY <2>2, ElementOfSeq
  <2> QED BY <2>1, <2>3 DEF Five
<1>3. CASE Len(w) = 5
  BY <1>1, <1>3 DEF Normalized, Five
<1>4. CASE Len(w) = 6
  <2>1. Normalized(w) = Tail(w) /\ w # << >>
    BY <1>4 DEF Normalized
  <2>2. Tail(w) \in Seq(Digit) /\ Len(Tail(w)) = 5
    BY <1>4, <2>1, HeadTailProperties
  <2>3. \A i \in 1 .. 5 : Tail(w)[i] \in Digit
    BY <2>2, ElementOfSeq
  <2> QED BY <2>1, <2>3 DEF Five
<1> QED BY <1>1, <1>2, <1>3, <1>4 DEF ValidRaw

(* More than three digits are scored. *)
LEMMA HandOfDigits ==
  ASSUME Typed, ValidRaw(raw), Len(raw) > 3
  PROVE  hand = EvaluateDigits(Normalized(raw), zeroTriple)
<1>1. Len(raw) \in Nat
  BY LenProperties DEF Typed
<1> DEFINE n == Len(raw)
<1>2. n \in Nat /\ n > 3
  BY <1>1
<1>3. n # 3
  <2> HIDE DEF n
  <2> QED BY <1>2
<1> QED BY <1>3 DEF hand, Evaluate

(* Typing and clearing leave digits only. *)
LEMMA TypedInv == Typed /\ [TypingNext]_typing => Typed'
<1> SUFFICES ASSUME Typed, [TypingNext]_typing PROVE Typed'
  OBVIOUS
<1>1. ASSUME NEW d \in Digits, Type(d) PROVE Typed'
  BY <1>1, DigitsAssumption, AppendProperties DEF Type, Typed
<1>2. CASE Clear
  BY <1>2 DEF Clear, Typed
<1>3. CASE UNCHANGED typing
  BY <1>3 DEF typing, Typed
<1> QED BY <1>1, <1>2, <1>3 DEF TypingNext

(* The rank is the total of the five digits mod 10 (or none), whichever     *)
(* triple the loops meet first, for every damage (pkg/bull/bull.go:67-91).  *)
THEOREM RankIsTotal == TypingSpec => []RankByTotal
<1>1. Typed => RankByTotal
  <2> SUFFICES ASSUME Typed, ValidRaw(raw), Len(raw) > 3
               PROVE  LET d == Normalized(raw)
                      IN  IF BullTriples(d, zeroTriple) = {} THEN hand.rank = 0
                          ELSE hand.rank \in 1 .. 10 /\ hand.rank % 10 = Total(d) % 10
    BY DEF RankByTotal
  <2>1. Five(Normalized(raw)) /\ hand = EvaluateDigits(Normalized(raw), zeroTriple)
    BY NormalizedFive, HandOfDigits DEF Typed
  <2> QED BY <2>1, RankOfDigits
<1>2. TypingInit => Typed
  BY DEF TypingInit, Typed
<1> QED BY <1>1, <1>2, TypedInv, PTL DEF TypingSpec

(* The comment of pkg/bull/bull.go:25: where the extra 1 of a four-digit    *)
(* damage goes changes neither the rank nor the largest digit.              *)
THEOREM InsertionIsFree == TypingSpec => []InsertionFree
<1>1. Typed => InsertionFree
  <2> SUFFICES ASSUME Typed, ValidRaw(raw), Len(raw) = 4, NEW n \in 0 .. 4
               PROVE  LET d == SubSeq(raw, 1, n) \o <<1>> \o SubSeq(raw, n + 1, 4)
                          h == EvaluateDigits(d, zeroTriple)
                      IN  h.rank = hand.rank /\ h.max = hand.max
    BY DEF InsertionFree
  <2>1. hand = EvaluateDigits(<<1>> \o raw, zeroTriple)
    BY HandOfDigits DEF Normalized
  <2>2. LET h == EvaluateDigits(<<1>> \o raw, zeroTriple)
            g == EvaluateDigits(Inserted(raw, n), zeroTriple)
        IN  g.rank = h.rank /\ g.max = h.max
    BY InsertedHand DEF Typed
  <2> QED BY <2>1, <2>2 DEF Inserted
<1>2. TypingInit => Typed
  BY DEF TypingInit, Typed
<1> QED BY <1>1, <1>2, TypedInv, PTL DEF TypingSpec

(* Whatever the damages, never both of two heroes would win as the player   *)
(* against the other, and both lose only in a full tie, which is the        *)
(* banker's (pkg/bull/bull.go:102-119).                                     *)
THEOREM TiesToBanker == TypingSpec => []TieToBanker
<1> DEFINE mine == hand
<1>1. Typed => TieToBanker
  <2> SUFFICES ASSUME Typed, ~ mine.void, NEW h \in Scored
               PROVE  /\ {Compare(mine, h), Compare(h, mine)} # {"WIN"}
                      /\ Compare(mine, h) = Compare(h, mine) => h.rank = mine.rank /\ h.max = mine.max
    BY DEF TieToBanker
  <2>1. ValidRaw(raw) /\ Len(raw) # 3
    BY DEF hand, Evaluate, BadHand, VoidHand
  <2>2. Len(raw) > 3
    <3>1. Len(raw) \in 3 .. 6 /\ Len(raw) # 3
      BY <2>1 DEF ValidRaw
    <3> QED BY <3>1
  <2> DEFINE d == Normalized(raw)
  <2>3. Five(d) /\ mine = EvaluateDigits(d, zeroTriple)
    BY <2>1, <2>2, NormalizedFive, HandOfDigits DEF Typed
  <2>4. mine.rank \in 0 .. 10
    BY <2>3, RankOfDigits
  <2>5. mine.max \in 0 .. 9
    BY <2>3, MaxDigitIs DEF EvaluateDigits, Digit
  <2>6. h.rank \in 0 .. 10 /\ h.max \in 0 .. 9 /\ h.void = FALSE
    BY DEF Scored, Hand, Digit
  <2> DEFINE r == mine.rank m == mine.max q == h.rank k == h.max
  <2>7. Compare(mine, h) = IF r > q \/ (r = q /\ m > k) THEN "WIN" ELSE "LOSS"
    BY <2>6 DEF Compare
  <2>8. Compare(h, mine) = IF q > r \/ (q = r /\ k > m) THEN "WIN" ELSE "LOSS"
    BY <2>6 DEF Compare
  <2>9. r \in 0 .. 10 /\ q \in 0 .. 10 /\ m \in 0 .. 9 /\ k \in 0 .. 9
    BY <2>4, <2>5, <2>6
  <2> HIDE DEF r, m, q, k
  <2>10. /\ ~ (Compare(mine, h) = "WIN" /\ Compare(h, mine) = "WIN")
         /\ Compare(mine, h) = Compare(h, mine) => q = r /\ k = m
    BY <2>7, <2>8, <2>9
  <2> QED BY <2>10 DEF r, m, q, k
<1>2. TypingInit => Typed
  BY DEF TypingInit, Typed
<1> QED BY <1>1, <1>2, TypedInv, PTL DEF TypingSpec
=============================================================================
