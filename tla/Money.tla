------------------------------- MODULE Money -------------------------------
(***************************************************************************)
(* Integer money arithmetic of internal/app/money.go.  An amount is a      *)
(* whole number of the smallest unit, MoneyScale of which make one point   *)
(* (1000 in the program); a rate is a whole number of hundredths, the      *)
(* "basis" payoutHundredths() returns.                                     *)
(***************************************************************************)
EXTENDS Integers

CONSTANT MoneyScale

ASSUME MoneyScaleAssumption == MoneyScale \in Nat \ {0}

Ranks == 0 .. 10        \* no bull, bull 1 .. bull 9, bull bull
Rates == 0 .. 10000     \* 0 to 100 times the stake, in hundredths

Points(n) == n * MoneyScale

(* Rounds half up to the smallest unit. *)
profitFor(stake, basis) == (stake * basis + 50) \div 100

lossFor(stake, basis) == profitFor(stake, basis)

(* A plausible slip: a loss rate above one is forgotten. *)
riskOfStake(stake, basis) == stake

(* The stake stays reserved even when the loss rate is below one. *)
riskFor(stake, basis) ==
  LET loss == lossFor(stake, basis) IN IF loss > stake THEN loss ELSE stake

(* The house reserves whole points, rounded up. *)
exposureFor(stake, basis) ==
  ((stake * basis + 100 * MoneyScale - 1) \div (100 * MoneyScale)) * MoneyScale

fee(stake) == IF stake <= Points(100) THEN Points(1) ELSE Points(2)

(* Rules.MaxLossMultiplier and Rules.MaxPayout: the largest rate, or 0. *)
MaxRate(rates) ==
  CHOOSE m \in {0} \cup { rates[k] : k \in Ranks } :
    m >= 0 /\ \A k \in Ranks : rates[k] <= m
=============================================================================
