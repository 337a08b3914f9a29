-------------------------------- MODULE Bull --------------------------------
(***************************************************************************)
(* Scoring of one hero's raw damage and comparison with the banker, from   *)
(* pkg/bull/bull.go.  A raw damage is the sequence of its decimal digits.  *)
(***************************************************************************)
EXTENDS Integers, Sequences

Digit == 0 .. 9

BadHand  == [bad |-> TRUE,  void |-> TRUE, rank |-> -1, max |-> 0]
VoidHand == [bad |-> FALSE, void |-> TRUE, rank |-> -1, max |-> 0]

(* Every hand an evaluation may lead to; the bad one stands for its error. *)
Hand == {BadHand, VoidHand}
        \cup [bad : {FALSE}, void : {FALSE}, rank : 0 .. 10, max : Digit]

(* Lengths and leading zeros Evaluate accepts. *)
ValidRaw(raw) == Len(raw) \in 3 .. 6 /\ raw[1] # 0

(* Four digits get an extra 1 in front, six lose their first digit. *)
Normalized(raw) ==
  CASE Len(raw) = 4 -> <<1>> \o raw
    [] Len(raw) = 5 -> raw
    [] Len(raw) = 6 -> Tail(raw)

MaxDigit(d) == CHOOSE m \in Digit : /\ \E i \in 1 .. 5 : d[i] = m
                                    /\ \A i \in 1 .. 5 : d[i] <= m

(* A plausible slip: the innermost loop stops one digit early. *)
TriplesOfFour == { t \in (1 .. 2) \X (2 .. 3) \X (3 .. 4) : t[1] < t[2] /\ t[2] < t[3] }

Triples == { t \in (1 .. 3) \X (2 .. 4) \X (3 .. 5) : t[1] < t[2] /\ t[2] < t[3] }

TripleSum(d, t) == d[t[1]] + d[t[2]] + d[t[3]]

(* The triples that make a multiple of ten; 0+0+0 counts only if the rules *)
(* say so.                                                                 *)
BullTriples(d, zeroTriple) ==
  { t \in Triples : /\ TripleSum(d, t) % 10 = 0
                    /\ TripleSum(d, t) = 0 => zeroTriple }

(* The order in which Evaluate's three nested loops meet the triples. *)
Before(t, u) == 25 * t[1] + 5 * t[2] + t[3] <= 25 * u[1] + 5 * u[2] + u[3]

FirstTriple(T) == CHOOSE t \in T : \A u \in T : Before(t, u)

(* A plausible slip: the first triple's remainder is taken without *)
(* turning 0 into 10 (bull bull becomes no bull).                   *)
RankOfNoTen(d, t) ==
  (d[1] + d[2] + d[3] + d[4] + d[5] - TripleSum(d, t)) % 10

(* The digits a triple leaves make the rank; their sum 0 mod 10 is 10. *)
RankOf(d, t) ==
  LET rest == (d[1] + d[2] + d[3] + d[4] + d[5] - TripleSum(d, t)) % 10
  IN  IF rest = 0 THEN 10 ELSE rest

EvaluateDigits(d, zeroTriple) ==
  LET T == BullTriples(d, zeroTriple)
  IN  [bad  |-> FALSE,
       void |-> FALSE,
       rank |-> IF T = {} THEN 0 ELSE RankOf(d, FirstTriple(T)),
       max  |-> MaxDigit(d)]

Evaluate(raw, zeroTriple) ==
  IF ~ ValidRaw(raw) THEN BadHand
  ELSE IF Len(raw) = 3 THEN VoidHand
  ELSE EvaluateDigits(Normalized(raw), zeroTriple)

(* A plausible slip: a full tie goes to the player instead of the banker. *)
CompareTieToPlayer(player, banker) ==
  IF player.void \/ banker.void THEN "VOID"
  ELSE IF player.rank > banker.rank
          \/ (player.rank = banker.rank /\ player.max >= banker.max)
       THEN "WIN" ELSE "LOSS"

(* The player's outcome; at equal ranks only the largest digit counts, and *)
(* the banker wins a full tie.                                             *)
Compare(player, banker) ==
  IF player.void \/ banker.void THEN "VOID"
  ELSE IF player.rank > banker.rank
          \/ (player.rank = banker.rank /\ player.max > banker.max)
       THEN "WIN" ELSE "LOSS"
=============================================================================
