------------------------------- MODULE MCBull -------------------------------
(***************************************************************************)
(* The scoring of module Bull on every raw damage an operator may type,    *)
(* digit by digit, up to the six that are allowed.  The digits in use make *)
(* every kind of triple: all zero, of sum 10, of sum 20, none.             *)
(***************************************************************************)
EXTENDS Bull

CONSTANT Digits

ASSUME DigitsAssumption == Digits \subseteq Digit

VARIABLES raw, zeroTriple

typing == <<raw, zeroTriple>>

TypingInit == raw = << >> /\ zeroTriple \in BOOLEAN

Type(d) ==
  /\ Len(raw) < 6
  /\ raw' = Append(raw, d)
  /\ UNCHANGED zeroTriple

Clear == raw' = << >> /\ UNCHANGED zeroTriple

TypingNext == (\E d \in Digits : Type(d)) \/ Clear

TypingSpec == TypingInit /\ [][TypingNext]_typing

-----------------------------------------------------------------------------
hand == Evaluate(raw, zeroTriple)

Total(d) == d[1] + d[2] + d[3] + d[4] + d[5]

(* The rank does not depend on which triple the loops of Evaluate meet      *)
(* first: it is the total of the digits mod 10, bull bull being rank 10 and *)
(* no bull rank 0, which the two leftover digits of any triple agree on.    *)
RankByTotal ==
  ValidRaw(raw) /\ Len(raw) > 3 =>
    LET d == Normalized(raw)
    IN  IF BullTriples(d, zeroTriple) = {} THEN hand.rank = 0
        ELSE hand.rank \in 1 .. 10 /\ hand.rank % 10 = Total(d) % 10

(* Where Evaluate inserts the extra 1 of a four-digit damage does not change *)
(* the rank or the largest digit, as its comment says (bull.go:25).          *)
InsertionFree ==
  ValidRaw(raw) /\ Len(raw) = 4 =>
    \A n \in 0 .. 4 :
      LET d == SubSeq(raw, 1, n) \o <<1>> \o SubSeq(raw, n + 1, 4)
          h == EvaluateDigits(d, zeroTriple)
      IN  h.rank = hand.rank /\ h.max = hand.max

Scored == Hand \ {BadHand, VoidHand}

(* Of two heroes that swap the parts of player and banker at most one wins, *)
(* and neither only if they tie in rank and largest digit: the banker takes *)
(* every tie.                                                               *)
TieToBanker ==
  LET mine == hand
  IN  ~ mine.void =>
        \A h \in Scored :
          LET asPlayer == Compare(mine, h)
              asBanker == Compare(h, mine)
          IN  /\ {asPlayer, asBanker} # {"WIN"}
              /\ asPlayer = asBanker => h.rank = mine.rank /\ h.max = mine.max
=============================================================================
