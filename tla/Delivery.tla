------------------------------ MODULE Delivery ------------------------------
(***************************************************************************)
(* What the outbox promises, whatever its workers, its crashes and the     *)
(* network do: an item may be transmitted only while it is licensed; a     *)
(* transmission uses the licence up; only an operator grants a new one;    *)
(* an item leaves after every earlier item of its lane and bot; and it is  *)
(* closed either because it was sent or with a note for the operator.      *)
(* Module Outbox implements this specification.                            *)
(***************************************************************************)
EXTENDS Naturals, Sequences

CONSTANTS
  Lanes,        \* streams whose items leave in order
  Bots,         \* the bots that may transmit
  NoBot,        \* owner of an item produced before any bot was bound
  Backlog       \* lanes of the items an older version left behind

(* A proof needs this of the constants; a module that implements Delivery  *)
(* sees to it.                                                             *)
DeliveryAssumption == NoBot \notin Bots /\ Backlog \in Seq(Lanes)

VARIABLE items    \* every item ever produced, in the order of production

Item == [lane : Lanes, owner : Bots \cup {NoBot}, licensed : BOOLEAN,
         done : BOOLEAN, noted : BOOLEAN, sent : Nat, renewed : Nat]

TypeOK == items \in Seq(Item)

NewItem(l, b) == [lane |-> l, owner |-> b, licensed |-> TRUE, done |-> FALSE,
                  noted |-> FALSE, sent |-> 0, renewed |-> 0]

SameStream(i, j) == items[i].lane = items[j].lane /\ items[i].owner = items[j].owner

Earlier(i) == { j \in 1..(i - 1) : SameStream(i, j) }
-----------------------------------------------------------------------------
Init == items = [i \in DOMAIN Backlog |-> NewItem(Backlog[i], NoBot)]

Produce(l, b) == items' = Append(items, NewItem(l, b))

(* The items nobody owns become those of the first bot that is bound,      *)
(* provided nothing of its own has left.                                   *)
Adopt(b) ==
  /\ \A i \in DOMAIN items : items[i].owner = b => items[i].sent = 0
  /\ items' = [i \in DOMAIN items |->
                 IF items[i].owner = NoBot THEN [items[i] EXCEPT !.owner = b] ELSE items[i]]

Deliver(i) ==
  /\ items[i].licensed /\ items[i].owner \in Bots
  /\ \A j \in Earlier(i) : items[j].done
  /\ items' = [items EXCEPT ![i].sent = @ + 1, ![i].licensed = FALSE]

(* Licences lapse (a refusal, an unknown result, a crash) and items are    *)
(* closed: those of "noted" with a note, the others because they were sent.*)
CloseAll(lapsed, closed, noted) ==
  [i \in DOMAIN items |->
     [items[i] EXCEPT !.licensed = @ /\ i \notin lapsed \cup closed,
                      !.done = @ \/ i \in closed, !.noted = @ \/ i \in noted]]

Close(lapsed, closed, noted) ==
  /\ \A i \in closed : ~items[i].done /\ (items[i].sent > 0 \/ i \in noted)
  /\ noted \subseteq closed
  /\ items' = CloseAll(lapsed, closed, noted)

(* An item is given up, with a note, for another one in its place. *)
Replace(i) ==
  /\ ~items[i].done
  /\ items' = Append(CloseAll({}, {i}, {i}), NewItem(items[i].lane, items[i].owner))

(* The operator's word: the item may be transmitted once more. *)
Renew(i) ==
  /\ ~items[i].done /\ ~items[i].licensed
  /\ items' = [items EXCEPT ![i].licensed = TRUE, ![i].renewed = @ + 1]

Next ==
  \/ \E l \in Lanes, b \in Bots \cup {NoBot} : Produce(l, b)
  \/ \E b \in Bots : Adopt(b)
  \/ \E i \in DOMAIN items : Deliver(i) \/ Replace(i) \/ Renew(i)
  \/ \E lapsed, closed, noted \in SUBSET DOMAIN items : Close(lapsed, closed, noted)

Spec == Init /\ [][Next]_items
-----------------------------------------------------------------------------
(* No item is transmitted more than once without an operator's word        *)
(* (internal/app/schema.go:121: an interrupted send is NOT blindly sent a  *)
(* second time).                                                           *)
AtMostOnce == \A i \in DOMAIN items : items[i].sent <= 1 + items[i].renewed

(* Nothing of a stream leaves while something earlier of it is unsettled   *)
(* (the order of the claim query of internal/app/outbox.go).               *)
InOrder ==
  \A i \in DOMAIN items : items[i].sent > 0 => \A j \in Earlier(i) : items[j].done

(* An item that is over was transmitted, or an operator can read why not   *)
(* (last_error of the outbox row).                                         *)
NothingLostSilently ==
  \A i \in DOMAIN items : items[i].done => items[i].sent > 0 \/ items[i].noted
=============================================================================
