--------------------------- MODULE DeliveryProofs ---------------------------
(***************************************************************************)
(* Proofs about module Delivery, for any lanes, bots, backlog and bounds.  *)
(* TLC shows that Outbox implements Delivery on small instances; what is   *)
(* proved here holds of whatever implements it.                            *)
(***************************************************************************)
EXTENDS Delivery, SequenceTheorems, TLAPS

(* The licence an item holds counts as the transmission it allows. *)
Counted == \A i \in DOMAIN items :
  items[i].sent + (IF items[i].licensed THEN 1 ELSE 0) <= 1 + items[i].renewed

(* What has left belongs to a bot, so that adopting the unowned items does *)
(* not put one of them before it.                                          *)
Owned == \A i \in DOMAIN items : items[i].sent > 0 => items[i].owner \in Bots

IInv == TypeOK /\ Counted /\ Owned /\ InOrder /\ NothingLostSilently

-----------------------------------------------------------------------------
(* Sequences of items *)

LEMMA ItemsAreItems ==
  ASSUME TypeOK
  PROVE  /\ Len(items) \in Nat /\ DOMAIN items = 1..Len(items)
         /\ items \in [1..Len(items) -> Item]
BY LenProperties DEF TypeOK

LEMMA FunctionIsSeq ==
  ASSUME NEW n \in Nat, NEW s \in [1..n -> Item]
  PROVE  s \in Seq(Item)
BY SeqDef

LEMMA NewItemIsItem ==
  ASSUME NEW l \in Lanes, NEW b \in Bots \cup {NoBot}
  PROVE  NewItem(l, b) \in Item
BY DEF NewItem, Item

(* Closing keeps the lane, the owner and the counts, and nothing that is   *)
(* over is opened again.                                                   *)
LEMMA CloseAllItems ==
  ASSUME TypeOK, NEW lapsed, NEW closed, NEW noted
  PROVE  LET s == CloseAll(lapsed, closed, noted)
         IN /\ s \in [1..Len(items) -> Item]
            /\ \A i \in 1..Len(items) :
                 /\ s[i].lane = items[i].lane /\ s[i].owner = items[i].owner
                 /\ s[i].sent = items[i].sent /\ s[i].renewed = items[i].renewed
                 /\ s[i].licensed => items[i].licensed
                 /\ s[i].done <=> items[i].done \/ i \in closed
                 /\ s[i].noted <=> items[i].noted \/ i \in noted
<1>1. items \in [1..Len(items) -> Item] /\ DOMAIN items = 1..Len(items)
  BY ItemsAreItems
<1> SUFFICES ASSUME NEW i \in 1..Len(items)
             PROVE  LET e == CloseAll(lapsed, closed, noted)[i]
                    IN /\ e \in Item
                       /\ e.lane = items[i].lane /\ e.owner = items[i].owner
                       /\ e.sent = items[i].sent /\ e.renewed = items[i].renewed
                       /\ e.licensed => items[i].licensed
                       /\ e.done <=> items[i].done \/ i \in closed
                       /\ e.noted <=> items[i].noted \/ i \in noted
  BY <1>1 DEF CloseAll
<1>2. CloseAll(lapsed, closed, noted)[i] =
        [items[i] EXCEPT !.licensed = @ /\ i \notin lapsed \cup closed,
                         !.done = @ \/ i \in closed, !.noted = @ \/ i \in noted]
  BY <1>1 DEF CloseAll
<1>3. items[i] \in Item
  BY <1>1
<1> QED BY <1>2, <1>3 DEF Item

-----------------------------------------------------------------------------
(* The invariant *)

LEMMA InitInv == ASSUME DeliveryAssumption PROVE Init => IInv
<1> SUFFICES ASSUME Init PROVE IInv
  OBVIOUS
<1>1. /\ Len(Backlog) \in Nat /\ DOMAIN Backlog = 1..Len(Backlog)
      /\ Backlog \in [1..Len(Backlog) -> Lanes]
  BY LenProperties DEF DeliveryAssumption
<1>2. items \in [1..Len(Backlog) -> Item]
  BY <1>1, NewItemIsItem DEF Init
<1>3. TypeOK
  BY <1>1, <1>2, FunctionIsSeq DEF TypeOK
<1>4. \A i \in DOMAIN items : items[i] = NewItem(Backlog[i], NoBot)
  BY DEF Init
<1> QED BY <1>3, <1>4 DEF IInv, Counted, Owned, InOrder, NothingLostSilently, NewItem

(* Steps that transmit nothing, grant nothing and leave every item with    *)
(* its stream; what they add is new, what they close has left or is noted. *)
LEMMA QuietStep ==
  ASSUME IInv, TypeOK', Len(items') >= Len(items),
         \A i \in 1..Len(items) :
           /\ items'[i].lane = items[i].lane /\ items'[i].owner = items[i].owner
           /\ items'[i].sent = items[i].sent /\ items'[i].renewed = items[i].renewed
           /\ items'[i].licensed => items[i].licensed
           /\ items[i].done => items'[i].done
           /\ items'[i].done => items[i].done \/ items[i].sent > 0 \/ items'[i].noted
           /\ items[i].noted => items'[i].noted,
         \A i \in 1..Len(items') : i > Len(items) =>
           items'[i].sent = 0 /\ items'[i].renewed = 0 /\ ~items'[i].done
  PROVE  IInv'
<1>1. /\ Len(items) \in Nat /\ DOMAIN items = 1..Len(items)
      /\ items \in [1..Len(items) -> Item]
  BY ItemsAreItems DEF IInv
<1>2. /\ Len(items') \in Nat /\ DOMAIN items' = 1..Len(items')
      /\ items' \in [1..Len(items') -> Item]
  BY LenProperties DEF TypeOK
<1>3. Counted'
  BY <1>1, <1>2 DEF IInv, Counted, Item
<1>4. Owned'
  BY <1>1, <1>2 DEF IInv, Owned, Item
<1>5. NothingLostSilently'
  BY <1>1, <1>2 DEF IInv, NothingLostSilently, Item
<1>6. InOrder'
  <2> SUFFICES ASSUME NEW i \in 1..Len(items'), items'[i].sent > 0,
                      NEW j \in 1..(i - 1), SameStream(i, j)'
               PROVE  items'[j].done
    BY <1>2 DEF InOrder, Earlier
  <2>1. i \in 1..Len(items) /\ j \in 1..Len(items)
    BY <1>1, <1>2
  <2>2. SameStream(i, j) /\ items[i].sent > 0
    BY <2>1 DEF SameStream
  <2>3. items[j].done
    BY <1>1, <2>1, <2>2 DEF IInv, InOrder, Earlier
  <2> QED BY <2>1, <2>3
<1> QED BY <1>3, <1>4, <1>5, <1>6 DEF IInv

LEMMA ProduceInv ==
  ASSUME IInv, NEW l \in Lanes, NEW b \in Bots \cup {NoBot}, Produce(l, b)
  PROVE  IInv'
<1>1. NewItem(l, b) \in Item /\ items \in Seq(Item)
  BY NewItemIsItem DEF IInv, TypeOK
<1>2. items' = Append(items, NewItem(l, b))
  BY DEF Produce
<1>3. TypeOK' /\ Len(items') = Len(items) + 1 /\ Len(items) \in Nat
  BY <1>1, <1>2, AppendProperties, LenProperties DEF TypeOK
<1>4. /\ \A i \in 1..Len(items) : items'[i] = items[i]
      /\ items'[Len(items) + 1] = NewItem(l, b)
  BY <1>1, <1>2, AppendProperties
<1>5. \A i \in 1..Len(items') : i > Len(items) => items'[i] = NewItem(l, b)
  BY <1>3, <1>4
<1> QED BY <1>3, <1>4, <1>5, QuietStep DEF NewItem

LEMMA CloseInv ==
  ASSUME IInv, NEW lapsed, NEW closed, NEW noted, Close(lapsed, closed, noted)
  PROVE  IInv'
<1> DEFINE s == CloseAll(lapsed, closed, noted)
<1>1. Len(items) \in Nat /\ DOMAIN items = 1..Len(items)
  BY ItemsAreItems DEF IInv
<1>2. /\ s \in [1..Len(items) -> Item]
      /\ \A i \in 1..Len(items) :
           /\ s[i].lane = items[i].lane /\ s[i].owner = items[i].owner
           /\ s[i].sent = items[i].sent /\ s[i].renewed = items[i].renewed
           /\ s[i].licensed => items[i].licensed
           /\ s[i].done <=> items[i].done \/ i \in closed
           /\ s[i].noted <=> items[i].noted \/ i \in noted
  BY CloseAllItems DEF IInv
<1>3. items' = s
  BY DEF Close
<1>4. TypeOK' /\ Len(items') = Len(items)
  <2>1. s \in Seq(Item)
    BY <1>1, <1>2, FunctionIsSeq
  <2>2. DOMAIN s = 1..Len(items) /\ DOMAIN s = 1..Len(s) /\ Len(s) \in Nat
    BY <1>2, <2>1, LenProperties
  <2> QED BY <1>1, <1>3, <2>1, <2>2 DEF TypeOK
<1>5. \A i \in closed : items[i].sent > 0 \/ i \in noted
  BY DEF Close
<1> HIDE DEF s
<1> QED BY <1>1, <1>2, <1>3, <1>4, <1>5, QuietStep

LEMMA ReplaceInv ==
  ASSUME IInv, NEW i \in DOMAIN items, Replace(i)
  PROVE  IInv'
<1> DEFINE s == CloseAll({}, {i}, {i})
           new == NewItem(items[i].lane, items[i].owner)
<1>1. /\ Len(items) \in Nat /\ DOMAIN items = 1..Len(items)
      /\ items \in [1..Len(items) -> Item]
  BY ItemsAreItems DEF IInv
<1>2. /\ s \in [1..Len(items) -> Item]
      /\ \A j \in 1..Len(items) :
           /\ s[j].lane = items[j].lane /\ s[j].owner = items[j].owner
           /\ s[j].sent = items[j].sent /\ s[j].renewed = items[j].renewed
           /\ s[j].licensed => items[j].licensed
           /\ s[j].done <=> items[j].done \/ j \in {i}
           /\ s[j].noted <=> items[j].noted \/ j \in {i}
  BY CloseAllItems DEF IInv
<1>3. new \in Item
  BY <1>1, NewItemIsItem DEF Item
<1>4. s \in Seq(Item) /\ Len(s) = Len(items)
  <2>1. s \in Seq(Item)
    BY <1>1, <1>2, FunctionIsSeq
  <2>2. DOMAIN s = 1..Len(items) /\ DOMAIN s = 1..Len(s) /\ Len(s) \in Nat
    BY <1>2, <2>1, LenProperties
  <2> QED BY <1>1, <2>1, <2>2
<1>5. items' = Append(s, new)
  BY DEF Replace
<1> HIDE DEF s
<1>6. TypeOK' /\ Len(items') = Len(items) + 1
  BY <1>3, <1>4, <1>5, AppendProperties DEF TypeOK
<1>7. /\ \A j \in 1..Len(items) : items'[j] = s[j]
      /\ items'[Len(items) + 1] = new
  BY <1>3, <1>4, <1>5, AppendProperties
<1>8. \A j \in 1..Len(items') : j > Len(items) => items'[j] = new
  BY <1>1, <1>6, <1>7
<1> QED BY <1>1, <1>2, <1>6, <1>7, <1>8, QuietStep DEF NewItem

(* The adopted items have not left, and nothing of the adopting bot has.   *)
LEMMA AdoptInv ==
  ASSUME DeliveryAssumption, IInv, NEW b \in Bots, Adopt(b)
  PROVE  IInv'
<1>1. /\ Len(items) \in Nat /\ DOMAIN items = 1..Len(items)
      /\ items \in [1..Len(items) -> Item]
  BY ItemsAreItems DEF IInv
<1>2. /\ DOMAIN items' = 1..Len(items)
      /\ items' \in [1..Len(items) -> Item]
      /\ \A i \in 1..Len(items) :
           items'[i] = IF items[i].owner = NoBot THEN [items[i] EXCEPT !.owner = b] ELSE items[i]
  BY <1>1 DEF Adopt, Item
<1>3. \A i \in 1..Len(items) :
        /\ items'[i].lane = items[i].lane
        /\ items'[i].owner = IF items[i].owner = NoBot THEN b ELSE items[i].owner
        /\ items'[i].sent = items[i].sent /\ items'[i].renewed = items[i].renewed
        /\ items'[i].licensed = items[i].licensed
        /\ items'[i].done = items[i].done /\ items'[i].noted = items[i].noted
  BY <1>1, <1>2 DEF Item
<1>4. TypeOK'
  BY <1>1, <1>2, FunctionIsSeq DEF TypeOK
<1>5. Counted'
  BY <1>1, <1>2, <1>3 DEF IInv, Counted
<1>6. Owned'
  BY <1>1, <1>2, <1>3 DEF IInv, Owned
<1>7. NothingLostSilently'
  BY <1>1, <1>2, <1>3 DEF IInv, NothingLostSilently
<1>8. InOrder'
  <2> SUFFICES ASSUME NEW i \in 1..Len(items), items'[i].sent > 0,
                      NEW j \in 1..(i - 1), SameStream(i, j)'
               PROVE  items'[j].done
    BY <1>2 DEF InOrder, Earlier
  <2>1. items[i].sent > 0 /\ items[i].owner \in Bots /\ j \in 1..Len(items)
    BY <1>1, <1>3 DEF IInv, Owned
  <2>2. items[i].owner # NoBot /\ items[i].owner # b
    BY <1>1, <2>1 DEF Adopt, Item, DeliveryAssumption
  <2>3. items'[j].owner = items[i].owner /\ items[j].lane = items[i].lane
    BY <1>3, <2>1, <2>2 DEF SameStream
  <2>4. items[j].owner = items[i].owner
    BY <1>3, <2>1, <2>2, <2>3
  <2>5. items[j].done
    BY <1>1, <2>1, <2>3, <2>4 DEF IInv, InOrder, Earlier, SameStream
  <2> QED BY <1>3, <2>1, <2>5
<1> QED BY <1>4, <1>5, <1>6, <1>7, <1>8 DEF IInv

(* Transmission is the one step that uses a licence up. *)
LEMMA DeliverInv ==
  ASSUME IInv, NEW k \in DOMAIN items, Deliver(k)
  PROVE  IInv'
<1>1. /\ Len(items) \in Nat /\ DOMAIN items = 1..Len(items)
      /\ items \in [1..Len(items) -> Item]
  BY ItemsAreItems DEF IInv
<1>2. /\ DOMAIN items' = 1..Len(items)
      /\ items' \in [1..Len(items) -> Item]
      /\ items'[k] = [items[k] EXCEPT !.sent = @ + 1, !.licensed = FALSE]
      /\ \A i \in 1..Len(items) : i # k => items'[i] = items[i]
  BY <1>1 DEF Deliver, Item
<1>3. /\ items'[k].sent = items[k].sent + 1 /\ ~items'[k].licensed
      /\ items'[k].renewed = items[k].renewed
      /\ items'[k].lane = items[k].lane /\ items'[k].owner = items[k].owner
      /\ items'[k].done = items[k].done /\ items'[k].noted = items[k].noted
  BY <1>1, <1>2 DEF Item
<1>4. TypeOK'
  BY <1>1, <1>2, FunctionIsSeq DEF TypeOK
<1>5. Counted'
  <2>1. items[k].sent \in Nat /\ items[k].renewed \in Nat /\ items[k].licensed
    BY <1>1 DEF Deliver, Item
  <2>2. items[k].sent + 1 <= 1 + items[k].renewed
    BY <2>1 DEF IInv, Counted
  <2> SUFFICES ASSUME NEW i \in 1..Len(items)
               PROVE  items'[i].sent + (IF items'[i].licensed THEN 1 ELSE 0)
                        <= 1 + items'[i].renewed
    BY <1>2 DEF Counted
  <2>3. CASE i = k
    BY <1>3, <2>1, <2>2, <2>3
  <2>4. CASE i # k
    BY <1>1, <1>2, <2>4 DEF IInv, Counted
  <2> QED BY <2>3, <2>4
<1>6. Owned'
  BY <1>1, <1>2, <1>3 DEF IInv, Owned, Deliver
<1>7. NothingLostSilently'
  <2>1. items[k].sent \in Nat /\ items'[k].sent > 0
    BY <1>1, <1>3 DEF Item
  <2> SUFFICES ASSUME NEW i \in 1..Len(items), items'[i].done
               PROVE  items'[i].sent > 0 \/ items'[i].noted
    BY <1>2 DEF NothingLostSilently
  <2>2. CASE i # k
    BY <1>1, <1>2, <2>2 DEF IInv, NothingLostSilently
  <2> QED BY <2>1, <2>2
<1>8. InOrder'
  <2> SUFFICES ASSUME NEW i \in 1..Len(items), items'[i].sent > 0,
                      NEW j \in 1..(i - 1), SameStream(i, j)'
               PROVE  items'[j].done
    BY <1>2 DEF InOrder, Earlier
  <2>1. j \in 1..Len(items)
    BY <1>1
  <2>2. j \in Earlier(i)
    BY <1>2, <1>3, <2>1 DEF SameStream, Earlier
  <2>3. items[j].done
    <3>1. CASE i = k
      BY <2>2, <3>1 DEF Deliver
    <3>2. CASE i # k
      BY <1>1, <1>2, <2>2, <3>2 DEF IInv, InOrder
    <3> QED BY <3>1, <3>2
  <2> QED BY <1>2, <1>3, <2>1, <2>3
<1> QED BY <1>4, <1>5, <1>6, <1>7, <1>8 DEF IInv

LEMMA RenewInv ==
  ASSUME IInv, NEW k \in DOMAIN items, Renew(k)
  PROVE  IInv'
<1>1. /\ Len(items) \in Nat /\ DOMAIN items = 1..Len(items)
      /\ items \in [1..Len(items) -> Item]
  BY ItemsAreItems DEF IInv
<1>2. /\ DOMAIN items' = 1..Len(items)
      /\ items' \in [1..Len(items) -> Item]
      /\ items'[k] = [items[k] EXCEPT !.licensed = TRUE, !.renewed = @ + 1]
      /\ \A i \in 1..Len(items) : i # k => items'[i] = items[i]
  BY <1>1 DEF Renew, Item
<1>3. /\ items'[k].sent = items[k].sent /\ items'[k].renewed = items[k].renewed + 1
      /\ items'[k].lane = items[k].lane /\ items'[k].owner = items[k].owner
      /\ items'[k].done = items[k].done /\ items'[k].noted = items[k].noted
  BY <1>1, <1>2 DEF Item
<1>4. TypeOK'
  BY <1>1, <1>2, FunctionIsSeq DEF TypeOK
<1>5. Counted'
  <2>1. items[k].sent \in Nat /\ items[k].renewed \in Nat /\ ~items[k].licensed
    BY <1>1 DEF Renew, Item
  <2>2. items[k].sent <= 1 + items[k].renewed
    BY <2>1 DEF IInv, Counted
  <2> SUFFICES ASSUME NEW i \in 1..Len(items)
               PROVE  items'[i].sent + (IF items'[i].licensed THEN 1 ELSE 0)
                        <= 1 + items'[i].renewed
    BY <1>2 DEF Counted
  <2>3. CASE i = k
    BY <1>3, <2>1, <2>2, <2>3
  <2>4. CASE i # k
    BY <1>1, <1>2, <2>4 DEF IInv, Counted
  <2> QED BY <2>3, <2>4
<1>6. Owned'
  BY <1>1, <1>2, <1>3 DEF IInv, Owned
<1>7. NothingLostSilently'
  BY <1>1, <1>2, <1>3 DEF IInv, NothingLostSilently
<1>8. InOrder'
  <2>1. \A i \in 1..Len(items) :
          /\ items'[i].lane = items[i].lane /\ items'[i].owner = items[i].owner
          /\ items'[i].sent = items[i].sent /\ items'[i].done = items[i].done
    BY <1>1, <1>2, <1>3
  <2> QED BY <1>1, <1>2, <2>1 DEF IInv, InOrder, Earlier, SameStream
<1> QED BY <1>4, <1>5, <1>6, <1>7, <1>8 DEF IInv

LEMMA NextInv ==
  ASSUME DeliveryAssumption PROVE IInv /\ [Next]_items => IInv'
<1> SUFFICES ASSUME IInv, [Next]_items PROVE IInv'
  OBVIOUS
<1>1. ASSUME NEW l \in Lanes, NEW b \in Bots \cup {NoBot}, Produce(l, b) PROVE IInv'
  BY <1>1, ProduceInv
<1>2. ASSUME NEW b \in Bots, Adopt(b) PROVE IInv'
  BY <1>2, AdoptInv
<1>3. ASSUME NEW i \in DOMAIN items, Deliver(i) \/ Replace(i) \/ Renew(i) PROVE IInv'
  BY <1>3, DeliverInv, ReplaceInv, RenewInv
<1>4. ASSUME NEW lapsed, NEW closed, NEW noted, Close(lapsed, closed, noted) PROVE IInv'
  BY <1>4, CloseInv
<1>5. CASE UNCHANGED items
  BY <1>5 DEF IInv, TypeOK, Counted, Owned, InOrder, NothingLostSilently, Earlier, SameStream
<1> QED BY <1>1, <1>2, <1>3, <1>4, <1>5 DEF Next

-----------------------------------------------------------------------------
(* Theorems *)

(* The rows of the outbox keep their types (internal/app/schema.go:35).    *)
THEOREM DeliveryTypes == ASSUME DeliveryAssumption PROVE Spec => []TypeOK
<1>1. IInv => TypeOK
  BY DEF IInv
<1> QED BY <1>1, InitInv, NextInv, PTL DEF Spec

(* However many workers, crashes, lost answers and bots there are, a       *)
(* message is transmitted at most once for each time an operator, or       *)
(* nobody but its producer, licensed it (internal/app/schema.go:121).      *)
THEOREM TransmittedAtMostOnce == ASSUME DeliveryAssumption PROVE Spec => []AtMostOnce
<1>1. IInv => AtMostOnce
  BY ItemsAreItems DEF IInv, Counted, AtMostOnce, Item
<1> QED BY <1>1, InitInv, NextInv, PTL DEF Spec

(* Each chat receives its messages in the order of their production, also  *)
(* across a change of bots (the claim query, internal/app/outbox.go:240).  *)
THEOREM TransmittedInOrder == ASSUME DeliveryAssumption PROVE Spec => []InOrder
<1>1. IInv => InOrder
  BY DEF IInv
<1> QED BY <1>1, InitInv, NextInv, PTL DEF Spec

(* A message that is over was transmitted, or an operator can read why not *)
(* (CompleteOutbox and FallbackMedia, internal/app/outbox.go:272-350).     *)
THEOREM NothingVanishes == ASSUME DeliveryAssumption PROVE Spec => []NothingLostSilently
<1>1. IInv => NothingLostSilently
  BY DEF IInv
<1> QED BY <1>1, InitInv, NextInv, PTL DEF Spec
=============================================================================
