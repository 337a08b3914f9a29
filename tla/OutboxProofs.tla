---------------------------- MODULE OutboxProofs ----------------------------
(***************************************************************************)
(* Proofs about modules Outbox and GroupPermissions, for any bots, chats,  *)
(* workers, messages and bounds: TLC checks the same properties on the     *)
(* small instances of modules MCOutbox and MCGroup.                        *)
(***************************************************************************)
EXTENDS GroupPermissions, PrefixSumsProofs, SequenceTheorems

-----------------------------------------------------------------------------
(* The inductive invariant *)

(* What a worker holds is being sent, by it alone, for the bot in use; and *)
(* a message is held only when all before it have been sent.               *)
FirstInLane(i) == \A j \in 1..(i - 1) : SameLane(i, j) /\ SameOwner(i, j)
                                  => outbox[j].state = "SENT"

Holding(w) ==
  /\ bound /\ worker[w].row \in DOMAIN outbox
  /\ Held(w).state = "INFLIGHT" /\ Active(worker[w].row)
  /\ \A v \in Workers \ {w} : worker[v].row # worker[w].row
  /\ ~IsGroup(worker[w].row) => FirstInLane(worker[w].row)

WorkerOK(w) ==
  /\ worker[w].phase = "idle" => worker[w] = Idle
  /\ worker[w].phase # "idle" => Holding(w)
  /\ worker[w].wait \in Waits \cup {0}
  /\ worker[w].wait # 0 => worker[w].answer = "limited"
  /\ worker[w].phase = "answered" <=> worker[w].answer # "none"
  /\ worker[w].answer \in {"ok", "noId"} /\ ~IsGroup(worker[w].row)
       => Held(w).delivered > 0

RowOK(i) ==
  /\ outbox[i].noted => outbox[i].state = "SENT"
  /\ outbox[i].fresh => outbox[i].delivered > 0
  /\ outbox[i].card # NoCard => outbox[i].kind = "text" /\ outbox[i].chat = Group

(* Before a bot was bound for the first time nothing has left; afterwards  *)
(* every row belongs to a bot.                                             *)
BotsOK ==
  /\ bound => bot = configured
  /\ sessions = {} =>
       /\ ~bound /\ owed = [b \in Bots |-> 0]
       /\ \A i \in DOMAIN outbox : /\ outbox[i].state = "PENDING" /\ outbox[i].delivered = 0
                                   /\ outbox[i].owner \in {NoBot, bot}
  /\ sessions # {} =>
       /\ bot \in sessions
       /\ \A i \in DOMAIN outbox : outbox[i].owner \in Bots

OInv ==
  /\ TypeOK
  /\ \A w \in Workers : WorkerOK(w)
  /\ \A i \in DOMAIN outbox : RowOK(i)
  /\ BotsOK

(* The cards a bot can edit, in use or set aside. *)
CardsOf(b) == IF b = bot THEN cards ELSE botCards[b]

PostedOnce ==
  \A i \in DOMAIN outbox : outbox[i].fresh =>
    \A j \in DOMAIN outbox \ {i} : OfOneCard(i, j) => ~outbox[j].fresh

(* What was posted and is over can be edited; what is about to be posted   *)
(* as a new message was not posted before.                                 *)
CardInv ==
  /\ \A i \in DOMAIN outbox :
       outbox[i].fresh /\ outbox[i].state = "SENT" /\ outbox[i].card # NoCard
       => outbox[i].card \in CardsOf(outbox[i].owner)
  /\ \A w \in Workers :
       worker[w].phase \in {"claimed", "paced", "ready"} /\ ~worker[w].edit /\ Held(w).card # NoCard
       => \A i \in 1..(worker[w].row - 1) :
            outbox[i].card = Held(w).card /\ SameOwner(i, worker[w].row) => ~outbox[i].fresh
  /\ PostedOnce

(* A bot edits no card but those it has posted itself.                     *)
Backed(rows, card, b) ==
  \E j \in DOMAIN rows : rows[j].card = card /\ rows[j].owner = b /\ rows[j].fresh

CardsBacked == \A b \in Bots \cup {bot} : \A c \in CardsOf(b) : Backed(outbox, c, b)

EditBacked(w) ==
  /\ worker[w].phase # "idle" /\ Held(w).card # NoCard
  /\ worker[w].edit \/ worker[w].answer = "same"
  => worker[w].edit /\ Backed(outbox, Held(w).card, bot)

RowsBacked ==
  \A i \in DOMAIN outbox : outbox[i].card # NoCard /\ outbox[i].delivered > 0
                         => Backed(outbox, outbox[i].card, outbox[i].owner)

BackInv == CardsBacked /\ (\A w \in Workers : EditBacked(w)) /\ RowsBacked

(* Where a wait is: in the tables, or in the memory of a Run that has not  *)
(* saved it yet.  A bot's own copy of its pause is never behind, even      *)
(* while it is in use.                                                     *)
Kept(b)      == owed[b] <= IF b = bot THEN pause ELSE botPause[b]
Unwritten(b) == /\ b = bot /\ owed[b] <= memPause
                /\ unsaved \/ \E w \in Workers : owed[b] <= worker[w].wait

CoverInv ==
  /\ \A b \in Bots : owed[b] <= lost[b] \/ Kept(b) \/ Unwritten(b)
  /\ ~bound => memPause = 0 /\ ~unsaved
  /\ bot \in Bots => pause <= botPause[bot]
  /\ bot = NoBot => pause = 0

(* What stops a worker while there is a wait: the scheduler, the pause in  *)
(* the tables, or nothing any more.                                        *)
GateOK(w) ==
  owed[bot] > lost[bot] =>
    /\ worker[w].phase = "claimed" => owed[bot] <= memPause
    /\ worker[w].phase = "paced" => w \in ahead \/ owed[bot] <= pause
    /\ worker[w].phase = "ready" => w \in ahead

GateInv == \A w \in Workers : GateOK(w)

PauseInv == CoverInv /\ GateInv

-----------------------------------------------------------------------------
(* Types *)

LEMMA WaitBounds ==
  /\ MaxWait \in Nat
  /\ \A n \in Waits \cup {0} : n \in Nat /\ n + 1 \in 0..MaxWait /\ n \in 0..MaxWait
<1>1. Waits \cup {0} \subseteq Nat /\ IsFiniteSet(Waits \cup {0})
  BY OutboxAssumption, FS_AddElement
<1>2. /\ Max(Waits \cup {0}) \in Nat
      /\ \A n \in Waits \cup {0} : n <= Max(Waits \cup {0})
  BY <1>1, MaxOfFinite
<1> QED BY <1>1, <1>2 DEF MaxWait

LEMMA ChargeBound ==
  ASSUME faults \in 0..MaxFaults, NEW answer, UNCHANGED faults \/ Charge(answer)
  PROVE  faults' \in 0..MaxFaults
<1>1. MaxFaults \in Nat
  BY OutboxAssumption
<1>2. CASE UNCHANGED faults
  BY <1>2
<1>3. CASE Charge(answer)
  <2>1. faults' = faults \/ faults' = faults + 1
    BY <1>3 DEF Charge
  <2>2. faults' <= MaxFaults
    BY <1>3 DEF Charge
  <2> QED BY <1>1, <2>1, <2>2
<1> QED BY <1>2, <1>3

LEMMA RowsAreRows ==
  ASSUME TypeOK
  PROVE  /\ Len(outbox) \in Nat /\ DOMAIN outbox = 1..Len(outbox)
         /\ outbox \in [1..Len(outbox) -> Row]
         /\ \A i \in DOMAIN outbox : outbox[i] \in Row /\ i \in Nat
BY LenProperties DEF TypeOK

RowsTyped == \A i \in DOMAIN outbox : outbox[i] \in Row

LEMMA RowsAreTyped == TypeOK => RowsTyped
BY RowsAreRows DEF RowsTyped

LEMMA RowsWillBeTyped == TypeOK' => RowsTyped'
BY RowsAreTyped, PTL

LEMMA RowsUpdate ==
  ASSUME TypeOK, NEW f \in [DOMAIN outbox -> Row]
  PROVE  f \in Seq(Row) /\ Len(f) = Len(outbox)
<1>1. Len(outbox) \in Nat /\ DOMAIN outbox = 1..Len(outbox)
  BY RowsAreRows
<1> QED BY <1>1

LEMMA RowsAppend ==
  ASSUME NEW s \in Seq(Row), NEW r \in Row
  PROVE  /\ Append(s, r) \in Seq(Row) /\ Len(s) \in Nat /\ Len(Append(s, r)) = Len(s) + 1
         /\ DOMAIN s = 1..Len(s) /\ DOMAIN Append(s, r) = 1..(Len(s) + 1)
         /\ \A i \in 1..Len(s) : Append(s, r)[i] = s[i]
         /\ Append(s, r)[Len(s) + 1] = r
  OBVIOUS

LEMMA NewRowType ==
  ASSUME NEW chat \in Chats, NEW kind \in MessageKinds \cup GroupKinds,
         NEW card \in Cards \cup {NoCard}, NEW owner \in Bots \cup {NoBot}
  PROVE  NewRow(chat, kind, card, owner) \in Row
<1>1. GiveUpAfter \in Nat
  BY OutboxAssumption
<1> QED BY <1>1 DEF NewRow, Row, States

(* With keeps everything of a row but its state, its time and its note. *)
LEMMA WithType ==
  ASSUME NEW r \in Row, NEW state \in States, NEW due \in Nat, NEW noted \in BOOLEAN
  PROVE  LET s == With(r, state, due, noted)
         IN /\ s \in Row
            /\ s.chat = r.chat /\ s.kind = r.kind /\ s.card = r.card /\ s.owner = r.owner
            /\ s.delivered = r.delivered /\ s.fresh = r.fresh /\ s.retries = r.retries
            /\ s.attempts = r.attempts
            /\ s.state = state /\ s.due = due /\ (s.noted <=> (state = "SENT" /\ noted))
BY DEF With, Row

WorkerType == [phase : Phases, row : 0..Len(outbox), edit : BOOLEAN,
               answer : Answers, wait : 0..MaxWait]

LEMMA IdleType ==
  ASSUME TypeOK
  PROVE  /\ Idle \in WorkerType /\ Idle.phase = "idle" /\ Idle.answer = "none"
         /\ Idle.wait = 0 /\ Idle.row = 0
<1>1. Len(outbox) \in Nat /\ MaxWait \in Nat
  BY RowsAreRows, WaitBounds
<1> QED BY <1>1 DEF Idle, WorkerType, Phases, Answers

LEMMA WorkersAreWorkers ==
  ASSUME TypeOK, NEW w \in Workers
  PROVE  /\ worker \in [Workers -> WorkerType] /\ worker[w] \in WorkerType
         /\ worker[w].phase \in Phases /\ worker[w].row \in 0..Len(outbox)
         /\ worker[w].edit \in BOOLEAN /\ worker[w].answer \in Answers
         /\ worker[w].wait \in 0..MaxWait
BY DEF TypeOK, WorkerType

(* The worker's own part of its step, and its row's. *)
LEMMA HeldFacts ==
  ASSUME OInv, NEW w \in Workers, worker[w].phase # "idle"
  PROVE  /\ worker[w].row \in DOMAIN outbox /\ Held(w) \in Row
         /\ Held(w) = outbox[worker[w].row]
         /\ Held(w).state = "INFLIGHT" /\ Held(w).owner = bot
         /\ \A v \in Workers \ {w} : worker[v].row # worker[w].row
         /\ bound /\ bot = configured /\ bot \in Bots /\ sessions # {} /\ bot \in sessions
         /\ Held(w).noted = FALSE
<1>1. Holding(w)
  BY DEF OInv, WorkerOK
<1>2. worker[w].row \in DOMAIN outbox /\ Held(w) \in Row /\ Held(w) = outbox[worker[w].row]
  BY <1>1, RowsAreRows DEF Holding, OInv, Held
<1>3. Held(w).noted = FALSE
  BY <1>1, <1>2 DEF OInv, RowOK, Holding, Row
<1> QED BY <1>1, <1>2, <1>3 DEF Holding, OInv, BotsOK, TypeOK, Active, Held

-----------------------------------------------------------------------------
(* Steps that leave the rows of the table where they are *)

(* A row keeps what it is about, and a row that was sent stays so. *)
SameRows ==
  /\ DOMAIN outbox \subseteq DOMAIN outbox'
  /\ \A j \in DOMAIN outbox :
       /\ outbox'[j].chat = outbox[j].chat /\ outbox'[j].kind = outbox[j].kind
       /\ outbox'[j].card = outbox[j].card /\ outbox'[j].owner = outbox[j].owner
       /\ outbox[j].state = "SENT" => outbox'[j].state = "SENT"

LEMMA SameStreams ==
  ASSUME TypeOK, SameRows
  PROVE  /\ \A j \in DOMAIN outbox : IsGroup(j)' <=> IsGroup(j)
         /\ \A j, k \in DOMAIN outbox : /\ SameLane(j, k)' <=> SameLane(j, k)
                                        /\ SameOwner(j, k)' <=> SameOwner(j, k)
         /\ \A j \in DOMAIN outbox : FirstInLane(j) => FirstInLane(j)'
<1>1. DOMAIN outbox = 1..Len(outbox) /\ Len(outbox) \in Nat
  BY RowsAreRows
<1>2. \A j \in DOMAIN outbox : IsGroup(j)' <=> IsGroup(j)
  BY DEF SameRows, IsGroup
<1>3. \A j, k \in DOMAIN outbox : /\ SameLane(j, k)' <=> SameLane(j, k)
                                  /\ SameOwner(j, k)' <=> SameOwner(j, k)
  BY <1>2 DEF SameRows, SameLane, SameOwner
<1>4. ASSUME NEW j \in DOMAIN outbox, FirstInLane(j) PROVE FirstInLane(j)'
  <2>1. \A k \in 1..(j - 1) : k \in DOMAIN outbox
    BY <1>1
  <2> QED BY <2>1, <1>3, <1>4 DEF FirstInLane, SameRows
<1> QED BY <1>2, <1>3, <1>4

(* What a row says of its own transmissions stays right, *)
Sensible(j) == /\ outbox'[j].fresh => outbox'[j].delivered > 0
               /\ outbox'[j].noted => outbox'[j].state = "SENT"

(* and a row that is added is new, and the bot's in use. *)
Added(j) == /\ outbox'[j].card # NoCard => outbox'[j].kind = "text" /\ outbox'[j].chat = Group
            /\ outbox'[j].owner = bot
            /\ outbox'[j].state = "PENDING" /\ outbox'[j].delivered = 0
            /\ ~outbox'[j].fresh /\ ~outbox'[j].noted

(* What becomes of a worker: it is done, nothing of its row that it relies *)
(* on changes, or it goes on with the row it holds.                        *)
Done(v) == worker'[v] = Idle
Untouched(v) ==
  /\ worker'[v] = worker[v]
  /\ worker[v].phase # "idle" => /\ outbox'[worker[v].row].state = Held(v).state
                                 /\ outbox'[worker[v].row].delivered = Held(v).delivered
GoesOn(v) ==
  /\ worker[v].phase # "idle" /\ worker'[v].phase # "idle"
  /\ worker'[v].row = worker[v].row /\ outbox'[worker[v].row].state = "INFLIGHT"
  /\ worker'[v].wait \in Waits \cup {0}
  /\ worker'[v].wait # 0 => worker'[v].answer = "limited"
  /\ worker'[v].phase = "answered" <=> worker'[v].answer # "none"
  /\ worker'[v].answer \in {"ok", "noId"} /\ ~IsGroup(worker[v].row)
       => outbox'[worker[v].row].delivered > 0

(* Or it takes a row that nobody holds. *)
Takes(v) == /\ worker'[v].row \in DOMAIN outbox /\ outbox[worker'[v].row].state # "INFLIGHT"
            /\ WorkerOK(v)'

(* The process goes on, or its workers have stopped. *)
StaysBound == UNCHANGED <<bound, configured>>
Unbound    == bound' = FALSE /\ \A v \in Workers : Done(v)

LEMMA RowsStep ==
  ASSUME OInv, TypeOK', SameRows, \A j \in DOMAIN outbox : Sensible(j),
         \A j \in DOMAIN outbox' \ DOMAIN outbox : Added(j),
         sessions = {} => /\ UNCHANGED owed \/ owed' = [b \in Bots |-> 0]
                          /\ \A j \in DOMAIN outbox : /\ outbox'[j].state = "PENDING"
                                                      /\ outbox'[j].delivered = 0,
         \A v \in Workers : Done(v) \/ Untouched(v) \/ GoesOn(v) \/ Takes(v),
         UNCHANGED <<bot, sessions>>, StaysBound \/ Unbound
  PROVE  OInv'
<1>1. /\ Len(outbox) \in Nat /\ DOMAIN outbox = 1..Len(outbox)
      /\ outbox \in [1..Len(outbox) -> Row]
  BY RowsAreRows DEF OInv
<1>2. /\ \A j \in DOMAIN outbox : IsGroup(j)' <=> IsGroup(j)
      /\ \A j \in DOMAIN outbox : FirstInLane(j) => FirstInLane(j)'
  BY SameStreams DEF OInv
<1>3. \A j \in DOMAIN outbox' : RowOK(j)'
  <2> SUFFICES ASSUME NEW j \in DOMAIN outbox' PROVE RowOK(j)'
    OBVIOUS
  <2>1. CASE j \notin DOMAIN outbox
    BY <2>1 DEF Added, RowOK
  <2>2. CASE j \in DOMAIN outbox
    <3>1. RowOK(j)
      BY <2>2 DEF OInv
    <3> QED BY <2>2, <3>1 DEF SameRows, Sensible, RowOK
  <2> QED BY <2>1, <2>2
<1>4. BotsOK'
  <2>1. bound' => bot' = configured'
    BY DEF OInv, BotsOK, StaysBound, Unbound
  <2>2. ASSUME sessions # {}
        PROVE  \A j \in DOMAIN outbox' : outbox'[j].owner \in Bots
    <3> SUFFICES ASSUME NEW j \in DOMAIN outbox' PROVE outbox'[j].owner \in Bots
      OBVIOUS
    <3>1. bot \in Bots
      BY <2>2 DEF OInv, BotsOK, TypeOK
    <3> QED BY <2>2, <3>1 DEF OInv, BotsOK, SameRows, Added
  <2>3. ASSUME sessions = {}
        PROVE  /\ ~bound' /\ owed' = [b \in Bots |-> 0]
               /\ \A j \in DOMAIN outbox' :
                    /\ outbox'[j].state = "PENDING" /\ outbox'[j].delivered = 0
                    /\ outbox'[j].owner \in {NoBot, bot}
    <3>1. ~bound' /\ owed' = [b \in Bots |-> 0]
      BY <2>3 DEF OInv, BotsOK, StaysBound, Unbound
    <3>2. ASSUME NEW j \in DOMAIN outbox'
          PROVE  /\ outbox'[j].state = "PENDING" /\ outbox'[j].delivered = 0
                 /\ outbox'[j].owner \in {NoBot, bot}
      <4>1. CASE j \in DOMAIN outbox
        BY <2>3, <4>1 DEF SameRows, OInv, BotsOK
      <4>2. CASE j \notin DOMAIN outbox
        BY <4>2 DEF Added
      <4> QED BY <4>1, <4>2
    <3> QED BY <3>1, <3>2
  <2> QED BY <2>1, <2>2, <2>3 DEF OInv, BotsOK
<1>5. ASSUME NEW v \in Workers PROVE WorkerOK(v)'
  <2>1. CASE Done(v)
    BY <2>1, IdleType DEF WorkerOK, Done, OInv
  <2>2. ASSUME worker[v].phase # "idle", worker'[v].phase # "idle",
               worker'[v].row = worker[v].row, outbox'[worker[v].row].state = "INFLIGHT"
        PROVE  Holding(v)'
    <3>0. /\ Holding(v) /\ Held(v) = outbox[worker[v].row] /\ worker[v].row \in DOMAIN outbox
          /\ worker[v].row \in Nat
      BY <2>2, HeldFacts, RowsAreRows DEF OInv, WorkerOK
    <3>1. Held(v)'.state = "INFLIGHT" /\ Active(worker[v].row)'
      BY <2>2, <3>0 DEF Holding, Held, Active, SameRows
    <3>2. \A u \in Workers \ {v} : worker'[u].row # worker'[v].row
      <4> SUFFICES ASSUME NEW u \in Workers \ {v} PROVE worker'[u].row # worker[v].row
        BY <2>2
      <4>1. \/ worker'[u] = Idle \/ worker'[u].row = worker[u].row
            \/ outbox[worker'[u].row].state # "INFLIGHT"
        BY DEF Done, Untouched, GoesOn, Takes
      <4>2. worker[v].row # 0
        BY <3>0, <1>1
      <4> QED BY <4>1, <4>2, <3>0, IdleType DEF Holding, OInv
    <3>3. ~IsGroup(worker[v].row)' => FirstInLane(worker[v].row)'
      <4>1. ~IsGroup(worker[v].row) => FirstInLane(worker[v].row)
        BY <3>0 DEF Holding
      <4>2. PICK k \in DOMAIN outbox : k = worker[v].row
        BY <3>0
      <4>3. ~IsGroup(k)' => FirstInLane(k)'
        BY <4>1, <4>2, <1>2
      <4> QED BY <4>2, <4>3, <2>2 DEF IsGroup, FirstInLane, SameLane, SameOwner
    <3>4. bound' /\ worker'[v].row \in DOMAIN outbox'
      <4>1. ~Done(v)
        BY <2>2, IdleType DEF Done, OInv
      <4> QED BY <2>2, <3>0, <4>1 DEF Holding, StaysBound, Unbound, SameRows
    <3> QED BY <3>1, <3>2, <3>3, <3>4, <2>2 DEF Holding, IsGroup, FirstInLane, SameLane, SameOwner
  <2>3. CASE Untouched(v)
    <3>1. WorkerOK(v)
      BY DEF OInv
    <3>2. Holding(v)' \/ worker[v].phase = "idle"
      <4>1. ASSUME worker[v].phase # "idle" PROVE Held(v).state = "INFLIGHT"
        BY <4>1, HeldFacts
      <4> QED BY <2>2, <2>3, <4>1 DEF Untouched
    <3>3. ASSUME worker[v].phase # "idle"
          PROVE  /\ Held(v)'.delivered = Held(v).delivered
                 /\ IsGroup(worker[v].row)' <=> IsGroup(worker[v].row)
      <4>1. worker[v].row \in DOMAIN outbox
        BY <3>3, HeldFacts
      <4> QED BY <4>1, <3>3, <2>3, <1>2 DEF Untouched, Held, IsGroup, SameRows
    <3>4. worker[v].phase = "idle" => worker[v].answer = "none"
      BY <3>1, IdleType DEF WorkerOK, OInv
    <3> QED BY <2>3, <3>1, <3>2, <3>3, <3>4 DEF WorkerOK, Untouched
  <2>4. CASE GoesOn(v)
    <3>1. Holding(v)' /\ worker[v].row \in DOMAIN outbox
      BY <2>2, <2>4, HeldFacts DEF GoesOn
    <3>2. IsGroup(worker[v].row)' <=> IsGroup(worker[v].row)
      BY <3>1, <2>4 DEF IsGroup, GoesOn, SameRows
    <3> QED BY <2>4, <3>1, <3>2 DEF WorkerOK, GoesOn, Held
  <2>5. CASE Takes(v)
    BY <2>5 DEF Takes
  <2> QED BY <2>1, <2>3, <2>4, <2>5
<1> QED BY <1>3, <1>4, <1>5 DEF OInv

(* One row is rewritten. *)
LEMMA RowStep ==
  ASSUME OInv, TypeOK', NEW i \in DOMAIN outbox, NEW r \in Row,
         outbox[i].state # "SENT", sessions # {},
         r.chat = outbox[i].chat, r.kind = outbox[i].kind, r.card = outbox[i].card,
         r.owner = outbox[i].owner, r.fresh => r.delivered > 0, r.noted => r.state = "SENT",
         outbox' = [outbox EXCEPT ![i] = r],
         \A v \in Workers : \/ Done(v) \/ GoesOn(v)
                            \/ worker'[v] = worker[v] /\ worker[v].row # i,
         UNCHANGED <<bot, sessions, bound, configured>>
  PROVE  OInv'
<1>1. /\ DOMAIN outbox' = DOMAIN outbox /\ outbox'[i] = r
      /\ \A j \in DOMAIN outbox : j # i => outbox'[j] = outbox[j]
  BY RowsAreRows DEF OInv
<1>2. SameRows
  BY <1>1 DEF SameRows
<1>3. \A j \in DOMAIN outbox : Sensible(j)
  BY <1>1 DEF Sensible, OInv, RowOK
<1>4. ASSUME NEW v \in Workers PROVE Done(v) \/ Untouched(v) \/ GoesOn(v)
  <2>1. worker[v].phase = "idle" \/ worker[v].row \in DOMAIN outbox
    BY HeldFacts
  <2> QED BY <2>1, <1>1 DEF Untouched, Held
<1> QED BY <1>1, <1>2, <1>3, <1>4, RowsStep DEF StaysBound

-----------------------------------------------------------------------------
(* The operations, one by one *)

(* The types of everything but the rows and the workers. *)
OtherTypes ==
  /\ bot \in Bots \cup {NoBot} /\ sessions \subseteq Bots
  /\ cards \subseteq Cards /\ botCards \in [Bots -> SUBSET Cards]
  /\ pause \in 0..MaxWait
  /\ botPause \in [Bots -> 0..MaxWait]
  /\ owed \in [Bots -> 0..MaxWait] /\ lost \in [Bots -> 0..MaxWait]
  /\ unsaved \in BOOLEAN /\ ahead \subseteq Workers
  /\ configured \in Bots /\ bound \in BOOLEAN /\ ended \in BOOLEAN
  /\ memPause \in 0..MaxWait
  /\ faults \in 0..MaxFaults /\ restarts \in 0..MaxRestarts

LEMMA TypeSplit ==
  TypeOK <=> outbox \in Seq(Row) /\ OtherTypes /\ worker \in [Workers -> WorkerType]
BY DEF TypeOK, OtherTypes, WorkerType

LEMMA TypeStep ==
  ASSUME TypeOK, outbox' \in Seq(Row), Len(outbox') >= Len(outbox), OtherTypes',
         worker' \in [Workers -> WorkerType]
  PROVE  TypeOK'
<1>1. Len(outbox) \in Nat /\ Len(outbox') \in Nat
  BY LenProperties, RowsAreRows
<1>2. \A r \in WorkerType : r \in WorkerType'
  BY <1>1 DEF WorkerType
<1>3. worker' \in [Workers -> WorkerType']
  BY <1>2
<1> QED BY <1>3 DEF TypeOK, OtherTypes, WorkerType

LEMMA UpdateType ==
  ASSUME TypeOK, NEW i \in DOMAIN outbox, NEW r \in Row,
         outbox' = [outbox EXCEPT ![i] = r], OtherTypes', worker' \in [Workers -> WorkerType]
  PROVE  TypeOK'
<1>1. [outbox EXCEPT ![i] = r] \in [DOMAIN outbox -> Row]
  BY RowsAreRows
<1>2. outbox' \in Seq(Row) /\ Len(outbox') = Len(outbox) /\ Len(outbox) \in Nat
  BY <1>1, RowsUpdate, RowsAreRows
<1> QED BY <1>2, TypeStep

(* A worker writes its row and is done with it. *)
LEMMA ReleaseStep ==
  ASSUME OInv, NEW w \in Workers, worker[w].phase # "idle", NEW r \in Row, Release(w, r),
         r.chat = Held(w).chat, r.kind = Held(w).kind, r.card = Held(w).card,
         r.owner = Held(w).owner, r.delivered = Held(w).delivered, r.fresh = Held(w).fresh,
         r.noted => r.state = "SENT",
         OtherTypes', UNCHANGED <<bot, sessions, bound, configured>>
  PROVE  OInv'
<1> DEFINE i == worker[w].row
<1>1. /\ i \in DOMAIN outbox /\ Held(w) = outbox[i] /\ outbox[i].state = "INFLIGHT"
      /\ sessions # {} /\ \A v \in Workers \ {w} : worker[v].row # i
  BY HeldFacts
<1>2. worker \in [Workers -> WorkerType] /\ Idle \in WorkerType
  BY TypeSplit, IdleType DEF OInv
<1>3. worker' \in [Workers -> WorkerType] /\ outbox' = [outbox EXCEPT ![i] = r]
  BY <1>2 DEF Release
<1>4. TypeOK'
  BY <1>1, <1>3, UpdateType DEF OInv
<1>5. Done(w) /\ \A v \in Workers \ {w} : worker'[v] = worker[v]
  BY <1>2 DEF Release, Done
<1>6. r.fresh => r.delivered > 0
  BY <1>1 DEF OInv, RowOK
<1> HIDE DEF i
<1>7. \A v \in Workers : \/ Done(v) \/ GoesOn(v)
                         \/ worker'[v] = worker[v] /\ worker[v].row # i
  BY <1>1, <1>5
<1> QED BY <1>1, <1>3, <1>4, <1>6, <1>7, RowStep

(* The operator, or the start-up, rewrites a row nobody holds. *)
LEMMA DecisionStep ==
  ASSUME OInv, NEW i \in DOMAIN outbox, Resolvable(i), NEW r \in Row,
         outbox' = [outbox EXCEPT ![i] = r], UNCHANGED worker,
         r.chat = outbox[i].chat, r.kind = outbox[i].kind, r.card = outbox[i].card,
         r.owner = outbox[i].owner, r.delivered = outbox[i].delivered,
         r.fresh = outbox[i].fresh, r.noted => r.state = "SENT",
         OtherTypes', UNCHANGED <<bot, sessions, bound, configured>>
  PROVE  OInv'
<1>1. outbox[i].state \in {"FAILED", "UNKNOWN"}
  BY DEF Resolvable
<1>2. sessions # {}
  BY <1>1 DEF OInv, BotsOK
<1>3. worker' \in [Workers -> WorkerType]
  BY TypeSplit DEF OInv
<1>4. TypeOK'
  BY <1>3, UpdateType DEF OInv
<1>5. ASSUME NEW v \in Workers PROVE worker[v].row # i
  <2>1. CASE worker[v].phase = "idle"
    <3>1. worker[v].row = 0
      BY <2>1, IdleType DEF OInv, WorkerOK
    <3> QED BY <3>1, RowsAreRows DEF OInv
  <2>2. CASE worker[v].phase # "idle"
    BY <2>2, <1>1, HeldFacts
  <2> QED BY <2>1, <2>2
<1>6. r.fresh => r.delivered > 0
  BY DEF OInv, RowOK
<1> QED BY <1>1, <1>2, <1>4, <1>5, <1>6, RowStep

(* A worker goes to its next step without writing anything. *)
LEMMA WorkerStep ==
  ASSUME OInv, NEW w \in Workers, worker[w].phase # "idle", UNCHANGED outbox,
         worker' \in [Workers -> WorkerType], Done(w) \/ GoesOn(w),
         \A v \in Workers \ {w} : worker'[v] = worker[v],
         OtherTypes', UNCHANGED <<bot, sessions, bound, configured>>
  PROVE  OInv'
<1> DEFINE i == worker[w].row
<1>1. /\ i \in DOMAIN outbox /\ Held(w) = outbox[i] /\ outbox[i].state = "INFLIGHT"
      /\ sessions # {} /\ \A v \in Workers \ {w} : worker[v].row # i
      /\ outbox[i] \in Row
  BY HeldFacts
<1>2. outbox' = [outbox EXCEPT ![i] = outbox[i]]
  BY <1>1, RowsAreRows DEF OInv
<1>3. TypeOK'
  BY <1>1, <1>2, UpdateType DEF OInv
<1>4. ASSUME NEW v \in Workers
      PROVE  Done(v) \/ GoesOn(v) \/ (worker'[v] = worker[v] /\ worker[v].row # i)
  <2>1. CASE v = w
    BY <2>1
  <2>2. CASE v # w
    <3>1. worker[v].row # i
      BY <2>2, <1>1
    <3> QED BY <2>2, <3>1
  <2> QED BY <2>1, <2>2
<1>5. /\ outbox[i].fresh => outbox[i].delivered > 0
      /\ outbox[i].noted => outbox[i].state = "SENT"
  BY <1>1 DEF OInv, RowOK
<1> HIDE DEF i
<1> QED BY <1>1, <1>2, <1>3, <1>4, <1>5, RowStep

(* Types that a step which leaves the delivery state alone keeps. *)
LEMMA OtherTypesStay ==
  ASSUME TypeOK, UNCHANGED <<tables, process, memPause, waits, faults>>
  PROVE  OtherTypes' /\ UNCHANGED <<bot, sessions, bound, configured>>
BY TypeSplit DEF tables, process, waits, OtherTypes

LEMMA MaxInNat ==
  ASSUME NEW x \in Nat, NEW y \in Nat
  PROVE  /\ Max({x, y}) \in Nat /\ Max({x, y}) >= x /\ Max({x, y}) >= y
         /\ \A n \in Nat : x <= n /\ y <= n => Max({x, y}) <= n
BY MaxOfTwo

(* What the steps that hand a row back write. *)
LEMMA ReleasedRow ==
  ASSUME OInv, NEW w \in Workers, worker[w].phase # "idle",
         NEW state \in States, NEW due \in Nat, NEW noted \in BOOLEAN,
         Release(w, With(Held(w), state, due, noted)),
         OtherTypes', UNCHANGED <<bot, sessions, bound, configured>>
  PROVE  OInv'
<1> DEFINE r == With(Held(w), state, due, noted)
<1>1. Held(w) \in Row
  BY HeldFacts
<1>2. /\ r \in Row
      /\ r.chat = Held(w).chat /\ r.kind = Held(w).kind /\ r.card = Held(w).card
      /\ r.owner = Held(w).owner /\ r.delivered = Held(w).delivered /\ r.fresh = Held(w).fresh
      /\ r.noted => r.state = "SENT"
  BY <1>1, WithType
<1> HIDE DEF r
<1> QED BY <1>2, ReleaseStep DEF r

LEMMA GiveUpInv == ASSUME OInv, NEW w \in Workers, GiveUp(w) PROVE OInv'
<1>1. OtherTypes' /\ UNCHANGED <<bot, sessions, bound, configured>>
  BY OtherTypesStay DEF GiveUp, OInv
<1> QED BY <1>1, ReleasedRow DEF GiveUp, States

LEMMA DeferInv == ASSUME OInv, NEW w \in Workers, Defer(w) PROVE OInv'
<1> DEFINE due == Max({Held(w).due, pause})
           r == With(Held(w), "PENDING", due, FALSE)
           s == [r EXCEPT !.attempts = IF @ = 0 THEN 0 ELSE @ - 1]
<1>1. OtherTypes' /\ UNCHANGED <<bot, sessions, bound, configured>>
  BY OtherTypesStay DEF Defer, OInv
<1>2. worker[w].phase # "idle" /\ Release(w, s)
  BY DEF Defer
<1>3. Held(w) \in Row /\ Held(w).due \in Nat /\ pause \in Nat
  <2>1. Held(w) \in Row
    BY <1>2, HeldFacts
  <2>2. Held(w).due \in Nat
    BY <2>1 DEF Row
  <2>3. pause \in Nat
    BY WaitBounds DEF OInv, TypeOK
  <2> QED BY <2>1, <2>2, <2>3
<1>4. due \in Nat
  BY <1>3, MaxInNat
<1> HIDE DEF due
<1>5. /\ r \in Row /\ r.chat = Held(w).chat /\ r.kind = Held(w).kind
      /\ r.card = Held(w).card /\ r.owner = Held(w).owner
      /\ r.delivered = Held(w).delivered /\ r.fresh = Held(w).fresh
      /\ r.noted => r.state = "SENT"
  BY <1>3, <1>4 DEF With, Row, States
<1> HIDE DEF r
<1>6. s \in Row
  <2>1. r.attempts \in 0..GiveUpAfter /\ GiveUpAfter \in Nat
    BY <1>5, OutboxAssumption DEF Row
  <2> QED BY <1>5, <2>1 DEF Row
<1>7. /\ s.chat = r.chat /\ s.kind = r.kind /\ s.card = r.card /\ s.owner = r.owner
      /\ s.delivered = r.delivered /\ s.fresh = r.fresh
      /\ s.noted = r.noted /\ s.state = r.state
  BY <1>5 DEF Row
<1> HIDE DEF s
<1> QED BY <1>1, <1>2, <1>5, <1>6, <1>7, ReleaseStep

LEMMA RateLimitInv == ASSUME OInv, NEW w \in Workers, RateLimit(w) PROVE OInv'
<1> DEFINE until == Max({pause, worker[w].wait + 1})
<1>1. worker[w].phase # "idle" /\ Release(w, With(Held(w), "PENDING", until, TRUE))
  BY DEF RateLimit, Answered
<1>2. worker[w].wait \in Nat /\ worker[w].wait + 1 \in 0..MaxWait /\ MaxWait \in Nat
  BY WaitBounds DEF OInv, WorkerOK
<1>3. pause \in 0..MaxWait /\ pause \in Nat
  BY <1>2 DEF OInv, TypeOK
<1>4. until \in 0..MaxWait /\ until \in Nat
  <2>1. until \in Nat /\ until <= MaxWait
    BY <1>2, <1>3, MaxOfTwo
  <2> QED BY <2>1, <1>2
<1>5. bot \in Bots
  BY <1>1, HeldFacts
<1>6. OtherTypes'
  <2>1. botPause' \in [Bots -> 0..MaxWait] /\ pause' \in 0..MaxWait
    BY <1>4, <1>5 DEF RateLimit, OInv, TypeOK
  <2> HIDE DEF until
  <2>2. Saved(until)
    BY DEF RateLimit, until
  <2>3. ahead' \subseteq Workers /\ UNCHANGED <<owed, lost, unsaved>>
    BY <2>2 DEF Saved, OInv, TypeOK
  <2> QED BY <2>1, <2>3 DEF RateLimit, OInv, TypeOK, OtherTypes, process
<1>7. UNCHANGED <<bot, sessions, bound, configured>>
  BY DEF RateLimit, process
<1> HIDE DEF until
<1> QED BY <1>1, <1>4, <1>6, <1>7, ReleasedRow DEF States

LEMMA CompleteSentInv == ASSUME OInv, NEW w \in Workers, CompleteSent(w) PROVE OInv'
<1>1. /\ worker[w].phase # "idle"
      /\ Release(w, With(Held(w), "SENT", Cooldown, worker[w].answer = "same"))
  BY DEF CompleteSent, Answered
<1>2. Held(w).card \in Cards \cup {NoCard}
  <2>1. Held(w) \in Row
    BY <1>1, HeldFacts
  <2> QED BY <2>1 DEF Row
<1>3. OtherTypes' /\ UNCHANGED <<bot, sessions, bound, configured>>
  BY <1>2 DEF CompleteSent, OInv, TypeOK, OtherTypes, process, waits
<1> DEFINE noted == worker[w].answer = "same"
<1>4. noted \in BOOLEAN /\ "SENT" \in States /\ Cooldown \in Nat
  BY OutboxAssumption DEF States
<1> HIDE DEF noted
<1> QED BY <1>1, <1>3, <1>4, ReleasedRow DEF noted

LEMMA CompleteUnsentInv == ASSUME OInv, NEW w \in Workers, CompleteUnsent(w) PROVE OInv'
<1>1. OtherTypes' /\ UNCHANGED <<bot, sessions, bound, configured>>
  BY OtherTypesStay DEF CompleteUnsent, OInv
<1> QED BY <1>1, ReleasedRow DEF CompleteUnsent, Answered, States

LEMMA CompleteFailedInv == ASSUME OInv, NEW w \in Workers, CompleteFailed(w) PROVE OInv'
<1>1. OtherTypes' /\ UNCHANGED <<bot, sessions, bound, configured>>
  BY OtherTypesStay DEF CompleteFailed, OInv
<1>2. PICK state \in {"FAILED", "UNKNOWN"} :
        Release(w, With(Held(w), state, 0, FALSE)) /\ worker[w].phase # "idle"
  BY DEF CompleteFailed, Answered
<1> QED BY <1>1, <1>2, ReleasedRow DEF States

LEMMA CompletePhotoInv == ASSUME OInv, NEW w \in Workers, CompletePhoto(w) PROVE OInv'
<1>1. OtherTypes' /\ UNCHANGED <<bot, sessions, bound, configured>>
  BY OtherTypesStay DEF CompletePhoto, OInv
<1> QED BY <1>1, ReleasedRow DEF CompletePhoto, Answered, States

LEMMA LocalFailureInv == ASSUME OInv, NEW w \in Workers, LocalFailure(w) PROVE OInv'
<1>1. OtherTypes' /\ UNCHANGED <<outbox, bot, sessions, bound, configured>>
  <2>1. faults' \in 0..MaxFaults /\ unsaved' \in BOOLEAN /\ ahead' \subseteq Workers
    BY OutboxAssumption DEF LocalFailure, OInv, TypeOK
  <2> QED BY <2>1 DEF LocalFailure, OInv, TypeOK, OtherTypes, tables, process
<1>2. /\ worker' = [worker EXCEPT ![w] = Idle] /\ worker[w].phase # "idle"
      /\ worker \in [Workers -> WorkerType] /\ Idle \in WorkerType
  BY TypeSplit, IdleType DEF LocalFailure, OInv
<1> QED BY <1>1, <1>2, WorkerStep DEF Done

(* A worker that goes on to its next step. *)
LEMMA PhaseInv ==
  ASSUME OInv, NEW w \in Workers, NEW from \in {"claimed", "paced"},
         NEW to \in {"paced", "ready"}, worker[w].phase = from,
         worker' = [worker EXCEPT ![w].phase = to],
         UNCHANGED <<outbox, tables, process, memPause, waits, faults>>
  PROVE  OInv'
<1>1. OtherTypes' /\ UNCHANGED <<outbox, bot, sessions, bound, configured>>
  BY OtherTypesStay DEF OInv
<1>2. /\ worker[w].phase # "idle" /\ worker[w].phase # "answered"
      /\ worker \in [Workers -> WorkerType] /\ worker[w] \in WorkerType
  BY TypeSplit DEF OInv
<1>3. /\ worker' \in [Workers -> WorkerType]
      /\ worker'[w] = [worker[w] EXCEPT !.phase = to]
      /\ \A v \in Workers \ {w} : worker'[v] = worker[v]
  BY <1>2 DEF WorkerType, Phases
<1>4. WorkerOK(w)
  BY DEF OInv
<1>5. Held(w).state = "INFLIGHT"
  BY <1>2, HeldFacts
<1>6. GoesOn(w)
  BY <1>1, <1>2, <1>3, <1>4, <1>5 DEF GoesOn, WorkerOK, WorkerType, Answers, Held
<1> QED BY <1>1, <1>2, <1>3, <1>6, WorkerStep

LEMMA PaceInv == ASSUME OInv, NEW w \in Workers, Pace(w) PROVE OInv'
BY PhaseInv DEF Pace

LEMMA RecheckInv == ASSUME OInv, NEW w \in Workers, Recheck(w) PROVE OInv'
BY PhaseInv DEF Recheck

LEMMA RetryInv == ASSUME OInv, NEW i \in DOMAIN outbox, Retry(i) PROVE OInv'
<1> DEFINE r == With(outbox[i], "PENDING", 0, FALSE)
           s == [r EXCEPT !.retries = @ + 1]
<1>1. OtherTypes' /\ UNCHANGED <<bot, sessions, bound, configured>>
  BY OtherTypesStay DEF Retry, OInv
<1>2. Resolvable(i) /\ UNCHANGED worker
  BY DEF Retry
<1>3. outbox[i] \in Row
  BY RowsAreRows DEF OInv
<1>4. outbox' = [outbox EXCEPT ![i] = s]
  BY DEF Retry
<1>5. /\ r \in Row /\ r.chat = outbox[i].chat /\ r.kind = outbox[i].kind
      /\ r.card = outbox[i].card /\ r.owner = outbox[i].owner
      /\ r.delivered = outbox[i].delivered /\ r.fresh = outbox[i].fresh
      /\ r.noted => r.state = "SENT"
  BY <1>3 DEF With, Row, States
<1> HIDE DEF r
<1>6. /\ s \in Row /\ s.chat = r.chat /\ s.kind = r.kind
      /\ s.card = r.card /\ s.owner = r.owner
      /\ s.delivered = r.delivered /\ s.fresh = r.fresh
      /\ s.noted = r.noted /\ s.state = r.state
  BY <1>5 DEF Row
<1> HIDE DEF s
<1> QED BY <1>1, <1>2, <1>4, <1>5, <1>6, DecisionStep

LEMMA AckInv == ASSUME OInv, NEW i \in DOMAIN outbox, Ack(i) PROVE OInv'
<1> DEFINE r == With(outbox[i], "SENT", outbox[i].due, TRUE)
<1>1. outbox[i] \in Row
  BY RowsAreRows DEF OInv
<1>2. OtherTypes' /\ UNCHANGED <<bot, sessions, bound, configured>>
  BY <1>1 DEF Ack, OInv, TypeOK, OtherTypes, process, waits, Row
<1>3. Resolvable(i) /\ UNCHANGED worker /\ outbox' = [outbox EXCEPT ![i] = r]
  BY DEF Ack
<1>4. /\ r \in Row /\ r.chat = outbox[i].chat /\ r.kind = outbox[i].kind
      /\ r.card = outbox[i].card /\ r.owner = outbox[i].owner
      /\ r.delivered = outbox[i].delivered /\ r.fresh = outbox[i].fresh
      /\ r.noted => r.state = "SENT"
  BY <1>1 DEF With, Row, States
<1> HIDE DEF r
<1> QED BY <1>2, <1>3, <1>4, DecisionStep

LEMMA SkipInv == ASSUME OInv, NEW i \in DOMAIN outbox, Skip(i) PROVE OInv'
<1> DEFINE r == With(outbox[i], "SENT", outbox[i].due, TRUE)
<1>1. outbox[i] \in Row
  BY RowsAreRows DEF OInv
<1>2. OtherTypes' /\ UNCHANGED <<bot, sessions, bound, configured>>
  BY OtherTypesStay DEF Skip, OInv
<1>3. Resolvable(i) /\ UNCHANGED worker /\ outbox' = [outbox EXCEPT ![i] = r]
  BY DEF Skip
<1>4. /\ r \in Row /\ r.chat = outbox[i].chat /\ r.kind = outbox[i].kind
      /\ r.card = outbox[i].card /\ r.owner = outbox[i].owner
      /\ r.delivered = outbox[i].delivered /\ r.fresh = outbox[i].fresh
      /\ r.noted => r.state = "SENT"
  BY <1>1 DEF With, Row, States
<1> HIDE DEF r
<1> QED BY <1>2, <1>3, <1>4, DecisionStep

(* What a transmission writes in the row. *)
Called(r, arrived, edit) ==
  [r EXCEPT !.delivered = IF arrived THEN @ + 1 ELSE @, !.fresh = @ \/ (arrived /\ ~edit)]

LEMMA CalledType ==
  ASSUME NEW r \in Row, NEW arrived \in BOOLEAN, NEW edit \in BOOLEAN
  PROVE  LET s == Called(r, arrived, edit)
         IN /\ s \in Row
            /\ s.chat = r.chat /\ s.kind = r.kind /\ s.card = r.card /\ s.owner = r.owner
            /\ s.state = r.state /\ s.noted = r.noted /\ s.retries = r.retries
            /\ s.delivered = IF arrived THEN r.delivered + 1 ELSE r.delivered
            /\ s.fresh = (r.fresh \/ (arrived /\ ~edit))
<1> DEFINE d == IF arrived THEN r.delivered + 1 ELSE r.delivered
           f == r.fresh \/ (arrived /\ ~edit)
<1>1. Called(r, arrived, edit) = [r EXCEPT !.delivered = d, !.fresh = f]
  BY DEF Called
<1>2. d \in Nat /\ f \in BOOLEAN
  BY DEF Row
<1> HIDE DEF d, f
<1>3. LET s == [r EXCEPT !.delivered = d, !.fresh = f]
      IN /\ s \in Row
         /\ s.chat = r.chat /\ s.kind = r.kind /\ s.card = r.card /\ s.owner = r.owner
         /\ s.state = r.state /\ s.noted = r.noted /\ s.retries = r.retries
         /\ s.delivered = d /\ s.fresh = f
  BY <1>2 DEF Row
<1> QED BY <1>1, <1>3 DEF d, f

(* What an answer makes of the waits. *)
LEMMA GateTypes ==
  ASSUME OInv, NEW w \in Workers, NEW wait \in Waits \cup {0}, worker[w].phase # "idle",
         Gate(w, wait)
  PROVE  /\ memPause' \in 0..MaxWait /\ owed' \in [Bots -> 0..MaxWait]
         /\ lost' \in [Bots -> 0..MaxWait] /\ unsaved' \in BOOLEAN /\ ahead' \subseteq Workers
<1>1. bot \in Bots
  BY HeldFacts
<1>2. wait \in Nat /\ wait <= MaxWait /\ MaxWait \in Nat
  BY WaitBounds
<1>3. \A n \in 0..MaxWait : Max({n, wait}) \in 0..MaxWait
  <2> SUFFICES ASSUME NEW n \in 0..MaxWait PROVE Max({n, wait}) \in 0..MaxWait
    OBVIOUS
  <2>1. n \in Nat /\ n <= MaxWait
    BY <1>2
  <2>2. Max({n, wait}) \in Nat /\ Max({n, wait}) <= MaxWait
    BY <2>1, <1>2, MaxInNat
  <2> QED BY <2>2, <1>2
<1>4. memPause \in 0..MaxWait /\ owed \in [Bots -> 0..MaxWait] /\ owed[bot] \in 0..MaxWait
  BY <1>1 DEF OInv, TypeOK
<1>5. Max({memPause, wait}) \in 0..MaxWait /\ Max({owed[bot], wait}) \in 0..MaxWait
  BY <1>3, <1>4
<1>6. memPause' \in 0..MaxWait /\ owed' \in [Bots -> 0..MaxWait]
  BY <1>4, <1>5 DEF Gate
<1> QED BY <1>6 DEF Gate, OInv, TypeOK

LEMMA OtherTypesGate ==
  ASSUME OInv, NEW w \in Workers, NEW wait \in Waits \cup {0}, worker[w].phase # "idle",
         Gate(w, wait), UNCHANGED <<tables, process>>, faults' \in 0..MaxFaults
  PROVE  OtherTypes' /\ UNCHANGED <<bot, sessions, bound, configured>>
BY GateTypes DEF OInv, TypeOK, OtherTypes, tables, process

(* A call and its answer, taken apart. *)
LEMMA TransmitEffect ==
  ASSUME OInv, NEW w \in Workers, Transmit(w)
  PROVE  \E answer \in Answers \ {"none"}, wait \in Waits \cup {0}, arrived \in BOOLEAN :
           /\ answer \in {"ok", "noId"} => arrived
           /\ arrived => answer \in {"ok", "noId", "lost"}
           /\ outbox' = [outbox EXCEPT ![worker[w].row] = Called(Held(w), arrived, worker[w].edit)]
           /\ worker' = [worker EXCEPT ![w] = [worker[w] EXCEPT !.phase = "answered", !.answer = answer,
                                                        !.wait = wait]]
           /\ wait # 0 => answer = "limited"
           /\ answer = "same" => worker[w].edit
           /\ Gate(w, wait) /\ faults' \in 0..MaxFaults
<1>1. PICK answer \in Answers, wait \in Waits \cup {0} :
        /\ CanAnswer(Held(w), worker[w].edit, answer)
        /\ Charge(answer)
        /\ \E arrived \in Arrives(answer) :
             outbox' = [outbox EXCEPT
                          ![worker[w].row].delivered = IF arrived THEN @ + 1 ELSE @,
                          ![worker[w].row].fresh = @ \/ (arrived /\ ~worker[w].edit)]
        /\ worker' = [worker EXCEPT ![w].phase = "answered", ![w].answer = answer,
                                    ![w].wait = wait]
        /\ answer = "limited" <=> wait # 0
        /\ Gate(w, wait)
  BY DEF Transmit
<1>2. PICK arrived \in Arrives(answer) :
        outbox' = [outbox EXCEPT
                     ![worker[w].row].delivered = IF arrived THEN @ + 1 ELSE @,
                     ![worker[w].row].fresh = @ \/ (arrived /\ ~worker[w].edit)]
  BY <1>1
<1>3. answer # "none" /\ (answer = "same" => worker[w].edit)
  BY <1>1 DEF CanAnswer
<1>4. /\ arrived \in BOOLEAN
      /\ answer \in {"ok", "noId"} => arrived
      /\ arrived => answer \in {"ok", "noId", "lost"}
  BY <1>2 DEF Arrives
<1>5. /\ worker[w].row \in DOMAIN outbox /\ Held(w) = outbox[worker[w].row]
      /\ Held(w) \in Row
  BY HeldFacts DEF Transmit
<1>6. outbox' = [outbox EXCEPT ![worker[w].row] = Called(Held(w), arrived, worker[w].edit)]
  <2> DEFINE i == worker[w].row
             e == worker[w].edit
             f == [outbox EXCEPT ![i] = Called(Held(w), arrived, e)]
  <2>1. outbox \in [1..Len(outbox) -> Row] /\ DOMAIN outbox = 1..Len(outbox)
    BY RowsAreRows DEF OInv
  <2>2. DOMAIN f = DOMAIN outbox' /\ DOMAIN f = DOMAIN outbox
    BY <1>2
  <2>3. ASSUME NEW j \in DOMAIN f PROVE f[j] = outbox'[j]
    BY <2>1, <2>2, <1>5, <1>2 DEF Called, Row
  <2>4. outbox' = [j \in DOMAIN outbox' |-> outbox'[j]] /\ f = [j \in DOMAIN f |-> f[j]]
    BY <1>2
  <2> QED BY <2>2, <2>3, <2>4
<1>7. worker' = [worker EXCEPT ![w] = [worker[w] EXCEPT !.phase = "answered", !.answer = answer,
                                                !.wait = wait]]
  BY <1>1, WorkersAreWorkers DEF OInv, WorkerType
<1>8. faults' \in 0..MaxFaults
  <2>1. faults \in 0..MaxFaults
    BY DEF OInv, TypeOK
  <2> QED BY <1>1, <2>1, ChargeBound
<1>9. answer \in Answers \ {"none"}
  BY <1>3
<1>10. arrived \in BOOLEAN
  BY <1>4
<1> WITNESS answer \in Answers \ {"none"}, wait \in Waits \cup {0}, arrived \in BOOLEAN
<1> QED BY <1>1, <1>3, <1>4, <1>6, <1>7, <1>8

LEMMA TransmitInv == ASSUME OInv, NEW w \in Workers, Transmit(w) PROVE OInv'
<1> DEFINE i == worker[w].row
<1>1. PICK answer \in Answers \ {"none"}, wait \in Waits \cup {0}, arrived \in BOOLEAN :
           /\ answer \in {"ok", "noId"} => arrived
           /\ outbox' = [outbox EXCEPT ![i] = Called(Held(w), arrived, worker[w].edit)]
           /\ worker' = [worker EXCEPT ![w] = [worker[w] EXCEPT !.phase = "answered", !.answer = answer,
                                                        !.wait = wait]]
           /\ wait # 0 => answer = "limited"
           /\ Gate(w, wait) /\ faults' \in 0..MaxFaults
  BY TransmitEffect
<1>2. /\ i \in DOMAIN outbox /\ Held(w) \in Row /\ Held(w) = outbox[i]
      /\ Held(w).state = "INFLIGHT" /\ sessions # {}
      /\ \A v \in Workers \ {w} : worker[v].row # i
  BY HeldFacts DEF Transmit
<1>3. worker \in [Workers -> WorkerType] /\ worker[w] \in WorkerType /\ worker[w].edit \in BOOLEAN
  BY WorkersAreWorkers DEF OInv
<1> DEFINE r == Called(Held(w), arrived, worker[w].edit)
<1>4. /\ r \in Row
      /\ r.chat = outbox[i].chat /\ r.kind = outbox[i].kind /\ r.card = outbox[i].card
      /\ r.owner = outbox[i].owner /\ r.state = "INFLIGHT" /\ r.noted = outbox[i].noted
      /\ r.delivered = IF arrived THEN outbox[i].delivered + 1 ELSE outbox[i].delivered
      /\ r.fresh = (outbox[i].fresh \/ (arrived /\ ~worker[w].edit))
  BY <1>2, <1>3, CalledType
<1>5. outbox[i].delivered \in Nat
  BY <1>2 DEF Row
<1>6. r.fresh => r.delivered > 0
  BY <1>2, <1>4, <1>5 DEF OInv, RowOK
<1>7. r.noted => r.state = "SENT"
  BY <1>2, <1>4 DEF OInv, RowOK
<1> HIDE DEF r
<1>8. wait \in 0..MaxWait /\ wait \in Nat /\ MaxWait \in Nat
  BY WaitBounds
<1>9. /\ worker' \in [Workers -> WorkerType]
      /\ \A v \in Workers \ {w} : worker'[v] = worker[v]
      /\ worker'[w].phase = "answered" /\ worker'[w].answer = answer
      /\ worker'[w].wait = wait /\ worker'[w].row = worker[w].row
  BY <1>1, <1>3, <1>8 DEF WorkerType, Phases
<1>10. OtherTypes' /\ UNCHANGED <<bot, sessions, bound, configured>>
  BY <1>1, OtherTypesGate DEF Transmit
<1>11. outbox' = [outbox EXCEPT ![i] = r]
  BY <1>1 DEF r
<1>12. TypeOK'
  BY <1>2, <1>4, <1>9, <1>10, <1>11, UpdateType DEF OInv
<1>13. outbox'[i] = r
  BY <1>2, <1>11, RowsAreRows DEF OInv
<1>14. GoesOn(w)
  BY <1>1, <1>2, <1>4, <1>5, <1>9, <1>13 DEF GoesOn, Transmit
<1>15. ASSUME NEW v \in Workers
       PROVE  Done(v) \/ GoesOn(v) \/ (worker'[v] = worker[v] /\ worker[v].row # i)
  <2>1. CASE v = w
    BY <2>1, <1>14
  <2>2. CASE v # w
    BY <2>2, <1>2, <1>9
  <2> QED BY <2>1, <2>2
<1> HIDE DEF i
<1> QED BY <1>2, <1>4, <1>6, <1>7, <1>10, <1>11, <1>12, <1>15, RowStep

(* The row a worker claims. *)
LEMMA NextRowWaits ==
  ASSUME TypeOK, Claimable # {}
  PROVE  NextRow \in Claimable /\ NextRow \in DOMAIN outbox
<1> DEFINE first == { j \in Claimable : IsGroup(j) }
           from  == IF first # {} THEN first ELSE Claimable
<1>1. Claimable \subseteq DOMAIN outbox /\ DOMAIN outbox \subseteq Nat
  BY RowsAreRows DEF Claimable
<1>2. from \in SUBSET Nat /\ from # {} /\ from \subseteq Claimable
  BY <1>1
<1>3. NextRow = Min(from)
  BY DEF NextRow
<1> HIDE DEF from
<1> QED BY <1>1, <1>2, <1>3, MinOfNats

LEMMA ClaimInv == ASSUME OInv, NEW w \in Workers, Claim(w) PROVE OInv'
<1>1. /\ Len(outbox) \in Nat /\ DOMAIN outbox = 1..Len(outbox)
      /\ outbox \in [1..Len(outbox) -> Row] /\ GiveUpAfter \in Nat
  BY RowsAreRows, OutboxAssumption DEF OInv
<1>2. PICK i \in DOMAIN outbox : i = NextRow /\ i \in Claimable
  BY NextRowWaits DEF Claim, OInv
<1>3. /\ i \in DOMAIN outbox /\ outbox[i] \in Row /\ outbox[i].state = "PENDING"
      /\ Active(i) /\ ~Blocked(i) /\ i \in Nat
  BY <1>1, <1>2 DEF Claimable
<1> DEFINE n == IF IsGroup(i) THEN Min({outbox[i].attempts + 1, GiveUpAfter})
                ELSE outbox[i].attempts
           r == [outbox[i] EXCEPT !.state = "INFLIGHT", !.attempts = n]
           held == [Idle EXCEPT !.phase = "claimed", !.row = i, !.edit = outbox[i].card \in cards]
<1>4. outbox' = [outbox EXCEPT ![i] = r]
  BY <1>1, <1>2, <1>3 DEF Claim
<1>5. worker' = [worker EXCEPT ![w] = held] /\ bound /\ worker[w] = Idle
  BY <1>2 DEF Claim
<1>6. n \in 0..GiveUpAfter
  <2>1. outbox[i].attempts \in 0..GiveUpAfter
    BY <1>3 DEF Row
  <2>2. outbox[i].attempts + 1 \in Nat
    BY <2>1, <1>1
  <2> DEFINE k == outbox[i].attempts + 1
  <2> HIDE DEF k
  <2>3. Min({k, GiveUpAfter}) \in {k, GiveUpAfter} /\ Min({k, GiveUpAfter}) <= GiveUpAfter
    <3>1. k \in Int /\ GiveUpAfter \in Int
      BY <2>2, <1>1 DEF k
    <3> QED BY <3>1, MinOfTwo
  <2>4. Min({k, GiveUpAfter}) \in 0..GiveUpAfter
    BY <2>2, <2>3, <1>1 DEF k
  <2> QED BY <2>1, <2>4 DEF k, n
<1> HIDE DEF n
<1>7. /\ r \in Row /\ r.state = "INFLIGHT"
      /\ r.chat = outbox[i].chat /\ r.kind = outbox[i].kind /\ r.card = outbox[i].card
      /\ r.owner = outbox[i].owner /\ r.delivered = outbox[i].delivered
      /\ r.fresh = outbox[i].fresh /\ r.noted = outbox[i].noted
  BY <1>3, <1>6 DEF Row, States
<1> HIDE DEF r
<1>8. /\ held \in WorkerType /\ held.phase = "claimed" /\ held.row = i
      /\ held.answer = "none" /\ held.wait = 0
  <2>1. i \in 0..Len(outbox)
    BY <1>1, <1>3
  <2>2. Idle \in WorkerType /\ Idle.answer = "none" /\ Idle.wait = 0
    BY IdleType DEF OInv
  <2> HIDE DEF held
  <2>3. held = [Idle EXCEPT !.phase = "claimed", !.row = i, !.edit = (outbox[i].card \in cards)]
    BY DEF held
  <2>4. (outbox[i].card \in cards) \in BOOLEAN /\ "claimed" \in Phases
    BY DEF Phases
  <2> QED BY <2>1, <2>2, <2>3, <2>4 DEF WorkerType, Idle
<1> HIDE DEF held
<1>9. OtherTypes' /\ UNCHANGED <<bot, sessions, bound, configured>>
  BY OtherTypesStay DEF Claim, OInv
<1>10. /\ worker \in [Workers -> WorkerType] /\ worker' \in [Workers -> WorkerType]
       /\ worker'[w] = held /\ \A v \in Workers \ {w} : worker'[v] = worker[v]
  BY <1>5, <1>8, TypeSplit DEF OInv
<1>11. TypeOK'
  BY <1>3, <1>4, <1>7, <1>9, <1>10, UpdateType DEF OInv
<1>12. /\ DOMAIN outbox' = DOMAIN outbox /\ outbox'[i] = r
       /\ \A j \in DOMAIN outbox : j # i => outbox'[j] = outbox[j]
  BY <1>1, <1>3, <1>4
<1>13. SameRows
  BY <1>3, <1>7, <1>12 DEF SameRows
<1>14. \A j \in DOMAIN outbox : Sensible(j)
  BY <1>3, <1>7, <1>12 DEF Sensible, OInv, RowOK
<1>15. \A v \in Workers : worker[v].row # i
  <2> SUFFICES ASSUME NEW v \in Workers PROVE worker[v].row # i
    OBVIOUS
  <2>1. CASE worker[v].phase = "idle"
    <3>1. worker[v].row = 0
      BY <2>1, IdleType DEF OInv, WorkerOK
    <3> QED BY <3>1, <1>1, <1>3
  <2>2. CASE worker[v].phase # "idle"
    BY <2>2, <1>3, HeldFacts
  <2> QED BY <2>1, <2>2
<1>16. ASSUME NEW v \in Workers PROVE Done(v) \/ Untouched(v) \/ GoesOn(v) \/ Takes(v)
  <2>1. CASE v # w
    <3>1. worker[v].phase = "idle" \/ worker[v].row \in DOMAIN outbox
      BY HeldFacts
    <3> QED BY <2>1, <3>1, <1>10, <1>12, <1>15 DEF Untouched, Held
  <2>2. CASE v = w
    <3>1. ~IsGroup(i) => FirstInLane(i)
      <4> SUFFICES ASSUME ~IsGroup(i), NEW j \in 1..(i - 1), SameLane(i, j), SameOwner(i, j)
                   PROVE  outbox[j].state = "SENT"
        BY DEF FirstInLane
      <4>1. outbox[j].state = "SENT" \/ Passable(j)
        BY <1>3 DEF Blocked
      <4>2. ~Passable(j)
        BY DEF SameLane, Passable, IsGroup, GroupKinds
      <4> QED BY <4>1, <4>2
    <3>2. ~IsGroup(i)' => FirstInLane(i)'
      <4>1. PICK k \in DOMAIN outbox : k = i
        BY <1>3
      <4>2. ~IsGroup(k)' => FirstInLane(k)'
        BY <3>1, <4>1, <1>13, SameStreams DEF OInv
      <4> QED BY <4>1, <4>2 DEF IsGroup, FirstInLane, SameLane, SameOwner
    <3>3. Active(i)'
      BY <1>3, <1>7, <1>9, <1>12 DEF Active
    <3>4. Held(w)' = r
      BY <1>8, <1>10, <1>12 DEF Held
    <3>5. bound' /\ worker'[w].row = i
      BY <1>5, <1>8, <1>9, <1>10
    <3>6. \A u \in Workers \ {w} : worker'[u].row # worker'[w].row
      BY <1>10, <1>15, <3>5
    <3>7. Holding(w)'
      BY <1>3, <1>7, <1>12, <3>2, <3>3, <3>4, <3>5, <3>6
         DEF Holding, Active, IsGroup, FirstInLane, SameLane, SameOwner
    <3>8. WorkerOK(w)'
      BY <1>8, <1>10, <3>7 DEF WorkerOK
    <3> QED BY <2>2, <1>3, <3>5, <3>8 DEF Takes
  <2> QED BY <2>1, <2>2
<1>17. sessions # {}
  BY <1>5 DEF OInv, BotsOK
<1> QED BY <1>9, <1>11, <1>12, <1>13, <1>14, <1>16, <1>17, RowsStep DEF StaysBound

(* A message that is queued, or takes the place of another, at the end. *)
LEMMA AppendStep ==
  ASSUME OInv, NEW f \in [DOMAIN outbox -> Row], NEW chat \in Chats,
         NEW kind \in MessageKinds \cup GroupKinds, NEW card \in Cards \cup {NoCard},
         card # NoCard => kind = "text" /\ chat = Group,
         outbox' = Append(f, NewRow(chat, kind, card, bot)),
         OtherTypes', worker' \in [Workers -> WorkerType]
  PROVE  /\ TypeOK' /\ \A j \in DOMAIN outbox' \ DOMAIN outbox : Added(j)
         /\ DOMAIN outbox' = 1..(Len(outbox) + 1)
         /\ \A j \in DOMAIN outbox : outbox'[j] = f[j]
<1> DEFINE r == NewRow(chat, kind, card, bot)
<1>1. f \in Seq(Row) /\ Len(f) = Len(outbox) /\ DOMAIN outbox = 1..Len(outbox)
      /\ Len(outbox) \in Nat
  BY RowsUpdate, RowsAreRows DEF OInv
<1>2. r \in Row
  BY NewRowType DEF OInv, TypeOK
<1>3. /\ r.card = card /\ r.kind = kind /\ r.chat = chat /\ r.owner = bot /\ r.state = "PENDING" /\ r.delivered = 0
      /\ r.fresh = FALSE /\ r.noted = FALSE
  BY DEF NewRow
<1> HIDE DEF r
<1>4. /\ outbox' \in Seq(Row) /\ Len(outbox') = Len(outbox) + 1
      /\ DOMAIN outbox' = 1..(Len(outbox) + 1) /\ outbox'[Len(outbox) + 1] = r
      /\ \A j \in DOMAIN outbox : outbox'[j] = f[j]
  BY <1>1, <1>2, RowsAppend DEF r
<1>5. TypeOK'
  BY <1>1, <1>4, TypeStep DEF OInv
<1>6. ASSUME NEW j \in DOMAIN outbox' \ DOMAIN outbox PROVE Added(j)
  <2>1. j = Len(outbox) + 1
    BY <1>1, <1>4
  <2> QED BY <2>1, <1>3, <1>4 DEF Added
<1> QED BY <1>4, <1>5, <1>6

LEMMA QueueInv ==
  ASSUME OInv, NEW chat \in Chats, NEW kind \in MessageKinds \cup GroupKinds,
         NEW card \in Cards \cup {NoCard}, card # NoCard => kind = "text" /\ chat = Group,
         outbox' = Append(outbox, NewRow(chat, kind, card, bot)),
         UNCHANGED <<tables, process, memPause, worker, waits, faults>>
  PROVE  OInv'
<1>1. OtherTypes' /\ UNCHANGED <<bot, sessions, bound, configured, owed>>
  BY OtherTypesStay DEF OInv, waits
<1>2. /\ outbox \in [DOMAIN outbox -> Row] /\ DOMAIN outbox = 1..Len(outbox)
      /\ Len(outbox) \in Nat
  BY RowsAreRows DEF OInv
<1>3. worker' \in [Workers -> WorkerType] /\ worker' = worker
  BY TypeSplit DEF OInv
<1>4. /\ TypeOK' /\ \A j \in DOMAIN outbox' \ DOMAIN outbox : Added(j)
      /\ DOMAIN outbox' = 1..(Len(outbox) + 1)
      /\ \A j \in DOMAIN outbox : outbox'[j] = outbox[j]
  BY <1>1, <1>2, <1>3, AppendStep
<1>5. SameRows
  BY <1>2, <1>4 DEF SameRows
<1>6. \A j \in DOMAIN outbox : Sensible(j)
  BY <1>4 DEF Sensible, OInv, RowOK
<1>7. \A v \in Workers : Untouched(v)
  BY <1>3, <1>4, HeldFacts DEF Untouched, Held
<1>8. sessions = {} => \A j \in DOMAIN outbox : /\ outbox'[j].state = "PENDING"
                                                /\ outbox'[j].delivered = 0
  BY <1>4 DEF OInv, BotsOK
<1> QED BY <1>1, <1>4, <1>5, <1>6, <1>7, <1>8, RowsStep DEF StaysBound

LEMMA EnqueueInv ==
  ASSUME OInv, NEW chat \in Chats, NEW kind \in Kinds, NEW card \in Cards \cup {NoCard},
         Enqueue(chat, kind, card)
  PROVE  OInv'
BY QueueInv, OutboxAssumption DEF Enqueue

LEMMA FallbackInv == ASSUME OInv, NEW w \in Workers, Fallback(w) PROVE OInv'
<1> DEFINE i == worker[w].row
           r == With(outbox[i], "SENT", outbox[i].due, TRUE)
           f == [outbox EXCEPT ![i] = r]
<1>1. OtherTypes' /\ UNCHANGED <<bot, sessions, bound, configured, owed>>
  BY OtherTypesStay DEF Fallback, OInv, waits
<1>2. /\ i \in DOMAIN outbox /\ outbox[i] \in Row /\ outbox[i].state = "INFLIGHT"
      /\ \A v \in Workers \ {w} : worker[v].row # i
      /\ sessions # {} /\ Held(w) = outbox[i]
  BY HeldFacts DEF Fallback, Answered
<1>3. /\ outbox \in [DOMAIN outbox -> Row] /\ DOMAIN outbox = 1..Len(outbox)
      /\ Len(outbox) \in Nat
  BY RowsAreRows DEF OInv
<1>4. worker' \in [Workers -> WorkerType] /\ Done(w)
      /\ \A v \in Workers \ {w} : worker'[v] = worker[v]
  BY TypeSplit, IdleType DEF Fallback, OInv, Done
<1>5. outbox' = Append(f, NewRow(Held(w).chat, "text", NoCard, bot))
  BY DEF Fallback
<1>6. /\ r \in Row /\ r.chat = outbox[i].chat /\ r.kind = outbox[i].kind
      /\ r.card = outbox[i].card /\ r.owner = outbox[i].owner /\ r.state = "SENT"
      /\ r.delivered = outbox[i].delivered /\ r.fresh = outbox[i].fresh
  BY <1>2 DEF With, Row, States
<1> HIDE DEF r
<1>7. f \in [DOMAIN outbox -> Row] /\ f[i] = r /\ \A j \in DOMAIN outbox \ {i} : f[j] = outbox[j]
  BY <1>2, <1>3, <1>6
<1> HIDE DEF f
<1>8. Held(w).chat \in Chats /\ "text" \in MessageKinds \cup GroupKinds
  BY <1>2 DEF Row, MessageKinds
<1>9. /\ TypeOK' /\ \A j \in DOMAIN outbox' \ DOMAIN outbox : Added(j)
      /\ DOMAIN outbox' = 1..(Len(outbox) + 1)
      /\ \A j \in DOMAIN outbox : outbox'[j] = f[j]
  BY <1>1, <1>4, <1>5, <1>7, <1>8, AppendStep
<1>10. SameRows
  BY <1>2, <1>3, <1>6, <1>7, <1>9 DEF SameRows
<1>11. \A j \in DOMAIN outbox : Sensible(j)
  BY <1>2, <1>6, <1>7, <1>9 DEF Sensible, OInv, RowOK
<1>12. \A v \in Workers : Done(v) \/ Untouched(v)
  BY <1>2, <1>4, <1>7, <1>9, HeldFacts DEF Untouched, Held
<1> QED BY <1>1, <1>2, <1>9, <1>10, <1>11, <1>12, RowsStep DEF StaysBound

(* The start-up leaves nothing INFLIGHT and moves no row that was not. *)
LEMMA RepairedType ==
  ASSUME NEW r \in Row
  PROVE  LET s == Repaired(r)
         IN /\ s \in Row
            /\ s.chat = r.chat /\ s.kind = r.kind /\ s.card = r.card /\ s.owner = r.owner
            /\ s.delivered = r.delivered /\ s.fresh = r.fresh /\ s.retries = r.retries
            /\ r.state # "INFLIGHT" => s = r
            /\ (r.noted => r.state = "SENT") => (s.noted => s.state = "SENT")
            /\ s.state # "INFLIGHT" /\ s.due = r.due
<1>1. CASE r.state # "INFLIGHT"
  BY <1>1 DEF Repaired
<1>2. CASE r.state = "INFLIGHT"
  <2>1. PICK state \in {"PENDING", "SENT", "UNKNOWN"}, noted \in BOOLEAN :
          Repaired(r) = With(r, state, r.due, noted)
    BY <1>2 DEF Repaired
  <2>2. state \in States /\ r.due \in Nat
    BY DEF States, Row
  <2>3. LET s == With(r, state, r.due, noted)
        IN /\ s \in Row
           /\ s.chat = r.chat /\ s.kind = r.kind /\ s.card = r.card /\ s.owner = r.owner
           /\ s.delivered = r.delivered /\ s.fresh = r.fresh /\ s.retries = r.retries
           /\ s.state = state /\ s.due = r.due
           /\ s.noted => s.state = "SENT"
    BY <2>2, WithType
  <2> QED BY <1>2, <2>1, <2>3
<1> QED BY <1>1, <1>2

(* What the end of a Run makes of the waits. *)
LEMMA ForgetTypes ==
  ASSUME TypeOK, Forget
  PROVE  /\ memPause' \in 0..MaxWait /\ owed' \in [Bots -> 0..MaxWait]
         /\ lost' \in [Bots -> 0..MaxWait] /\ unsaved' \in BOOLEAN /\ ahead' \subseteq Workers
<1>1. memPause' \in 0..MaxWait /\ unsaved' \in BOOLEAN /\ ahead' \subseteq Workers
  BY WaitBounds DEF Forget
<1>2. owed \in [Bots -> 0..MaxWait] /\ lost \in [Bots -> 0..MaxWait] /\ owed' = owed
  BY DEF Forget, TypeOK
<1>3. lost' \in [Bots -> 0..MaxWait]
  <2> DEFINE gone(b) == /\ b = bot /\ owed[b] > Max({pause, lost[b]})
                        /\ unsaved \/ \E w \in Workers : worker[w].answer = "limited"
  <2>1. lost' = [b \in Bots |-> IF gone(b) THEN owed[b] ELSE lost[b]]
    BY DEF Forget
  <2> HIDE DEF gone
  <2> QED BY <1>2, <2>1
<1> QED BY <1>1, <1>2, <1>3

LEMMA RestartInv == ASSUME OInv, NEW b \in Bots, Restart(b) PROVE OInv'
<1>1. /\ outbox \in [DOMAIN outbox -> Row] /\ DOMAIN outbox = 1..Len(outbox)
      /\ Len(outbox) \in Nat
  BY RowsAreRows DEF OInv
<1>2. DOMAIN outbox' = DOMAIN outbox /\ \A j \in DOMAIN outbox : outbox'[j] = Repaired(outbox[j])
  BY DEF Restart
<1>3. outbox' \in Seq(Row) /\ Len(outbox') = Len(outbox)
  <2>1. [j \in DOMAIN outbox |-> Repaired(outbox[j])] \in [DOMAIN outbox -> Row]
    BY <1>1, RepairedType
  <2> QED BY <2>1, RowsUpdate DEF Restart, OInv
<1>4. OtherTypes'
  <2>1. MaxWait \in Nat /\ restarts \in 0..MaxRestarts /\ MaxRestarts \in Nat
    BY WaitBounds, OutboxAssumption DEF OInv, TypeOK
  <2>2. restarts' \in 0..MaxRestarts
    BY <2>1 DEF Restart
  <2> QED BY <2>2, ForgetTypes DEF Restart, tables, OInv, TypeOK, OtherTypes
<1>5. /\ worker' \in [Workers -> WorkerType] /\ Unbound
      /\ UNCHANGED <<bot, sessions, owed>>
  BY IdleType DEF Restart, Forget, OInv, Unbound, Done, tables
<1>6. TypeOK'
  BY <1>1, <1>3, <1>4, <1>5, TypeStep DEF OInv
<1>7. SameRows
  BY <1>1, <1>2, RepairedType DEF SameRows
<1>8. \A j \in DOMAIN outbox : Sensible(j)
  BY <1>1, <1>2, RepairedType DEF Sensible, OInv, RowOK
<1>9. sessions = {} => \A j \in DOMAIN outbox : /\ outbox'[j].state = "PENDING"
                                                /\ outbox'[j].delivered = 0
  BY <1>2 DEF OInv, BotsOK, Repaired
<1> QED BY <1>2, <1>5, <1>6, <1>7, <1>8, <1>9, RowsStep DEF Unbound

LEMMA DisconnectInv == ASSUME OInv, Disconnect PROVE OInv'
<1>1. /\ UNCHANGED <<outbox, bot, sessions, owed, worker>> /\ Unbound
  BY DEF Disconnect, Forget, tables, Unbound, Done
<1>2. OtherTypes' /\ TypeOK'
  <2>1. MaxWait \in Nat /\ restarts \in 0..MaxRestarts /\ MaxRestarts \in Nat
    BY WaitBounds, OutboxAssumption DEF OInv, TypeOK
  <2>2. restarts' \in 0..MaxRestarts
    BY <2>1 DEF Disconnect
  <2>3. OtherTypes'
    BY <2>2, ForgetTypes DEF Disconnect, tables, OInv, TypeOK, OtherTypes
  <2> QED BY <1>1, <2>3, RowsAreRows, TypeSplit, TypeStep DEF OInv
<1>3. SameRows /\ \A j \in DOMAIN outbox : Sensible(j)
  BY <1>1 DEF SameRows, Sensible, OInv, RowOK
<1>4. sessions = {} => \A j \in DOMAIN outbox : /\ outbox'[j].state = "PENDING"
                                                /\ outbox'[j].delivered = 0
  BY <1>1 DEF OInv, BotsOK
<1> QED BY <1>1, <1>2, <1>3, <1>4, RowsStep DEF Unbound

LEMMA LessType ==
  \A n \in Nat : /\ Less(n) \in Nat /\ Less(n) <= n
                 /\ \A m \in Nat : /\ n \in 0..m => Less(n) \in 0..m
                                   /\ n <= m => Less(n) <= Less(m)
BY DEF Less

LEMMA TickInv == ASSUME OInv, Tick PROVE OInv'
<1>1. /\ outbox \in [DOMAIN outbox -> Row] /\ DOMAIN outbox = 1..Len(outbox)
      /\ Len(outbox) \in Nat
  BY RowsAreRows DEF OInv
<1>2. ASSUME NEW r \in Row
      PROVE  LET s == [r EXCEPT !.due = Less(@)]
             IN /\ s \in Row
                /\ s.chat = r.chat /\ s.kind = r.kind /\ s.card = r.card /\ s.owner = r.owner
                /\ s.delivered = r.delivered /\ s.fresh = r.fresh
                /\ s.noted = r.noted /\ s.state = r.state
  <2>1. Less(r.due) \in Nat
    BY LessType DEF Row
  <2> QED BY <2>1 DEF Row
<1>3. /\ DOMAIN outbox' = DOMAIN outbox
      /\ \A j \in DOMAIN outbox : outbox'[j] = [outbox[j] EXCEPT !.due = Less(@)]
  BY DEF Tick
<1>4. ASSUME NEW j \in DOMAIN outbox
      PROVE  /\ outbox'[j] \in Row
             /\ outbox'[j].chat = outbox[j].chat /\ outbox'[j].kind = outbox[j].kind
             /\ outbox'[j].card = outbox[j].card /\ outbox'[j].owner = outbox[j].owner
             /\ outbox'[j].delivered = outbox[j].delivered
             /\ outbox'[j].fresh = outbox[j].fresh
             /\ outbox'[j].noted = outbox[j].noted /\ outbox'[j].state = outbox[j].state
  <2>1. PICK r \in Row : r = outbox[j]
    BY <1>1
  <2>2. outbox'[j] = [r EXCEPT !.due = Less(@)]
    BY <1>3, <2>1
  <2> QED BY <1>2, <2>1, <2>2
<1>5. outbox' \in Seq(Row) /\ Len(outbox') = Len(outbox)
  <2>1. outbox' \in [DOMAIN outbox -> Row]
    BY <1>4 DEF Tick
  <2>2. \A f \in [DOMAIN outbox -> Row] : f \in Seq(Row) /\ Len(f) = Len(outbox)
    BY RowsUpdate DEF OInv
  <2> QED BY <2>1, <2>2
<1>6. OtherTypes' /\ UNCHANGED <<bot, sessions, bound, configured, worker>>
  <2>1. MaxWait \in Nat /\ \A n \in 0..MaxWait : Less(n) \in 0..MaxWait
    BY WaitBounds, LessType
  <2> QED BY <2>1 DEF Tick, process, OInv, TypeOK, OtherTypes
<1>7. TypeOK'
  BY <1>1, <1>5, <1>6, TypeSplit, TypeStep DEF OInv
<1>8. SameRows /\ \A j \in DOMAIN outbox : Sensible(j)
  BY <1>3, <1>4 DEF SameRows, Sensible, OInv, RowOK
<1>9. \A v \in Workers : Untouched(v)
  BY <1>4, <1>6, HeldFacts DEF Untouched, Held
<1>10. sessions = {} => /\ owed' = [b \in Bots |-> 0]
                        /\ \A j \in DOMAIN outbox : /\ outbox'[j].state = "PENDING"
                                                    /\ outbox'[j].delivered = 0
  BY <1>4 DEF OInv, BotsOK, Tick, Less
<1> QED BY <1>3, <1>6, <1>7, <1>8, <1>9, <1>10, RowsStep DEF StaysBound

(* The bot whose rows BindBot takes the rows without an owner to be. *)
OldBot(b) == IF bot = NoBot THEN b ELSE bot

(* BindBot writes no row but to give it its first owner. *)
LEMMA BindEffect ==
  ASSUME OInv, NEW b \in Bots, BindBot(b)
  PROVE  /\ OldBot(b) \in Bots /\ \A v \in Workers : worker[v] = Idle /\ Done(v)
         /\ bot' = b /\ sessions' = sessions \cup {OldBot(b), b} /\ bound' /\ configured' = b
         /\ OldBot(b) \in sessions => UNCHANGED outbox
         /\ OldBot(b) \notin sessions => sessions = {}
         /\ outbox' \in Seq(Row) /\ DOMAIN outbox' = DOMAIN outbox /\ Len(outbox') = Len(outbox)
         /\ \A j \in DOMAIN outbox :
              /\ outbox'[j].chat = outbox[j].chat /\ outbox'[j].kind = outbox[j].kind
              /\ outbox'[j].card = outbox[j].card /\ outbox'[j].state = outbox[j].state
              /\ outbox'[j].delivered = outbox[j].delivered
              /\ outbox'[j].fresh = outbox[j].fresh /\ outbox'[j].noted = outbox[j].noted
              /\ outbox'[j].retries = outbox[j].retries
              /\ outbox'[j].owner = IF outbox[j].owner = NoBot THEN OldBot(b)
                                    ELSE outbox[j].owner
<1> DEFINE old == OldBot(b)
<1>1. /\ outbox \in [DOMAIN outbox -> Row] /\ DOMAIN outbox = 1..Len(outbox)
      /\ Len(outbox) \in Nat
  BY RowsAreRows DEF OInv
<1>2. old \in Bots
  BY DEF OInv, TypeOK, OldBot
<1>3. /\ bot' = b /\ sessions' = sessions \cup {old, b} /\ bound' /\ configured' = b /\ ~bound
      /\ UNCHANGED worker
      /\ outbox' = IF old \in sessions THEN outbox
                   ELSE [j \in DOMAIN outbox |->
                           IF outbox[j].owner = NoBot THEN [outbox[j] EXCEPT !.owner = old]
                           ELSE outbox[j]]
  BY DEF BindBot, OldBot
<1>4. ASSUME NEW v \in Workers PROVE worker[v] = Idle /\ Done(v)
  <2>1. worker[v].phase = "idle"
    BY <1>3 DEF OInv, WorkerOK, Holding
  <2> QED BY <2>1, <1>3 DEF OInv, WorkerOK, Done
<1>5. old \notin sessions => sessions = {}
  <2>1. sessions # {} => bot \in sessions /\ bot \in Bots
    BY DEF OInv, BotsOK, TypeOK
  <2> QED BY <2>1, OutboxAssumption DEF OldBot
<1>6. sessions # {} => \A j \in DOMAIN outbox : outbox[j].owner # NoBot
  BY OutboxAssumption DEF OInv, BotsOK
<1> HIDE DEF old
<1>7. ASSUME NEW r \in Row
      PROVE  LET s == [r EXCEPT !.owner = old]
             IN /\ s \in Row
                /\ s.chat = r.chat /\ s.kind = r.kind /\ s.card = r.card /\ s.state = r.state
                /\ s.delivered = r.delivered /\ s.fresh = r.fresh
                /\ s.noted = r.noted /\ s.retries = r.retries /\ s.owner = old
  BY <1>2 DEF Row
<1>8. DOMAIN outbox' = DOMAIN outbox
  BY <1>3
<1>9. ASSUME NEW j \in DOMAIN outbox
      PROVE  /\ outbox'[j].chat = outbox[j].chat /\ outbox'[j].kind = outbox[j].kind
             /\ outbox'[j].card = outbox[j].card /\ outbox'[j].state = outbox[j].state
             /\ outbox'[j].delivered = outbox[j].delivered
             /\ outbox'[j].fresh = outbox[j].fresh /\ outbox'[j].noted = outbox[j].noted
             /\ outbox'[j].retries = outbox[j].retries
             /\ outbox'[j].owner = IF outbox[j].owner = NoBot THEN old ELSE outbox[j].owner
             /\ outbox'[j] \in Row
  <2>1. PICK r \in Row : r = outbox[j]
    BY <1>1
  <2>2. CASE old \in sessions
    BY <2>1, <2>2, <1>3, <1>6
  <2>3. CASE old \notin sessions /\ r.owner = NoBot
    <3>1. outbox'[j] = [r EXCEPT !.owner = old]
      BY <1>3, <2>1, <2>3
    <3> QED BY <3>1, <2>1, <2>3, <1>7
  <2>4. CASE old \notin sessions /\ r.owner # NoBot
    <3>1. outbox'[j] = r
      BY <1>3, <2>1, <2>4
    <3> QED BY <3>1, <2>1, <2>4
  <2> QED BY <2>2, <2>3, <2>4
<1>10. outbox' \in Seq(Row) /\ Len(outbox') = Len(outbox)
  <2>1. outbox' \in [DOMAIN outbox -> Row]
    <3>1. outbox' = [j \in DOMAIN outbox |-> outbox'[j]]
      BY <1>1, <1>3
    <3> QED BY <3>1, <1>9
  <2>2. \A f \in [DOMAIN outbox -> Row] : f \in Seq(Row) /\ Len(f) = Len(outbox)
    BY RowsUpdate DEF OInv
  <2> QED BY <2>1, <2>2
<1> QED BY <1>2, <1>3, <1>4, <1>5, <1>8, <1>9, <1>10 DEF old

LEMMA BindBotInv == ASSUME OInv, NEW b \in Bots, BindBot(b) PROVE OInv'
<1> DEFINE old == OldBot(b)
<1>1. /\ old \in Bots /\ \A v \in Workers : worker[v] = Idle /\ Done(v)
      /\ bot' = b /\ sessions' = sessions \cup {old, b} /\ bound' /\ configured' = b
      /\ old \in sessions => UNCHANGED outbox
      /\ old \notin sessions => sessions = {}
      /\ outbox' \in Seq(Row) /\ DOMAIN outbox' = DOMAIN outbox /\ Len(outbox') = Len(outbox)
  BY BindEffect
<1>2. \A j \in DOMAIN outbox :
        /\ outbox'[j].chat = outbox[j].chat /\ outbox'[j].kind = outbox[j].kind
        /\ outbox'[j].card = outbox[j].card /\ outbox'[j].state = outbox[j].state
        /\ outbox'[j].delivered = outbox[j].delivered
        /\ outbox'[j].fresh = outbox[j].fresh /\ outbox'[j].noted = outbox[j].noted
        /\ outbox'[j].owner = IF outbox[j].owner = NoBot THEN old ELSE outbox[j].owner
  BY BindEffect
<1> HIDE DEF old
<1>3. OtherTypes'
  <2>1. /\ cards' \subseteq Cards /\ botCards' \in [Bots -> SUBSET Cards]
        /\ pause' \in 0..MaxWait
    <3>1. /\ cards \in SUBSET Cards /\ botCards \in [Bots -> SUBSET Cards]
          /\ pause \in 0..MaxWait /\ botPause \in [Bots -> 0..MaxWait]
      BY DEF OInv, TypeOK
    <3>2. \/ UNCHANGED <<cards, botCards, pause>>
          \/ /\ botCards' = [botCards EXCEPT ![old] = cards]
             /\ cards' = botCards[b] /\ pause' = botPause[b]
      BY DEF BindBot, old, OldBot
    <3>3. CASE UNCHANGED <<cards, botCards, pause>>
      BY <3>1, <3>3
    <3>4. CASE /\ botCards' = [botCards EXCEPT ![old] = cards]
               /\ cards' = botCards[b] /\ pause' = botPause[b]
      <4>1. botCards[b] \in SUBSET Cards /\ botPause[b] \in 0..MaxWait
        BY <3>1
      <4> QED BY <3>1, <3>4, <4>1
    <3> QED BY <3>2, <3>3, <3>4
  <2> QED BY <2>1, <1>1 DEF BindBot, OInv, TypeOK, OtherTypes, waits
<1>4. worker' \in [Workers -> WorkerType]
  BY TypeSplit DEF BindBot, OInv
<1>5. TypeOK'
  BY <1>1, <1>3, <1>4, RowsAreRows, TypeStep DEF OInv
<1>6. \A v \in Workers : WorkerOK(v)'
  BY <1>1, IdleType DEF Done, WorkerOK, OInv
<1>7. \A j \in DOMAIN outbox' : RowOK(j)'
  BY <1>1, <1>2 DEF OInv, RowOK
<1>8. BotsOK'
  <2>1. \A j \in DOMAIN outbox : outbox'[j].owner \in Bots
    <3>1. CASE sessions # {}
      BY <3>1, <1>1, <1>2 DEF OInv, BotsOK
    <3>2. CASE sessions = {}
      BY <3>2, <1>1, <1>2 DEF OInv, BotsOK, TypeOK
    <3> QED BY <3>1, <3>2
  <2> QED BY <2>1, <1>1 DEF BotsOK
<1> QED BY <1>5, <1>6, <1>7, <1>8 DEF OInv

LEMMA InitOInv == Init => OInv
<1> SUFFICES ASSUME Init PROVE OInv
  OBVIOUS
<1>1. OldRows \in [1..Len(OldRows) -> [chat : Chats, kind : MessageKinds \cup GroupKinds,
                                       card : Cards \cup {NoCard}]]
      /\ Len(OldRows) \in Nat /\ DOMAIN OldRows = 1..Len(OldRows)
  BY OldRowsAssumption, LenProperties
<1>2. ASSUME NEW n \in DOMAIN OldRows
      PROVE  /\ OldRows[n].chat \in Chats /\ OldRows[n].kind \in MessageKinds \cup GroupKinds
             /\ OldRows[n].card \in Cards \cup {NoCard}
  BY <1>1
<1>3. DOMAIN outbox = 1..Len(OldRows)
      /\ \A n \in DOMAIN OldRows :
           outbox[n] = NewRow(OldRows[n].chat, OldRows[n].kind, OldRows[n].card, NoBot)
  BY <1>1 DEF Init
<1>4. \A n \in DOMAIN OldRows : outbox[n] \in Row
  BY <1>2, <1>3, NewRowType
<1>5. outbox \in Seq(Row)
  <2>1. outbox \in [1..Len(OldRows) -> Row]
    BY <1>1, <1>4 DEF Init
  <2> QED BY <2>1, <1>1
<1>6. Len(outbox) = Len(OldRows)
  BY <1>1, <1>3, <1>5
<1>7. OtherTypes
  <2>1. 0 \in 0..MaxWait /\ 0 \in 0..MaxFaults /\ 0 \in 0..MaxRestarts
    BY WaitBounds, OutboxAssumption
  <2>2. bot \in Bots \cup {NoBot} /\ configured \in Bots
    BY OutboxAssumption DEF Init
  <2> QED BY <2>1, <2>2 DEF Init, OtherTypes
<1>8. worker \in [Workers -> WorkerType]
  BY <1>1, <1>6, WaitBounds DEF Init, WorkerType, Idle, Phases, Answers
<1>9. TypeOK
  BY <1>5, <1>7, <1>8, TypeSplit
<1>10. ASSUME NEW v \in Workers PROVE WorkerOK(v)
  <2>1. worker[v] = Idle
    BY DEF Init
  <2> QED BY <2>1, <1>9, IdleType DEF WorkerOK
<1>11. \A n \in DOMAIN outbox :
         /\ outbox[n].state = "PENDING" /\ outbox[n].delivered = 0 /\ outbox[n].fresh = FALSE
         /\ outbox[n].noted = FALSE /\ outbox[n].owner = NoBot
         /\ outbox[n].chat = OldRows[n].chat /\ outbox[n].kind = OldRows[n].kind
         /\ outbox[n].card = OldRows[n].card
  BY <1>1, <1>3 DEF NewRow
<1>12. \A n \in DOMAIN outbox : RowOK(n)
  BY <1>1, <1>3, <1>11, OldRowsAssumption DEF RowOK
<1>13. BotsOK
  BY <1>11 DEF Init, BotsOK
<1> QED BY <1>9, <1>10, <1>12, <1>13 DEF OInv

LEMMA StutterInv == ASSUME OInv, UNCHANGED vars PROVE OInv'
<1>1. /\ UNCHANGED <<outbox, bot, sessions, owed, worker, bound, configured>>
  BY DEF vars, tables, process, waits
<1>2. TypeOK'
  BY DEF vars, tables, process, waits, OInv, TypeOK, WorkerType
<1>3. SameRows /\ \A j \in DOMAIN outbox : Sensible(j)
  BY <1>1 DEF SameRows, Sensible, OInv, RowOK
<1>4. \A v \in Workers : Untouched(v)
  BY <1>1 DEF Untouched, Held
<1>5. sessions = {} => \A j \in DOMAIN outbox : /\ outbox'[j].state = "PENDING"
                                                /\ outbox'[j].delivered = 0
  BY <1>1 DEF OInv, BotsOK
<1> QED BY <1>1, <1>2, <1>3, <1>4, <1>5, RowsStep DEF StaysBound

LEMMA NextOInv == ASSUME OInv, [Next]_vars PROVE OInv'
<1>1. CASE UNCHANGED vars
  BY <1>1, StutterInv
<1>2. ASSUME NEW chat \in Chats, NEW kind \in Kinds, NEW card \in Cards \cup {NoCard},
             Enqueue(chat, kind, card)
      PROVE  OInv'
  BY <1>2, EnqueueInv
<1>3. ASSUME NEW w \in Workers, Work(w) PROVE OInv'
  BY <1>3, ClaimInv, GiveUpInv, PaceInv, DeferInv, RecheckInv, TransmitInv, RateLimitInv,
     CompleteSentInv, CompleteUnsentInv, CompleteFailedInv, CompletePhotoInv, FallbackInv
     DEF Work, Send, Record
<1>4. ASSUME NEW w \in Workers, LocalFailure(w) PROVE OInv'
  BY <1>4, LocalFailureInv
<1>5. CASE Operator
  BY <1>5, RetryInv, AckInv, SkipInv DEF Operator
<1>6. ASSUME NEW b \in Bots, Restart(b) \/ BindBot(b) PROVE OInv'
  BY <1>6, RestartInv, BindBotInv
<1>7. CASE Disconnect \/ Tick
  BY <1>7, DisconnectInv, TickInv
<1> QED BY <1>1, <1>2, <1>3, <1>4, <1>5, <1>6, <1>7 DEF Next

(* OInv is an inductive invariant of the outbox. *)
THEOREM OutboxInvariant == Spec => []OInv
<1> QED BY InitOInv, NextOInv, PTL DEF Spec

(* Whatever the number of workers, chats, bots and messages, a row a worker *)
(* holds is INFLIGHT, of the bot in use and held by nobody else: no answer  *)
(* of Telegram is recorded on a row that has moved on (outbox.go's updates  *)
(* that end in "WHERE state='INFLIGHT'"), over restarts, lost connections   *)
(* and switches of bots.                                                    *)
THEOREM RowsAreHeldAlone == Spec => []HeldAlone
<1>1. ASSUME OInv PROVE HeldAlone
  <2>1. ASSUME NEW w \in Workers, worker[w] # Idle
        PROVE  /\ Held(w).state = "INFLIGHT" /\ Active(worker[w].row)
               /\ \A v \in Workers \ {w} : worker[v].row # worker[w].row
    BY <1>1, <2>1 DEF OInv, WorkerOK, Holding
  <2> QED BY <1>1, <2>1 DEF HeldAlone, OInv
<1> QED BY <1>1, OutboxInvariant, PTL

-----------------------------------------------------------------------------
(* Pauses *)

LEMMA PauseTypes ==
  ASSUME OInv
  PROVE  /\ pause \in Nat /\ memPause \in Nat /\ botPause \in [Bots -> Nat]
         /\ owed \in [Bots -> Nat] /\ lost \in [Bots -> Nat]
         /\ \A w \in Workers : /\ worker[w].wait \in Nat /\ worker[w].wait + 1 \in Nat
                               /\ worker[w].phase # "answered" => worker[w].wait = 0
                               /\ worker[w].answer # "limited" => worker[w].wait = 0
<1>1. /\ pause \in Nat /\ memPause \in Nat /\ botPause \in [Bots -> Nat]
      /\ owed \in [Bots -> Nat] /\ lost \in [Bots -> Nat]
  BY WaitBounds DEF OInv, TypeOK
<1>2. ASSUME NEW w \in Workers
      PROVE  /\ worker[w].wait \in Nat /\ worker[w].wait + 1 \in Nat
             /\ worker[w].phase # "answered" => worker[w].wait = 0
             /\ worker[w].answer # "limited" => worker[w].wait = 0
  BY WaitBounds DEF OInv, WorkerOK
<1> QED BY <1>1, <1>2

(* The worker of a step, and the others. *)
LEMMA OneWorker ==
  ASSUME OInv, NEW w \in Workers, NEW r, worker' = [worker EXCEPT ![w] = r]
  PROVE  worker'[w] = r /\ \A v \in Workers \ {w} : worker'[v] = worker[v]
BY DEF OInv, TypeOK

(* Steps that leave the pauses alone, *)
LEMMA CoverStays ==
  ASSUME OInv, CoverInv, UNCHANGED <<bot, bound, pause, botPause, memPause, owed, lost>>,
         unsaved => unsaved', unsaved' => bound,
         \A v \in Workers : worker'[v].wait = worker[v].wait \/ worker[v].wait = 0 \/ unsaved'
  PROVE  CoverInv'
<1>1. /\ owed \in [Bots -> Nat] /\ lost \in [Bots -> Nat]
      /\ \A v \in Workers : worker[v].wait \in Nat
  BY PauseTypes
<1>2. ASSUME NEW b \in Bots PROVE owed'[b] <= lost'[b] \/ Kept(b)' \/ Unwritten(b)'
  <2>1. CASE owed[b] <= lost[b]
    BY <2>1
  <2>2. CASE Kept(b)
    BY <2>2 DEF Kept
  <2>3. CASE Unwritten(b) /\ unsaved'
    BY <2>3 DEF Unwritten
  <2>4. CASE Unwritten(b) /\ ~unsaved'
    <3>1. PICK v \in Workers : owed[b] <= worker[v].wait
      BY <2>4 DEF Unwritten
    <3>2. CASE worker[v].wait = 0
      BY <1>1, <3>1, <3>2
    <3>3. CASE worker'[v].wait = worker[v].wait
      BY <2>4, <3>1, <3>3 DEF Unwritten
    <3> QED BY <2>4, <3>2, <3>3
  <2> QED BY <2>1, <2>2, <2>3, <2>4 DEF CoverInv
<1> QED BY <1>2 DEF CoverInv

(* and steps that let no worker nearer to its call. *)
LEMMA GateStays ==
  ASSUME GateInv, UNCHANGED <<bot, memPause, owed, lost>>, pause' = pause,
         \A v \in Workers : \/ worker'[v].phase \in {"idle", "answered"}
                            \/ GateOK(v)'
                            \/ worker'[v].phase = worker[v].phase /\ (v \in ahead => v \in ahead')
  PROVE  GateInv'
BY DEF GateInv, GateOK

(* A worker that is done leaves its row to others; nothing else changes. *)
LEMMA DonePause ==
  ASSUME OInv, PauseInv, NEW w \in Workers, worker[w].answer # "limited",
         worker' = [worker EXCEPT ![w] = Idle], UNCHANGED <<pause, botPause, bot>>,
         UNCHANGED <<process, memPause, waits>>
  PROVE  PauseInv'
<1>1. worker'[w] = Idle /\ \A v \in Workers \ {w} : worker'[v] = worker[v]
  BY OneWorker
<1>2. worker[w].wait = 0
  BY PauseTypes
<1>3. UNCHANGED <<bot, bound, pause, botPause, memPause, owed, lost, unsaved, ahead>>
  BY DEF process, waits
<1>4. CoverInv'
  <2>1. unsaved' => bound
    BY <1>3 DEF PauseInv, CoverInv
  <2> QED BY <1>1, <1>2, <1>3, <2>1, CoverStays DEF PauseInv
<1>5. GateInv'
  <2>1. worker'[w].phase = "idle"
    BY <1>1 DEF Idle
  <2>2. ASSUME NEW v \in Workers
        PROVE  \/ worker'[v].phase \in {"idle", "answered"}
               \/ worker'[v].phase = worker[v].phase /\ (v \in ahead => v \in ahead')
    BY <1>1, <1>3, <2>1
  <2> QED BY <1>3, <2>2, GateStays DEF PauseInv
<1> QED BY <1>4, <1>5 DEF PauseInv

(* While a claim is possible, a wait is the scheduler's alone. *)
LEMMA ClaimPause == ASSUME OInv, PauseInv, NEW w \in Workers, Claim(w) PROVE PauseInv'
<1> DEFINE r == [Idle EXCEPT !.phase = "claimed", !.row = NextRow,
                             !.edit = outbox[NextRow].card \in cards]
<1>1. worker' = [worker EXCEPT ![w] = r] /\ worker[w] = Idle /\ bound /\ pause = 0
  BY DEF Claim
<1>2. r.phase = "claimed" /\ r.wait = 0 /\ Idle.wait = 0
  BY DEF Idle
<1> HIDE DEF r
<1>3. worker'[w] = r /\ \A v \in Workers \ {w} : worker'[v] = worker[v]
  BY <1>1, OneWorker
<1>4. UNCHANGED <<bot, bound, pause, botPause, memPause, owed, lost, unsaved, ahead>>
  BY DEF Claim, tables, process, waits
<1>5. CoverInv'
  BY <1>1, <1>2, <1>3, <1>4, CoverStays DEF PauseInv, CoverInv
<1>6. bot \in Bots
  BY <1>1, OutboxAssumption DEF OInv, BotsOK, TypeOK
<1>7. owed[bot] <= lost[bot] \/ owed[bot] <= memPause
  BY <1>1, <1>6, PauseTypes DEF PauseInv, CoverInv, Kept, Unwritten
<1>8. GateOK(w)'
  BY <1>2, <1>3, <1>4, <1>6, <1>7, PauseTypes DEF GateOK
<1>9. ASSUME NEW v \in Workers
      PROVE  \/ GateOK(v)'
             \/ worker'[v].phase = worker[v].phase /\ (v \in ahead => v \in ahead')
  BY <1>3, <1>4, <1>8
<1> QED BY <1>4, <1>5, <1>9, GateStays DEF PauseInv

(* No wait lets a worker through that it has not found ahead of it. *)
LEMMA PhasePause ==
  ASSUME OInv, PauseInv, NEW w \in Workers, Pace(w) \/ Recheck(w) PROVE PauseInv'
<1>1. PICK to \in {"paced", "ready"} :
        /\ worker' = [worker EXCEPT ![w].phase = to]
        /\ to = "paced" => worker[w].phase = "claimed" /\ memPause = 0
        /\ to = "ready" => worker[w].phase = "paced" /\ pause = 0
  BY DEF Pace, Recheck
<1>2. /\ worker'[w].phase = to /\ worker'[w].wait = worker[w].wait
      /\ \A v \in Workers \ {w} : worker'[v] = worker[v]
  BY <1>1, WorkersAreWorkers DEF OInv, WorkerType
<1>3. UNCHANGED <<bot, bound, pause, botPause, memPause, owed, lost, unsaved, ahead>>
  BY DEF Pace, Recheck, tables, process, waits
<1>4. CoverInv'
  <2>1. unsaved' => bound
    BY <1>3 DEF PauseInv, CoverInv
  <2> QED BY <1>2, <1>3, <2>1, CoverStays DEF PauseInv
<1>5. bot \in Bots
  BY HeldFacts DEF Pace, Recheck
<1>6. owed[bot] \in Nat /\ lost[bot] \in Nat
  BY <1>5, PauseTypes
<1>7. GateOK(w)
  BY DEF PauseInv, GateInv
<1>8. GateOK(w)'
  BY <1>1, <1>2, <1>3, <1>6, <1>7 DEF GateOK
<1>9. ASSUME NEW v \in Workers
      PROVE  \/ GateOK(v)'
             \/ worker'[v].phase = worker[v].phase /\ (v \in ahead => v \in ahead')
  BY <1>2, <1>3, <1>8
<1> QED BY <1>3, <1>4, <1>9, GateStays DEF PauseInv

(* A limit holds back every worker that has not passed the scheduler. *)
LEMMA TransmitPause == ASSUME OInv, PauseInv, NEW w \in Workers, Transmit(w) PROVE PauseInv'
<1>1. PICK answer \in Answers \ {"none"}, wait \in Waits \cup {0} :
        /\ worker' = [worker EXCEPT ![w] = [worker[w] EXCEPT !.phase = "answered",
                                              !.answer = answer, !.wait = wait]]
        /\ Gate(w, wait)
  BY TransmitEffect
<1>2. /\ worker'[w].phase = "answered" /\ worker'[w].wait = wait
      /\ \A v \in Workers \ {w} : worker'[v] = worker[v]
  BY <1>1, WorkersAreWorkers DEF OInv, WorkerType
<1>3. /\ UNCHANGED <<bot, bound, pause, botPause, lost, unsaved>>
      /\ worker[w].phase = "ready"
  BY <1>1 DEF Transmit, Gate, tables, process
<1>4. bot \in Bots /\ bound
  BY <1>3, HeldFacts
<1>5. /\ wait \in Nat /\ pause \in Nat /\ memPause \in Nat /\ botPause \in [Bots -> Nat]
      /\ owed \in [Bots -> Nat] /\ lost \in [Bots -> Nat] /\ owed[bot] \in Nat /\ lost[bot] \in Nat
      /\ worker[w].wait = 0
  BY <1>3, <1>4, PauseTypes, WaitBounds
<1> DEFINE longest == Max({owed[bot], wait})
           gate == Max({memPause, wait})
<1>6. /\ longest \in Nat /\ longest >= owed[bot] /\ longest >= wait
      /\ longest = owed[bot] \/ longest = wait
  BY <1>5, MaxOfTwo
<1>7. gate \in Nat /\ gate >= memPause /\ gate >= wait
  BY <1>5, MaxInNat
<1>8. memPause' = gate /\ owed' = [owed EXCEPT ![bot] = longest]
  BY <1>1 DEF Gate
<1> HIDE DEF longest, gate
<1>9. owed'[bot] = longest /\ \A b \in Bots \ {bot} : owed'[b] = owed[b]
  BY <1>4, <1>5, <1>8
<1>10. ASSUME NEW b \in Bots PROVE owed'[b] <= lost'[b] \/ Kept(b)' \/ Unwritten(b)'
  <2>1. CASE b # bot
    BY <2>1, <1>3, <1>9 DEF PauseInv, CoverInv, Kept, Unwritten
  <2>2. CASE b = bot /\ longest = wait
    <3>1. owed'[b] = wait /\ owed'[b] <= memPause'
      BY <2>2, <1>7, <1>8, <1>9
    <3>2. owed'[b] <= worker'[w].wait
      BY <3>1, <1>2, <1>5
    <3> QED BY <2>2, <3>1, <3>2, <1>3 DEF Unwritten
  <2>3. CASE b = bot /\ longest = owed[bot]
    <3>1. CASE owed[b] <= lost[b] \/ Kept(b)
      BY <2>3, <3>1, <1>3, <1>9 DEF Kept
    <3>2. CASE Unwritten(b) /\ owed[b] > lost[b]
      <4>1. owed[b] <= gate
        BY <2>3, <3>2, <1>5, <1>7 DEF Unwritten
      <4>2. unsaved \/ \E v \in Workers \ {w} : owed[b] <= worker[v].wait
        BY <2>3, <3>2, <1>5 DEF Unwritten
      <4> QED BY <2>3, <4>1, <4>2, <1>2, <1>3, <1>8, <1>9 DEF Unwritten
    <3>3. owed[b] <= lost[b] \/ owed[b] > lost[b]
      BY <2>3, <1>5
    <3> QED BY <3>1, <3>2, <3>3 DEF PauseInv, CoverInv
  <2> QED BY <2>1, <2>2, <2>3, <1>6
<1>11. CoverInv'
  BY <1>3, <1>4, <1>10 DEF PauseInv, CoverInv
<1>12. ASSUME NEW v \in Workers PROVE GateOK(v)'
  <2>1. CASE v = w
    BY <2>1, <1>2 DEF GateOK
  <2>2. CASE v # w /\ wait # 0
    <3>1. worker[v].phase \in {"paced", "ready"} => v \in ahead'
      BY <2>2, <1>1 DEF Gate
    <3>2. worker[v].phase = "claimed" /\ owed'[bot] > lost[bot] => owed'[bot] <= memPause'
      <4>1. worker[v].phase = "claimed" /\ owed[bot] > lost[bot] => owed[bot] <= memPause
        BY DEF PauseInv, GateInv, GateOK
      <4> QED BY <4>1, <1>5, <1>6, <1>7, <1>8, <1>9
    <3> QED BY <2>2, <3>1, <3>2, <1>2, <1>3 DEF GateOK
  <2>3. CASE v # w /\ wait = 0
    <3>1. longest = owed[bot] /\ gate >= memPause
      BY <2>3, <1>5, <1>6, <1>7
    <3>2. v \in ahead => v \in ahead'
      BY <2>3, <1>1 DEF Gate
    <3>3. GateOK(v)
      BY DEF PauseInv, GateInv
    <3> QED BY <2>3, <3>1, <3>2, <3>3, <1>2, <1>3, <1>5, <1>7, <1>8, <1>9 DEF GateOK
  <2> QED BY <2>1, <2>2, <2>3
<1> QED BY <1>11, <1>12 DEF PauseInv, GateInv

LEMMA RateLimitPause == ASSUME OInv, PauseInv, NEW w \in Workers, RateLimit(w) PROVE PauseInv'
<1> DEFINE until == Max({pause, worker[w].wait + 1})
<1>1. worker[w].wait \in Nat /\ worker[w].wait + 1 \in Nat /\ pause \in Nat
  BY PauseTypes
<1>2. bot \in Bots /\ bot \in sessions /\ bound
  BY HeldFacts DEF RateLimit, Answered
<1>3. /\ owed \in [Bots -> Nat] /\ lost \in [Bots -> Nat] /\ botPause \in [Bots -> Nat]
      /\ owed[bot] \in Nat /\ lost[bot] \in Nat /\ botPause[bot] \in Nat
  BY <1>2, PauseTypes
<1>4. until \in Nat /\ until >= pause /\ until > worker[w].wait
  <2>1. until \in Nat /\ until >= pause /\ until >= worker[w].wait + 1
    BY <1>1, MaxInNat
  <2> QED BY <2>1, <1>1
<1>5. /\ pause' = until /\ botPause' = [botPause EXCEPT ![bot] = until]
      /\ worker' = [worker EXCEPT ![w] = Idle] /\ Saved(until)
  BY <1>2 DEF RateLimit, Release
<1>6. UNCHANGED <<bot, bound, memPause, owed, lost, unsaved>>
  BY <1>5 DEF RateLimit, Saved, process
<1>7. worker'[w] = Idle /\ \A v \in Workers \ {w} : worker'[v] = worker[v]
  BY <1>5, OneWorker
<1> HIDE DEF until
<1>8. botPause'[bot] = until /\ \A b \in Bots \ {bot} : botPause'[b] = botPause[b]
  BY <1>2, <1>3, <1>5
<1>9. ASSUME NEW b \in Bots PROVE owed'[b] <= lost'[b] \/ Kept(b)' \/ Unwritten(b)'
  <2>1. CASE b # bot
    BY <2>1, <1>6, <1>8 DEF PauseInv, CoverInv, Kept, Unwritten
  <2>2. CASE b = bot /\ owed[b] <= until
    BY <2>2, <1>5, <1>6, <1>8 DEF Kept
  <2>3. CASE b = bot /\ owed[b] > until
    <3>1. ~(owed[b] <= worker[w].wait) /\ ~(owed[b] <= pause)
      BY <2>3, <1>1, <1>3, <1>4
    <3>2. CASE owed[b] <= lost[b]
      BY <3>2, <1>6
    <3>3. CASE Unwritten(b)
      <4>1. unsaved \/ \E v \in Workers \ {w} : owed[b] <= worker[v].wait
        BY <3>1, <3>3 DEF Unwritten
      <4> QED BY <3>3, <4>1, <1>6, <1>7 DEF Unwritten
    <3> QED BY <2>3, <3>1, <3>2, <3>3 DEF PauseInv, CoverInv, Kept
  <2>4. CASE b = bot
    BY <2>2, <2>3, <2>4, <1>3, <1>4
  <2> QED BY <2>1, <2>4
<1>10. CoverInv'
  <2>1. pause' <= botPause'[bot] /\ bot' # NoBot
    BY <1>2, <1>4, <1>5, <1>6, <1>8, OutboxAssumption
  <2> QED BY <1>2, <1>6, <1>9, <2>1 DEF CoverInv
<1>11. ASSUME NEW v \in Workers PROVE GateOK(v)'
  <2>1. CASE v = w
    BY <2>1, <1>7 DEF GateOK, Idle
  <2>2. CASE v # w /\ until < owed[bot]
    <3>1. ahead' = ahead
      BY <2>2, <1>5 DEF Saved
    <3>2. GateOK(v)
      BY DEF PauseInv, GateInv
    <3> QED BY <2>2, <3>1, <3>2, <1>1, <1>3, <1>4, <1>5, <1>6, <1>7 DEF GateOK
  <2>3. CASE v # w /\ ~(until < owed[bot])
    <3>1. ahead' = { u \in ahead : worker[u].phase = "ready" } /\ owed[bot] <= until
      BY <2>3, <1>3, <1>4, <1>5 DEF Saved
    <3>2. GateOK(v)
      BY DEF PauseInv, GateInv
    <3> QED BY <2>3, <3>1, <3>2, <1>5, <1>6, <1>7 DEF GateOK
  <2> QED BY <2>1, <2>2, <2>3
<1> QED BY <1>10, <1>11 DEF PauseInv, GateInv

LEMMA FailurePause == ASSUME OInv, PauseInv, NEW w \in Workers, LocalFailure(w) PROVE PauseInv'
<1>1. worker'[w] = Idle /\ \A v \in Workers \ {w} : worker'[v] = worker[v]
  BY OneWorker DEF LocalFailure
<1>2. /\ UNCHANGED <<bot, bound, pause, botPause, memPause, owed, lost>>
      /\ worker[w].phase # "idle" /\ ahead' = ahead \ {w}
      /\ unsaved' = (unsaved \/ worker[w].answer = "limited")
  BY DEF LocalFailure, tables, process
<1>3. bound
  BY <1>2, HeldFacts
<1>4. worker[w].wait = 0 \/ unsaved'
  BY <1>2, PauseTypes
<1>5. CoverInv'
  <2>1. \A v \in Workers : worker'[v].wait = worker[v].wait \/ worker[v].wait = 0 \/ unsaved'
    BY <1>1, <1>4
  <2> QED BY <1>2, <1>3, <2>1, CoverStays DEF PauseInv
<1>6. ASSUME NEW v \in Workers
      PROVE  \/ worker'[v].phase \in {"idle", "answered"}
             \/ worker'[v].phase = worker[v].phase /\ (v \in ahead => v \in ahead')
  <2>1. CASE v = w
    BY <2>1, <1>1 DEF Idle
  <2>2. CASE v # w
    BY <2>2, <1>1, <1>2
  <2> QED BY <2>1, <2>2
<1> QED BY <1>2, <1>5, <1>6, GateStays DEF PauseInv

(* The end of a Run takes with it what nobody has written down. *)
LEMMA ForgetPause ==
  ASSUME OInv, PauseInv, Forget, ~bound', \A v \in Workers : worker'[v] = Idle,
         UNCHANGED <<bot, pause, botPause>>
  PROVE  PauseInv'
<1>1. /\ pause \in Nat /\ owed \in [Bots -> Nat] /\ lost \in [Bots -> Nat]
      /\ botPause \in [Bots -> Nat]
  BY PauseTypes
<1>2. /\ memPause' = 0 /\ ~unsaved' /\ UNCHANGED owed
      /\ \A b \in Bots : lost'[b] = IF /\ b = bot /\ owed[b] > Max({pause, lost[b]})
                                       /\ unsaved \/ \E w \in Workers : worker[w].answer = "limited"
                                    THEN owed[b] ELSE lost[b]
  BY DEF Forget
<1>3. ASSUME NEW b \in Bots PROVE owed'[b] <= lost'[b] \/ Kept(b)' \/ Unwritten(b)'
  <2>1. owed[b] \in Nat /\ lost[b] \in Nat /\ lost'[b] \in {owed[b], lost[b]}
    BY <1>1, <1>2
  <2>2. CASE owed[b] <= lost[b]
    BY <2>1, <2>2, <1>2
  <2>3. CASE Kept(b)
    BY <2>3, <1>2 DEF Kept
  <2>4. CASE Unwritten(b) /\ ~(owed[b] <= lost[b]) /\ ~Kept(b)
    <3>1. b = bot /\ ~(owed[b] <= pause)
      BY <2>4 DEF Unwritten, Kept
    <3>2. unsaved \/ \E w \in Workers : worker[w].answer = "limited"
      <4>1. \A w \in Workers : owed[b] <= worker[w].wait => worker[w].answer = "limited"
        BY <2>1, <2>4, PauseTypes
      <4> QED BY <2>4, <4>1 DEF Unwritten
    <3> DEFINE m == Max({pause, lost[b]})
    <3>3. m \in Nat /\ m \in {pause, lost[b]}
      BY <1>1, <2>1, MaxOfTwo
    <3>4. owed[b] > m
      BY <3>1, <3>3, <2>1, <2>4, <1>1
    <3>5. lost'[b] = IF /\ b = bot /\ owed[b] > m
                        /\ unsaved \/ \E w \in Workers : worker[w].answer = "limited"
                     THEN owed[b] ELSE lost[b]
      BY <1>2
    <3> HIDE DEF m
    <3>6. lost'[b] = owed[b]
      BY <3>1, <3>2, <3>4, <3>5
    <3> QED BY <3>6, <2>1, <1>2
  <2> QED BY <2>2, <2>3, <2>4 DEF PauseInv, CoverInv
<1>4. CoverInv'
  BY <1>2, <1>3 DEF PauseInv, CoverInv
<1>5. GateInv'
  BY DEF GateInv, GateOK, Idle
<1> QED BY <1>4, <1>5 DEF PauseInv

LEMMA BindPause == ASSUME OInv, PauseInv, NEW b \in Bots, BindBot(b) PROVE PauseInv'
<1>1. /\ UNCHANGED <<owed, lost, unsaved, memPause, botPause>> /\ bot' = b /\ ~bound
      /\ \A v \in Workers : worker'[v] = Idle
  BY BindEffect DEF BindBot, waits, Done
<1>2. /\ pause \in Nat /\ owed \in [Bots -> Nat] /\ lost \in [Bots -> Nat]
      /\ botPause \in [Bots -> Nat]
  BY PauseTypes
<1>3. pause' = IF OldBot(b) = b THEN pause ELSE botPause[b]
  BY DEF BindBot, OldBot
<1>4. GateInv'
  BY <1>1 DEF GateInv, GateOK, Idle
<1>5. memPause' = 0 /\ ~unsaved' /\ memPause = 0
  BY <1>1 DEF PauseInv, CoverInv
<1>6. \A x \in Bots : owed[x] <= lost[x] \/ Kept(x)
  BY <1>2, <1>5 DEF PauseInv, CoverInv, Unwritten
<1>7. pause' <= botPause'[b]
  <2>1. CASE bot = NoBot
    BY <2>1, <1>1, <1>2, <1>3 DEF PauseInv, CoverInv, OldBot
  <2>2. CASE bot # NoBot
    BY <2>2, <1>1, <1>2, <1>3 DEF PauseInv, CoverInv, OldBot
  <2> QED BY <2>1, <2>2
<1>8. ASSUME NEW x \in Bots PROVE owed'[x] <= lost'[x] \/ Kept(x)'
  <2>1. CASE owed[x] <= lost[x]
    BY <2>1, <1>1
  <2>2. CASE Kept(x) /\ sessions = {}
    <3>1. owed[x] = 0
      BY <2>2 DEF OInv, BotsOK
    <3> QED BY <3>1, <1>1, <1>2
  <2>3. CASE Kept(x) /\ sessions # {}
    <3>1. bot \in Bots /\ OldBot(b) = bot /\ pause <= botPause[bot]
      BY <2>3, OutboxAssumption DEF OInv, BotsOK, TypeOK, PauseInv, CoverInv, OldBot
    <3>2. owed[x] \in Nat /\ botPause[x] \in Nat
      BY <1>2
    <3>3. CASE bot = b
      BY <2>3, <3>1, <3>3, <1>1, <1>3 DEF Kept
    <3>4. CASE bot # b /\ x = b
      BY <2>3, <3>1, <3>4, <1>1, <1>3 DEF Kept
    <3>5. CASE bot # b /\ x # b
      <4>1. owed[x] <= botPause[x]
        BY <2>3, <3>1, <3>2, <3>5, <1>2 DEF Kept
      <4> QED BY <4>1, <3>5, <1>1 DEF Kept
    <3> QED BY <3>3, <3>4, <3>5
  <2> QED BY <2>1, <2>2, <2>3, <1>6
<1>9. CoverInv'
  <2>1. bot' \in Bots /\ bot' # NoBot
    BY <1>1, OutboxAssumption
  <2> QED BY <1>1, <1>5, <1>7, <1>8, <2>1 DEF CoverInv
<1> QED BY <1>4, <1>9 DEF PauseInv

LEMMA TickPause == ASSUME OInv, PauseInv, Tick PROVE PauseInv'
<1>1. /\ pause \in Nat /\ memPause \in Nat /\ owed \in [Bots -> Nat] /\ lost \in [Bots -> Nat]
      /\ botPause \in [Bots -> Nat] /\ \A w \in Workers : worker[w].wait \in Nat
  BY PauseTypes
<1>2. /\ UNCHANGED <<bot, bound, worker, unsaved, ahead>>
      /\ pause' = Less(pause) /\ memPause' = Less(memPause)
      /\ \A b \in Bots : /\ botPause'[b] = Less(botPause[b]) /\ owed'[b] = Less(owed[b])
                          /\ lost'[b] = Less(lost[b])
  BY DEF Tick, process
<1>3. \A m, n \in Nat : m <= n => Less(m) <= Less(n) /\ Less(m) <= n
  BY LessType
<1>4. ASSUME NEW b \in Bots PROVE owed'[b] <= lost'[b] \/ Kept(b)' \/ Unwritten(b)'
  <2>1. owed[b] \in Nat /\ lost[b] \in Nat /\ botPause[b] \in Nat
    BY <1>1
  <2>2. CASE owed[b] <= lost[b]
    BY <2>1, <2>2, <1>2, <1>3
  <2>3. CASE Kept(b)
    BY <2>1, <2>3, <1>1, <1>2, <1>3 DEF Kept
  <2>4. CASE Unwritten(b)
    <3>1. b = bot /\ owed'[b] <= memPause'
      BY <2>1, <2>4, <1>1, <1>2, <1>3 DEF Unwritten
    <3>2. \A w \in Workers : owed[b] <= worker[w].wait => owed'[b] <= worker'[w].wait
      BY <2>1, <1>1, <1>2, <1>3
    <3> QED BY <2>4, <3>1, <3>2, <1>2 DEF Unwritten
  <2> QED BY <2>2, <2>3, <2>4 DEF PauseInv, CoverInv
<1>5. CoverInv'
  <2>1. ~bound' => memPause' = 0 /\ ~unsaved'
    BY <1>2 DEF PauseInv, CoverInv, Less
  <2>2. bot' \in Bots => pause' <= botPause'[bot']
    BY <1>1, <1>2, <1>3 DEF PauseInv, CoverInv
  <2>3. bot' = NoBot => pause' = 0
    BY <1>2 DEF PauseInv, CoverInv, Less
  <2> QED BY <1>4, <2>1, <2>2, <2>3 DEF CoverInv
<1>6. ASSUME NEW v \in Workers PROVE GateOK(v)'
  <2>1. CASE worker[v].phase = "idle"
    BY <2>1, <1>2 DEF GateOK
  <2>2. CASE worker[v].phase # "idle"
    <3>1. bot \in Bots
      BY <2>2, HeldFacts
    <3>2. owed[bot] \in Nat /\ lost[bot] \in Nat
      BY <3>1, <1>1
    <3>3. owed'[bot] > lost'[bot] => owed[bot] > lost[bot]
      BY <3>1, <3>2, <1>2 DEF Less
    <3>4. /\ owed[bot] <= memPause => owed'[bot] <= memPause'
          /\ owed[bot] <= pause => owed'[bot] <= pause'
      BY <3>1, <3>2, <1>1, <1>2, <1>3
    <3>5. GateOK(v)
      BY DEF PauseInv, GateInv
    <3> QED BY <3>3, <3>4, <3>5, <1>2 DEF GateOK
  <2> QED BY <2>1, <2>2
<1> QED BY <1>5, <1>6 DEF PauseInv, GateInv

LEMMA WorkPause == ASSUME OInv, PauseInv, NEW w \in Workers, Work(w) PROVE PauseInv'
<1>1. CASE GiveUp(w) \/ Defer(w) \/ CompleteSent(w) \/ CompleteUnsent(w) \/ CompleteFailed(w)
           \/ CompletePhoto(w) \/ Fallback(w)
  <2>1. worker' = [worker EXCEPT ![w] = Idle]
    BY <1>1 DEF GiveUp, Defer, CompleteSent, CompleteUnsent, CompleteFailed, CompletePhoto,
                Fallback, Release
  <2>2. worker[w].answer # "limited"
    <3>1. CASE worker[w].phase \in {"claimed", "paced"}
      BY <3>1 DEF OInv, WorkerOK
    <3>2. CASE worker[w].phase = "answered"
      BY <1>1, <3>2 DEF GiveUp, Defer, CompleteSent, CompleteUnsent, CompleteFailed,
                        CompletePhoto, Fallback, Answered
    <3> QED BY <1>1, <3>1, <3>2 DEF GiveUp, Defer, CompleteSent, CompleteUnsent,
                                   CompleteFailed, CompletePhoto, Fallback, Answered
  <2>3. UNCHANGED <<pause, botPause, bot, process, memPause, waits>>
    BY <1>1 DEF GiveUp, Defer, CompleteSent, CompleteUnsent, CompleteFailed, CompletePhoto,
                Fallback, tables
  <2> QED BY <2>1, <2>2, <2>3, DonePause
<1> QED BY <1>1, ClaimPause, PhasePause, TransmitPause, RateLimitPause DEF Work, Send, Record

LEMMA NextPauseInv == ASSUME OInv, PauseInv, [Next]_vars PROVE PauseInv'
<1>1. ASSUME UNCHANGED <<bot, pause, botPause, process, memPause, worker, waits>> PROVE PauseInv'
  BY <1>1 DEF PauseInv, CoverInv, GateInv, GateOK, Kept, Unwritten, process, waits
<1>2. CASE UNCHANGED vars
  BY <1>1, <1>2 DEF vars, tables
<1>3. ASSUME NEW chat \in Chats, NEW kind \in Kinds, NEW card \in Cards \cup {NoCard},
             Enqueue(chat, kind, card)
      PROVE  PauseInv'
  BY <1>1, <1>3 DEF Enqueue, tables
<1>4. ASSUME NEW w \in Workers, Work(w) \/ LocalFailure(w) PROVE PauseInv'
  BY <1>4, WorkPause, FailurePause
<1>5. CASE Operator
  BY <1>5, <1>1 DEF Operator, Retry, Ack, Skip, tables
<1>6. ASSUME NEW b \in Bots, Restart(b) PROVE PauseInv'
  BY <1>6, ForgetPause DEF Restart, tables
<1>7. ASSUME NEW b \in Bots, BindBot(b) PROVE PauseInv'
  BY <1>7, BindPause
<1>8. CASE Disconnect
  BY <1>8, ForgetPause DEF Disconnect, tables
<1> QED BY <1>2, <1>3, <1>4, <1>5, <1>6, <1>7, <1>8, TickPause DEF Next

LEMMA InitPauseInv == Init => PauseInv
<1> SUFFICES ASSUME Init PROVE PauseInv
  OBVIOUS
<1>1. CoverInv
  BY DEF Init, CoverInv
<1>2. GateInv
  BY DEF Init, GateInv, GateOK, Idle
<1> QED BY <1>1, <1>2 DEF PauseInv

(* PauseInv is an inductive invariant, on top of OInv. *)
THEOREM PauseInvariant == Spec => []PauseInv
<1> QED BY InitPauseInv, NextPauseInv, OutboxInvariant, PTL DEF Spec

(* "A restart never shortens retry_after" (delivery.go:19), nor does a lost *)
(* connection or a switch to another bot and back, for any bots, workers,   *)
(* waits and faults: from the 429 on, the wait Telegram asked of a bot is   *)
(* in the tables, or held by the scheduler of a process that has yet to     *)
(* save it or has failed to, unless that process has come to its end.       *)
THEOREM PausesAreKept == Spec => []PauseKept
<1>1. ASSUME PauseInv PROVE PauseKept
  BY <1>1 DEF PauseInv, CoverInv, Kept, Unwritten, PauseKept
<1> QED BY <1>1, PauseInvariant, PTL

(* No message is sent while the bot in use is to wait (delivery.go:54),     *)
(* from the answer on and over restarts and switches, but by workers that   *)
(* the wait found past the scheduler, and past their second look at the     *)
(* pause too once it was saved: of any number of workers.                   *)
THEOREM WaitsAreRespected == Spec => WaitRespected
<1> DEFINE Step == \A w \in Workers : /\ worker[w].phase = "ready" /\ worker'[w].phase = "answered"
                                      /\ owed[bot] > lost[bot]
                                      => w \in ahead
<1>1. ASSUME PauseInv, [Next]_vars PROVE [Step]_vars
  BY <1>1 DEF PauseInv, GateInv, GateOK
<1> QED BY <1>1, PauseInvariant, PTL DEF Spec, WaitRespected

-----------------------------------------------------------------------------
(* The outbox implements module Delivery *)

LEMMA ItemType ==
  ASSUME NEW lane \in Chats \X BOOLEAN, NEW owner \in Bots \cup {NoBot}, NEW licensed \in BOOLEAN,
         NEW done \in BOOLEAN, NEW noted \in BOOLEAN, NEW sent \in Nat, NEW renewed \in Nat
  PROVE  [lane |-> lane, owner |-> owner, licensed |-> licensed, done |-> done,
          noted |-> noted, sent |-> sent, renewed |-> renewed] \in D!Item
BY DEF D!Item

(* A row as an item. *)
ItemsMatch ==
  /\ DOMAIN Items = DOMAIN outbox /\ Items = [j \in DOMAIN Items |-> Items[j]]
  /\ \A j \in DOMAIN outbox :
       /\ Items[j] \in D!Item
       /\ Items[j].lane = <<outbox[j].chat, IsGroup(j)>>
       /\ Items[j].owner = outbox[j].owner
       /\ Items[j].licensed = Licensed(j)
       /\ Items[j].done = (outbox[j].state = "SENT")
       /\ Items[j].noted = outbox[j].noted
       /\ Items[j].sent = outbox[j].delivered
       /\ Items[j].renewed = IF IsGroup(j) THEN 0 ELSE outbox[j].retries

LEMMA ItemsAre == TypeOK => ItemsMatch
<1> SUFFICES ASSUME TypeOK PROVE ItemsMatch
  OBVIOUS
<1>1. \A j \in DOMAIN outbox : outbox[j] \in Row
  BY RowsAreRows
<1>2. \A j \in DOMAIN outbox : Licensed(j) \in BOOLEAN /\ IsGroup(j) \in BOOLEAN
  BY DEF Licensed, IsGroup
<1>3. /\ DOMAIN Items = DOMAIN outbox /\ Items = [j \in DOMAIN Items |-> Items[j]]
  BY DEF Items
<1>4. ASSUME NEW j \in DOMAIN outbox
      PROVE  Items[j] = [lane |-> <<outbox[j].chat, IsGroup(j)>>, owner |-> outbox[j].owner,
               licensed |-> Licensed(j), done |-> (outbox[j].state = "SENT"),
               noted |-> outbox[j].noted, sent |-> outbox[j].delivered,
               renewed |-> IF IsGroup(j) THEN 0 ELSE outbox[j].retries]
  BY DEF Items
<1>5. ASSUME NEW j \in DOMAIN outbox PROVE Items[j] \in D!Item
  <2>1. <<outbox[j].chat, IsGroup(j)>> \in Chats \X BOOLEAN
    BY <1>1, <1>2 DEF Row
  <2>2. /\ outbox[j].owner \in Bots \cup {NoBot} /\ outbox[j].noted \in BOOLEAN
        /\ outbox[j].delivered \in Nat /\ outbox[j].retries \in Nat
        /\ (outbox[j].state = "SENT") \in BOOLEAN
    BY <1>1 DEF Row
  <2>3. (IF IsGroup(j) THEN 0 ELSE outbox[j].retries) \in Nat
    BY <2>2
  <2> DEFINE lane == <<outbox[j].chat, IsGroup(j)>>
             licensed == Licensed(j)
             done == outbox[j].state = "SENT"
             renewed == IF IsGroup(j) THEN 0 ELSE outbox[j].retries
  <2>4. Items[j] = [lane |-> lane, owner |-> outbox[j].owner, licensed |-> licensed, done |-> done,
                    noted |-> outbox[j].noted, sent |-> outbox[j].delivered, renewed |-> renewed]
    BY <1>4
  <2>5. lane \in Chats \X BOOLEAN /\ licensed \in BOOLEAN /\ done \in BOOLEAN /\ renewed \in Nat
    BY <1>2, <2>1, <2>2, <2>3
  <2> HIDE DEF lane, licensed, done, renewed
  <2> QED BY <2>2, <2>4, <2>5, ItemType
<1> QED BY <1>3, <1>4, <1>5 DEF ItemsMatch

LEMMA ItemsWillBe == TypeOK' => ItemsMatch'
BY ItemsAre, PTL

(* A row that keeps what an item tells of it, and one of which only the     *)
(* count of transmissions may differ.                                      *)
LEMMA KeptFields ==
  ASSUME ItemsMatch, ItemsMatch', NEW j \in DOMAIN outbox, j \in DOMAIN outbox',
         outbox'[j].chat = outbox[j].chat, outbox'[j].kind = outbox[j].kind,
         outbox'[j].owner = outbox[j].owner, outbox'[j].noted = outbox[j].noted,
         outbox'[j].retries = outbox[j].retries
  PROVE  /\ Items[j] \in D!Item /\ Items'[j] \in D!Item
         /\ Items'[j].lane = Items[j].lane /\ Items'[j].owner = Items[j].owner
         /\ Items'[j].noted = Items[j].noted /\ Items'[j].renewed = Items[j].renewed
         /\ Items[j].sent = outbox[j].delivered /\ Items'[j].sent = outbox'[j].delivered
<1>1. IsGroup(j)' = IsGroup(j)
  BY DEF IsGroup
<1>2. Items'[j].lane = <<outbox'[j].chat, IsGroup(j)'>> /\ Items[j].lane = <<outbox[j].chat, IsGroup(j)>>
  BY DEF ItemsMatch
<1>3. Items'[j].renewed = Items[j].renewed
  <2>1. /\ Items'[j].renewed = IF IsGroup(j)' THEN 0 ELSE outbox'[j].retries
        /\ Items[j].renewed = IF IsGroup(j) THEN 0 ELSE outbox[j].retries
    BY DEF ItemsMatch
  <2> QED BY <1>1, <2>1
<1> QED BY <1>1, <1>2, <1>3 DEF ItemsMatch

LEMMA SameItem ==
  ASSUME NEW r \in D!Item, NEW s \in D!Item,
         r.lane = s.lane, r.owner = s.owner, r.licensed = s.licensed, r.done = s.done,
         r.noted = s.noted, r.sent = s.sent, r.renewed = s.renewed
  PROVE  r = s
BY DEF D!Item

(* What closing makes of an item. *)
Closed(r, keep, close, note) ==
  [r EXCEPT !.licensed = @ /\ keep, !.done = @ \/ close, !.noted = @ \/ note]

(* What closes items: licences lapse, rows are sent or noted, and nothing  *)
(* else of a row changes that an item tells.                               *)
LEMMA CloseStep ==
  ASSUME TypeOK, TypeOK', DOMAIN outbox' = DOMAIN outbox,
         NEW lapsed \in SUBSET DOMAIN outbox, NEW closed \in SUBSET DOMAIN outbox,
         NEW noted \in SUBSET closed,
         \A j \in closed : outbox[j].state # "SENT" /\ (outbox[j].delivered > 0 \/ j \in noted),
         \A j \in DOMAIN outbox :
           /\ outbox'[j].chat = outbox[j].chat /\ outbox'[j].kind = outbox[j].kind
           /\ outbox'[j].owner = outbox[j].owner /\ outbox'[j].delivered = outbox[j].delivered
           /\ IsGroup(j) \/ outbox'[j].retries = outbox[j].retries
           /\ (outbox'[j].state = "SENT") = (outbox[j].state = "SENT" \/ j \in closed)
           /\ outbox'[j].noted = (outbox[j].noted \/ j \in noted)
           /\ Licensed(j)' = (Licensed(j) /\ j \notin lapsed \cup closed)
  PROVE  D!Next
<1>1. ItemsMatch /\ ItemsMatch'
  BY ItemsAre, ItemsWillBe
<1>2. ASSUME NEW j \in DOMAIN outbox
      PROVE  Items'[j] = Closed(Items[j], j \notin lapsed \cup closed, j \in closed, j \in noted)
  <2> DEFINE keep == j \notin lapsed \cup closed
             close == j \in closed
             note == j \in noted
  <2>1. keep \in BOOLEAN /\ close \in BOOLEAN /\ note \in BOOLEAN
    OBVIOUS
  <2>2. Items[j] \in D!Item /\ Items'[j] \in D!Item
    BY <1>1 DEF ItemsMatch
  <2>3. /\ Items'[j].lane = Items[j].lane /\ Items'[j].owner = Items[j].owner
        /\ Items'[j].sent = Items[j].sent /\ Items'[j].renewed = Items[j].renewed
    <3>1. IsGroup(j)' = IsGroup(j)
      BY DEF IsGroup
    <3>2. Items'[j].lane = Items[j].lane
      BY <1>1, <3>1 DEF ItemsMatch
    <3>3. Items'[j].owner = Items[j].owner /\ Items'[j].sent = Items[j].sent
      BY <1>1 DEF ItemsMatch
    <3>4. Items'[j].renewed = Items[j].renewed
      BY <1>1, <3>1 DEF ItemsMatch
    <3> QED BY <3>2, <3>3, <3>4
  <2>4. /\ Items'[j].licensed = (Items[j].licensed /\ keep)
        /\ Items'[j].done = (Items[j].done \/ close)
        /\ Items'[j].noted = (Items[j].noted \/ note)
    <3>1. /\ Items'[j].licensed = Licensed(j)' /\ Items[j].licensed = Licensed(j)
          /\ Items'[j].done = (outbox'[j].state = "SENT")
          /\ Items[j].done = (outbox[j].state = "SENT")
          /\ Items'[j].noted = outbox'[j].noted /\ Items[j].noted = outbox[j].noted
      BY <1>1 DEF ItemsMatch
    <3>2. /\ (outbox'[j].state = "SENT") = (outbox[j].state = "SENT" \/ close)
          /\ outbox'[j].noted = (outbox[j].noted \/ note)
          /\ Licensed(j)' = (Licensed(j) /\ keep)
      OBVIOUS
    <3> HIDE DEF keep, close, note
    <3> QED BY <3>1, <3>2
  <2> HIDE DEF keep, close, note
  <2> DEFINE s == Closed(Items[j], keep, close, note)
  <2>5. /\ s \in D!Item /\ s.lane = Items[j].lane /\ s.owner = Items[j].owner
        /\ s.licensed = (Items[j].licensed /\ keep) /\ s.done = (Items[j].done \/ close)
        /\ s.noted = (Items[j].noted \/ note) /\ s.sent = Items[j].sent
        /\ s.renewed = Items[j].renewed
    <3>1. PICK r \in D!Item : r = Items[j]
      BY <2>2
    <3>2. PICK k \in BOOLEAN, c \in BOOLEAN, n \in BOOLEAN : k = keep /\ c = close /\ n = note
      BY <2>1
    <3>3. LET t == Closed(r, k, c, n)
          IN /\ t \in D!Item /\ t.lane = r.lane /\ t.owner = r.owner
             /\ t.licensed = (r.licensed /\ k) /\ t.done = (r.done \/ c)
             /\ t.noted = (r.noted \/ n) /\ t.sent = r.sent /\ t.renewed = r.renewed
      BY DEF D!Item, Closed
    <3>4. s = Closed(r, k, c, n)
      BY <3>1, <3>2
    <3> HIDE DEF s
    <3> QED BY <3>1, <3>2, <3>3, <3>4
  <2> HIDE DEF s
  <2>6. Items'[j] = s
    BY <2>2, <2>3, <2>4, <2>5, SameItem
  <2> QED BY <2>6 DEF s, keep, close, note
<1>3. Items' = D!CloseAll(lapsed, closed, noted)
  <2>1. D!CloseAll(lapsed, closed, noted) =
          [j \in DOMAIN Items |->
             Closed(Items[j], j \notin lapsed \cup closed, j \in closed, j \in noted)]
    BY DEF D!CloseAll, Closed
  <2>2. DOMAIN Items = DOMAIN outbox /\ DOMAIN Items' = DOMAIN outbox
        /\ Items' = [j \in DOMAIN Items' |-> Items'[j]]
    BY <1>1 DEF ItemsMatch
  <2> QED BY <1>2, <2>1, <2>2
<1>4. \A j \in closed : ~Items[j].done /\ (Items[j].sent > 0 \/ j \in noted)
  BY <1>1 DEF ItemsMatch
<1>5. D!Close(lapsed, closed, noted)
  BY <1>3, <1>4 DEF D!Close
<1>6. lapsed \in SUBSET DOMAIN Items /\ closed \in SUBSET DOMAIN Items /\ noted \in SUBSET DOMAIN Items
  BY <1>1 DEF ItemsMatch
<1> QED BY <1>5, <1>6 DEF D!Next

(* Which rows are licensed. *)
LicenceFacts ==
  \A j \in DOMAIN outbox :
    /\ outbox[j].state = "PENDING" => Licensed(j)
    /\ outbox[j].state = "SENT" => ~Licensed(j)
    /\ IsGroup(j) /\ outbox[j].state # "SENT" => Licensed(j)
    /\ ~IsGroup(j) /\ outbox[j].state \in {"FAILED", "UNKNOWN"} => ~Licensed(j)
    /\ ~IsGroup(j) /\ outbox[j].state = "INFLIGHT" /\ (\A w \in Workers : worker[w].row # j)
         => ~Licensed(j)
    /\ \A w \in Workers :
         ~IsGroup(j) /\ worker[w].row = j
         => (Licensed(j) <=> \/ worker[w].phase \in {"claimed", "paced", "ready"}
                             \/ worker[w].answer \in {"limited", "unsent"})

LEMMA Licences == OInv => LicenceFacts
<1> SUFFICES ASSUME OInv, NEW j \in DOMAIN outbox
             PROVE  LicenceFacts!(j)
  BY DEF LicenceFacts
<1>1. ASSUME NEW w \in Workers, worker[w].row = j
      PROVE  outbox[j].state = "INFLIGHT" /\ \A v \in Workers \ {w} : worker[v].row # j
  <2>1. worker[w].phase # "idle"
    BY <1>1, IdleType, RowsAreRows DEF OInv, WorkerOK
  <2> QED BY <2>1, <1>1, HeldFacts DEF Held
<1> QED BY <1>1 DEF Licensed

LEMMA NextLicences == OInv' => LicenceFacts'
BY Licences, PTL

(* A step about row i, or about none (0), licenses no other row. *)
LEMMA LicencesKept ==
  ASSUME OInv, NEW i \in Nat, NEW j \in DOMAIN outbox \ {i},
         \A v \in Workers : \/ worker'[v] = worker[v]
                            \/ worker[v].row \in {0, i} /\ worker'[v].row \in {0, i},
         outbox'[j].state = outbox[j].state, outbox'[j].kind = outbox[j].kind
  PROVE  Licensed(j)' = Licensed(j)
<1>1. j # 0
  BY RowsAreRows DEF OInv
<1>2. Licensed(j)' <=> Licensed(j)
  BY <1>1 DEF Licensed, IsGroup
<1> QED BY <1>2 DEF Licensed

LEMMA RowMaps ==
  ASSUME OInv, OInv', NEW i \in DOMAIN outbox, NEW r \in Row,
         outbox' = [outbox EXCEPT ![i] = r],
         r.chat = outbox[i].chat, r.kind = outbox[i].kind, r.owner = outbox[i].owner,
         r.delivered = outbox[i].delivered, IsGroup(i) \/ r.retries = outbox[i].retries,
         \A v \in Workers : \/ worker'[v] = worker[v]
                            \/ worker[v].row \in {0, i} /\ worker'[v].row \in {0, i},
         NEW lapsed \in SUBSET {i}, NEW closed \in SUBSET {i}, NEW noted \in SUBSET closed,
         closed # {} => outbox[i].state # "SENT" /\ (outbox[i].delivered > 0 \/ noted # {}),
         (r.state = "SENT") = (outbox[i].state = "SENT" \/ closed # {}),
         r.noted = (outbox[i].noted \/ noted # {}),
         Licensed(i)' <=> (Licensed(i) /\ lapsed = {} /\ closed = {})
  PROVE  D!Next
<1>1. /\ DOMAIN outbox' = DOMAIN outbox /\ outbox'[i] = r /\ i \in Nat
      /\ \A j \in DOMAIN outbox : j # i => outbox'[j] = outbox[j]
  BY RowsAreRows DEF OInv
<1>2. Licensed(i) \in BOOLEAN /\ Licensed(i)' \in BOOLEAN
  BY DEF Licensed
<1>3. ASSUME NEW j \in DOMAIN outbox
      PROVE  /\ outbox'[j].chat = outbox[j].chat /\ outbox'[j].kind = outbox[j].kind
             /\ outbox'[j].owner = outbox[j].owner /\ outbox'[j].delivered = outbox[j].delivered
             /\ IsGroup(j) \/ outbox'[j].retries = outbox[j].retries
             /\ (outbox'[j].state = "SENT") = (outbox[j].state = "SENT" \/ j \in closed)
             /\ outbox'[j].noted = (outbox[j].noted \/ j \in noted)
             /\ Licensed(j)' = (Licensed(j) /\ j \notin lapsed \cup closed)
  <2>1. CASE j = i
    <3>1. /\ (j \in closed) <=> (closed # {})
          /\ (j \in noted) <=> (noted # {})
          /\ (j \in lapsed) <=> (lapsed # {})
      BY <2>1
    <3>2. Licensed(j)' = (Licensed(j) /\ j \notin lapsed \cup closed)
      BY <2>1, <3>1, <1>2
    <3> QED BY <1>1, <2>1, <3>1, <3>2
  <2>2. CASE j # i
    <3>1. outbox'[j] = outbox[j] /\ j \notin closed /\ j \notin noted /\ j \notin lapsed
      BY <1>1, <2>2
    <3>2. Licensed(j)' = Licensed(j)
      BY <1>1, <2>2, <3>1, LicencesKept
    <3>3. outbox[j].noted \in BOOLEAN /\ Licensed(j) \in BOOLEAN
      BY RowsAreRows DEF OInv, Row, Licensed
    <3> QED BY <3>1, <3>2, <3>3
  <2> QED BY <2>1, <2>2
<1>4. lapsed \in SUBSET DOMAIN outbox /\ closed \in SUBSET DOMAIN outbox
      /\ \A j \in closed : outbox[j].state # "SENT" /\ (outbox[j].delivered > 0 \/ j \in noted)
  OBVIOUS
<1> QED BY <1>1, <1>3, <1>4, CloseStep, ZenonT(40) DEF OInv

(* A worker hands its row back. *)
LEMMA ReleaseMaps ==
  ASSUME OInv, OInv', NEW w \in Workers, worker[w].phase # "idle", NEW r \in Row, Release(w, r),
         r.chat = Held(w).chat, r.kind = Held(w).kind, r.owner = Held(w).owner,
         r.delivered = Held(w).delivered, r.retries = Held(w).retries,
         NEW note \in BOOLEAN, r.noted <=> (r.state = "SENT" /\ note),
         r.state = "PENDING" => Licensed(worker[w].row),
         r.state \in {"FAILED", "UNKNOWN"} => ~IsGroup(worker[w].row),
         r.state = "SENT" => Held(w).delivered > 0 \/ note,
         r.state # "INFLIGHT"
  PROVE  D!Next
<1>1. PICK i \in DOMAIN outbox : i = worker[w].row
  BY HeldFacts
<1>2. /\ Held(w) = outbox[i] /\ outbox[i].state = "INFLIGHT" /\ outbox[i].noted = FALSE
      /\ outbox[i] \in Row
  BY <1>1, HeldFacts
<1>3. outbox' = [outbox EXCEPT ![i] = r] /\ worker' = [worker EXCEPT ![w] = Idle]
  BY <1>1 DEF Release
<1>4. /\ outbox'[i] = r /\ i \in DOMAIN outbox' /\ (IsGroup(i)' <=> IsGroup(i))
  BY <1>2, <1>3, RowsAreRows DEF OInv, IsGroup
<1>5. ASSUME NEW v \in Workers
      PROVE  worker'[v] = worker[v] \/ (worker[v].row \in {0, i} /\ worker'[v].row \in {0, i})
  BY <1>1, <1>3, WorkersAreWorkers, IdleType DEF OInv
<1>6. LicenceFacts /\ LicenceFacts'
  BY Licences, NextLicences
<1>7. CASE r.state = "PENDING"
  <2>1. Licensed(i) /\ Licensed(i)'
    BY <1>1, <1>4, <1>6, <1>7 DEF LicenceFacts
  <2> DEFINE none == {}
  <2>2. none \in SUBSET {i} /\ none \in SUBSET none /\ ~(none # {}) /\ none = {}
    OBVIOUS
  <2> HIDE DEF none
  <2>3. (r.state = "SENT") = (outbox[i].state = "SENT" \/ none # {})
    BY <1>2, <1>7, <2>2
  <2>4. r.noted = (outbox[i].noted \/ none # {})
    BY <1>2, <1>7, <2>2 DEF Row
  <2>5. Licensed(i)' <=> (Licensed(i) /\ none = {} /\ none = {})
    BY <2>1, <2>2
  <2>6. none # {} => outbox[i].state # "SENT" /\ (outbox[i].delivered > 0 \/ none # {})
    BY <2>2
  <2> QED BY <1>2, <1>3, <1>5, <2>2, <2>3, <2>4, <2>5, <2>6, RowMaps
<1>8. CASE r.state \in {"FAILED", "UNKNOWN"}
  <2>1. ~Licensed(i)'
    BY <1>1, <1>4, <1>6, <1>8 DEF LicenceFacts
  <2> DEFINE none   == {}
             lapsed == {i}
  <2>2. /\ none \in SUBSET {i} /\ none \in SUBSET none /\ ~(none # {}) /\ none = {}
        /\ lapsed \in SUBSET {i} /\ lapsed # {}
    OBVIOUS
  <2> HIDE DEF none, lapsed
  <2>3. (r.state = "SENT") = (outbox[i].state = "SENT" \/ none # {})
    BY <1>2, <1>8, <2>2
  <2>4. r.noted = (outbox[i].noted \/ none # {})
    BY <1>2, <1>8, <2>2 DEF Row
  <2>5. Licensed(i)' <=> (Licensed(i) /\ lapsed = {} /\ none = {})
    BY <2>1, <2>2
  <2>6. none # {} => outbox[i].state # "SENT" /\ (outbox[i].delivered > 0 \/ none # {})
    BY <2>2
  <2> QED BY <1>2, <1>3, <1>5, <2>2, <2>3, <2>4, <2>5, <2>6, RowMaps
<1>9. CASE r.state = "SENT"
  <2> DEFINE closed == {i}
             noted == IF note THEN {i} ELSE {}
  <2>1. ~Licensed(i)'
    BY <1>4, <1>6, <1>9 DEF LicenceFacts
  <2>2. closed \in SUBSET {i} /\ noted \in SUBSET closed /\ closed # {} /\ (note <=> noted # {})
    OBVIOUS
  <2> HIDE DEF closed, noted
  <2>3. (r.state = "SENT") = (outbox[i].state = "SENT" \/ closed # {})
    BY <2>2, <1>9
  <2>4. r.noted = (outbox[i].noted \/ noted # {})
    BY <1>2, <1>9, <2>2 DEF Row
  <2>5. closed # {} => outbox[i].state # "SENT" /\ (outbox[i].delivered > 0 \/ noted # {})
    BY <1>2, <1>9, <2>2
  <2>6. Licensed(i)' <=> (Licensed(i) /\ {} = {} /\ closed = {})
    BY <2>1, <2>2
  <2> QED BY <1>2, <1>3, <1>5, <2>2, <2>3, <2>4, <2>5, <2>6, RowMaps, ZenonT(40)
<1> QED BY <1>7, <1>8, <1>9 DEF Row, States

LEMMA WithMaps ==
  ASSUME OInv, OInv', NEW w \in Workers, worker[w].phase # "idle",
         NEW state \in States \ {"INFLIGHT"}, NEW due \in Nat, NEW note \in BOOLEAN,
         Release(w, With(Held(w), state, due, note)),
         state = "PENDING" => Licensed(worker[w].row),
         state \in {"FAILED", "UNKNOWN"} => ~IsGroup(worker[w].row),
         state = "SENT" => Held(w).delivered > 0 \/ note
  PROVE  D!Next
<1> DEFINE r == With(Held(w), state, due, note)
<1>1. Held(w) \in Row
  BY HeldFacts
<1>2. /\ r \in Row
      /\ r.chat = Held(w).chat /\ r.kind = Held(w).kind /\ r.owner = Held(w).owner
      /\ r.delivered = Held(w).delivered /\ r.retries = Held(w).retries
      /\ r.state = state /\ (r.noted <=> (r.state = "SENT" /\ note))
  BY <1>1, WithType
<1> HIDE DEF r
<1> QED BY <1>2, ReleaseMaps DEF r

LEMMA WorkerLicence ==
  ASSUME NEW w \in Workers,
         worker[w].phase \in {"claimed", "paced", "ready"} \/ worker[w].answer \in {"limited", "unsent"}
  PROVE  Licensed(worker[w].row)
BY DEF Licensed

LEMMA GiveUpMaps == ASSUME OInv, OInv', NEW w \in Workers, GiveUp(w) PROVE D!Next
BY WithMaps, WorkerLicence DEF GiveUp, States

LEMMA DeferMaps == ASSUME OInv, OInv', NEW w \in Workers, Defer(w) PROVE D!Next
<1> DEFINE due == Max({Held(w).due, pause})
           r == With(Held(w), "PENDING", due, FALSE)
           s == [r EXCEPT !.attempts = IF @ = 0 THEN 0 ELSE @ - 1]
<1>1. worker[w].phase = "paced" /\ Release(w, s)
  BY DEF Defer
<1>2. Held(w) \in Row /\ Held(w).due \in Nat /\ pause \in Nat
  <2>1. Held(w) \in Row
    BY <1>1, HeldFacts
  <2> QED BY <2>1, WaitBounds DEF OInv, TypeOK, Row
<1>3. due \in Nat
  BY <1>2, MaxInNat
<1> HIDE DEF due
<1>4. /\ r \in Row /\ r.chat = Held(w).chat /\ r.kind = Held(w).kind /\ r.owner = Held(w).owner
      /\ r.delivered = Held(w).delivered /\ r.retries = Held(w).retries
      /\ r.state = "PENDING" /\ r.noted = FALSE
  BY <1>2, <1>3 DEF With, Row, States
<1> HIDE DEF r
<1>5. /\ s \in Row /\ s.chat = r.chat /\ s.kind = r.kind /\ s.owner = r.owner
      /\ s.delivered = r.delivered /\ s.retries = r.retries
      /\ s.state = r.state /\ s.noted = r.noted
  <2>1. r.attempts \in 0..GiveUpAfter /\ GiveUpAfter \in Nat
    BY <1>4, OutboxAssumption DEF Row
  <2> QED BY <1>4, <2>1 DEF Row
<1> HIDE DEF s
<1>6. Licensed(worker[w].row) /\ (s.noted <=> (s.state = "SENT" /\ FALSE))
  BY <1>1, <1>4, <1>5, WorkerLicence
<1> QED BY <1>1, <1>4, <1>5, <1>6, ReleaseMaps

LEMMA RateLimitMaps == ASSUME OInv, OInv', NEW w \in Workers, RateLimit(w) PROVE D!Next
<1> DEFINE until == Max({pause, worker[w].wait + 1})
<1>1. /\ worker[w].phase # "idle" /\ worker[w].answer = "limited"
      /\ Release(w, With(Held(w), "PENDING", until, TRUE))
  BY DEF RateLimit, Answered
<1>2. until \in Nat
  <2>1. worker[w].wait \in Nat
    BY WaitBounds DEF OInv, WorkerOK
  <2>2. pause \in Nat
    BY WaitBounds DEF OInv, TypeOK
  <2>3. worker[w].wait + 1 \in Nat
    BY <2>1
  <2> QED BY <2>2, <2>3, MaxInNat
<1>3. Licensed(worker[w].row)
  BY <1>1, WorkerLicence
<1> HIDE DEF until
<1> QED BY <1>1, <1>2, <1>3, WithMaps DEF States

LEMMA CompleteUnsentMaps ==
  ASSUME OInv, OInv', NEW w \in Workers, CompleteUnsent(w) PROVE D!Next
BY WithMaps, WorkerLicence DEF CompleteUnsent, Answered, States

(* A message that is answered is no permission change. *)
LEMMA MessageKind ==
  ASSUME OInv, NEW w \in Workers, worker[w].phase # "idle", Held(w).kind \in MessageKinds
  PROVE  ~IsGroup(worker[w].row)
BY DEF Held, IsGroup, MessageKinds, PhotoKinds, GroupKinds

LEMMA CompleteSentMaps == ASSUME OInv, OInv', NEW w \in Workers, CompleteSent(w) PROVE D!Next
<1> DEFINE note == worker[w].answer = "same"
<1>1. /\ worker[w].phase # "idle" /\ Held(w).kind \in MessageKinds
      /\ worker[w].answer \in {"ok", "same"}
      /\ Release(w, With(Held(w), "SENT", Cooldown, note))
  BY DEF CompleteSent, Answered
<1>2. Held(w).delivered > 0 \/ note
  BY <1>1, MessageKind DEF OInv, WorkerOK
<1>3. note \in BOOLEAN /\ Cooldown \in Nat
  BY OutboxAssumption
<1> HIDE DEF note
<1> QED BY <1>1, <1>2, <1>3, WithMaps DEF States

LEMMA CompleteFailedMaps ==
  ASSUME OInv, OInv', NEW w \in Workers, CompleteFailed(w) PROVE D!Next
<1>1. PICK state \in {"FAILED", "UNKNOWN"} :
        Release(w, With(Held(w), state, 0, FALSE)) /\ worker[w].phase # "idle"
  BY DEF CompleteFailed, Answered
<1>2. ~IsGroup(worker[w].row)
  BY <1>1, MessageKind DEF CompleteFailed, Answered, MessageKinds, PhotoKinds
<1> QED BY <1>1, <1>2, WithMaps DEF States

LEMMA CompletePhotoMaps ==
  ASSUME OInv, OInv', NEW w \in Workers, CompletePhoto(w) PROVE D!Next
BY WithMaps DEF CompletePhoto, Answered, States

(* A step of worker w that closes nothing: its row may lose its licence.   *)
LEMMA LapseMaps ==
  ASSUME OInv, OInv', NEW i \in DOMAIN outbox, NEW r \in Row,
         outbox' = [outbox EXCEPT ![i] = r],
         r.chat = outbox[i].chat, r.kind = outbox[i].kind, r.owner = outbox[i].owner,
         r.delivered = outbox[i].delivered, r.retries = outbox[i].retries,
         \A v \in Workers : \/ worker'[v] = worker[v]
                            \/ worker[v].row \in {0, i} /\ worker'[v].row \in {0, i},
         (r.state = "SENT") = (outbox[i].state = "SENT"), r.noted = outbox[i].noted,
         Licensed(i)' => Licensed(i)
  PROVE  D!Next
<1> DEFINE none   == {}
           lapsed == IF Licensed(i) /\ ~Licensed(i)' THEN {i} ELSE {}
<1>1. /\ none \in SUBSET {i} /\ none \in SUBSET none /\ ~(none # {}) /\ none = {}
      /\ lapsed \in SUBSET {i}
      /\ Licensed(i)' <=> (Licensed(i) /\ lapsed = {} /\ none = {})
  OBVIOUS
<1> HIDE DEF none, lapsed
<1>2. (r.state = "SENT") = (outbox[i].state = "SENT" \/ none # {})
  BY <1>1
<1>3. r.noted = (outbox[i].noted \/ none # {})
  <2>1. r.noted \in BOOLEAN
    BY DEF Row
  <2> QED BY <2>1, <1>1
<1>4. none # {} => outbox[i].state # "SENT" /\ (outbox[i].delivered > 0 \/ none # {})
  BY <1>1
<1>5. PICK l \in SUBSET {i} : l = lapsed
  BY <1>1
<1> QED BY <1>1, <1>2, <1>3, <1>4, <1>5, RowMaps

(* A step of a worker that writes no row. *)
LEMMA WorkerMaps ==
  ASSUME OInv, OInv', NEW w \in Workers, NEW i \in DOMAIN outbox, worker[w].row = i,
         UNCHANGED outbox, \A v \in Workers \ {w} : worker'[v] = worker[v],
         worker'[w].row \in {0, i}, Licensed(i)' => Licensed(i)
  PROVE  D!Next
<1>1. outbox[i] \in Row
  BY RowsAreRows DEF OInv
<1>2. outbox' = [outbox EXCEPT ![i] = outbox[i]]
  BY RowsAreRows DEF OInv
<1>3. \A v \in Workers : \/ worker'[v] = worker[v]
                         \/ worker[v].row \in {0, i} /\ worker'[v].row \in {0, i}
  OBVIOUS
<1> QED BY <1>1, <1>2, <1>3, LapseMaps

LEMMA PhaseMaps ==
  ASSUME OInv, OInv', NEW w \in Workers, Pace(w) \/ Recheck(w) PROVE D!Next
<1>1. /\ worker[w].phase \in {"claimed", "paced"} /\ UNCHANGED outbox
      /\ \E to \in {"paced", "ready"} : worker' = [worker EXCEPT ![w].phase = to]
  BY DEF Pace, Recheck
<1>2. PICK i \in DOMAIN outbox : i = worker[w].row
  BY <1>1, HeldFacts
<1>3. \A v \in Workers \ {w} : worker'[v] = worker[v]
  BY <1>1, WorkersAreWorkers DEF OInv
<1>4. worker'[w].row = i
  BY <1>1, <1>2, WorkersAreWorkers DEF OInv
<1>5. Licensed(i)
  BY <1>1, <1>2, WorkerLicence
<1> QED BY <1>1, <1>2, <1>3, <1>4, <1>5, WorkerMaps

LEMMA LocalFailureMaps == ASSUME OInv, OInv', NEW w \in Workers, LocalFailure(w) PROVE D!Next
<1>1. worker[w].phase # "idle" /\ UNCHANGED outbox /\ worker' = [worker EXCEPT ![w] = Idle]
  BY DEF LocalFailure
<1>2. PICK i \in DOMAIN outbox : i = worker[w].row
  BY <1>1, HeldFacts
<1>3. /\ outbox[i].state = "INFLIGHT" /\ \A v \in Workers \ {w} : worker[v].row # i
  BY <1>1, <1>2, HeldFacts
<1>4. /\ worker'[w] = Idle /\ \A v \in Workers \ {w} : worker'[v] = worker[v]
  BY <1>1, WorkersAreWorkers DEF OInv
<1>5. worker'[w].row = 0 /\ i # 0
  BY <1>4, IdleType, RowsAreRows DEF OInv
<1>6. Licensed(i)' => Licensed(i)
  <2>1. CASE IsGroup(i)
    BY <2>1, <1>3, Licences DEF LicenceFacts
  <2>2. CASE ~IsGroup(i)
    <3>1. \A v \in Workers : worker'[v].row # i
      BY <1>3, <1>4, <1>5
    <3>2. ~IsGroup(i)' /\ outbox'[i].state = "INFLIGHT" /\ i \in DOMAIN outbox'
      BY <2>2, <1>1, <1>3 DEF IsGroup
    <3> QED BY <3>1, <3>2, NextLicences DEF LicenceFacts
  <2> QED BY <2>1, <2>2
<1> QED BY <1>1, <1>2, <1>4, <1>5, <1>6, WorkerMaps

LEMMA ClaimMaps == ASSUME OInv, OInv', NEW w \in Workers, Claim(w) PROVE D!Next
<1>1. PICK i \in DOMAIN outbox : i = NextRow /\ i \in Claimable
  BY NextRowWaits DEF Claim, OInv
<1>2. outbox[i].state = "PENDING" /\ worker[w] = Idle
  BY <1>1 DEF Claimable, Claim
<1> DEFINE n == IF IsGroup(i) THEN Min({outbox[i].attempts + 1, GiveUpAfter})
                ELSE outbox[i].attempts
           r == [outbox[i] EXCEPT !.state = "INFLIGHT", !.attempts = n]
           held == [Idle EXCEPT !.phase = "claimed", !.row = i, !.edit = outbox[i].card \in cards]
<1>3. outbox' = [outbox EXCEPT ![i] = r]
  BY <1>1, RowsAreRows DEF Claim, OInv
<1>4. worker' = [worker EXCEPT ![w] = held]
  BY <1>1 DEF Claim
<1>5. held.row = i /\ held.phase = "claimed"
  BY DEF Idle
<1> HIDE DEF n, held
<1>6. outbox'[i] = r /\ i \in DOMAIN outbox'
  BY <1>3, RowsAreRows DEF OInv
<1>7. r \in Row
  BY <1>6, RowsWillBeTyped DEF OInv, RowsTyped
<1>8. /\ r.chat = outbox[i].chat /\ r.kind = outbox[i].kind /\ r.owner = outbox[i].owner
      /\ r.delivered = outbox[i].delivered /\ r.retries = outbox[i].retries
      /\ r.state = "INFLIGHT" /\ r.noted = outbox[i].noted
  BY RowsAreRows DEF OInv, Row
<1> HIDE DEF r
<1>9. worker[w].row = 0 /\ worker'[w].row = i /\ \A v \in Workers \ {w} : worker'[v] = worker[v]
  BY <1>2, <1>4, <1>5, IdleType, WorkersAreWorkers DEF OInv
<1>10. Licensed(i)
  BY <1>2 DEF Licensed
<1>11. (r.state = "SENT") = (outbox[i].state = "SENT")
  BY <1>2, <1>8
<1>12. \A v \in Workers : \/ worker'[v] = worker[v]
                          \/ worker[v].row \in {0, i} /\ worker'[v].row \in {0, i}
  BY <1>9
<1> QED BY <1>3, <1>7, <1>8, <1>10, <1>11, <1>12, LapseMaps

(* A message that goes out: it is the oldest of its lane that has not left. *)
LEMMA DeliverMaps ==
  ASSUME OInv, OInv', NEW w \in Workers, worker[w].phase = "ready", NEW i \in DOMAIN outbox,
         worker[w].row = i, ~IsGroup(i), NEW r \in Row,
         outbox' = [outbox EXCEPT ![i] = r],
         r.chat = outbox[i].chat, r.kind = outbox[i].kind, r.owner = outbox[i].owner,
         r.delivered = outbox[i].delivered + 1, r.retries = outbox[i].retries,
         r.state = outbox[i].state, r.noted = outbox[i].noted,
         \A v \in Workers \ {w} : worker'[v] = worker[v],
         worker'[w].row = i, worker'[w].phase = "answered",
         worker'[w].answer \notin {"limited", "unsent"}
  PROVE  D!Next
<1>1. ItemsMatch /\ ItemsMatch' /\ LicenceFacts'
  BY ItemsAre, ItemsWillBe, NextLicences DEF OInv
<1>2. /\ DOMAIN outbox' = DOMAIN outbox /\ outbox'[i] = r /\ i \in Nat
      /\ \A j \in DOMAIN outbox : j # i => outbox'[j] = outbox[j]
  BY RowsAreRows DEF OInv
<1>3. outbox[i].owner \in Bots /\ FirstInLane(i)
  <2>1. Holding(w)
    BY DEF OInv, WorkerOK
  <2> QED BY <2>1, HeldFacts DEF Holding, Held
<1>4. Licensed(i) /\ ~Licensed(i)'
  <2>1. Licensed(i)
    BY WorkerLicence
  <2>2. ~IsGroup(i)'
    BY <1>2 DEF IsGroup
  <2> QED BY <2>1, <2>2, <1>1, <1>2 DEF LicenceFacts
<1>5. Items[i].licensed /\ Items[i].owner \in Bots
  BY <1>1, <1>3, <1>4 DEF ItemsMatch
<1>6. \A j \in D!Earlier(i) : Items[j].done
  <2> SUFFICES ASSUME NEW j \in 1..(i - 1), D!SameStream(i, j) PROVE Items[j].done
    BY DEF D!Earlier
  <2>1. j \in DOMAIN outbox
    BY RowsAreRows DEF OInv
  <2>2. SameOwner(i, j)
    BY <2>1, <1>1 DEF D!SameStream, ItemsMatch, SameOwner
  <2>3. SameLane(i, j)
    <3>1. <<outbox[i].chat, IsGroup(i)>> = <<outbox[j].chat, IsGroup(j)>>
      BY <2>1, <1>1 DEF D!SameStream, ItemsMatch
    <3>2. outbox[i].chat = outbox[j].chat /\ IsGroup(i) = IsGroup(j)
      BY <3>1
    <3> QED BY <3>2 DEF SameLane
  <2> QED BY <2>1, <2>2, <2>3, <1>1, <1>3 DEF FirstInLane, ItemsMatch
<1>7. ASSUME NEW j \in DOMAIN outbox, j # i PROVE Items'[j] = Items[j]
  <2>1. outbox'[j] = outbox[j]
    BY <1>2, <1>7
  <2>2. Licensed(j)' = Licensed(j)
    BY <1>2, <1>7, <2>1, LicencesKept
  <2>3. /\ Items[j] \in D!Item /\ Items'[j] \in D!Item
        /\ Items'[j].lane = Items[j].lane /\ Items'[j].owner = Items[j].owner
        /\ Items'[j].sent = Items[j].sent /\ Items'[j].renewed = Items[j].renewed
        /\ Items'[j].noted = Items[j].noted
    BY <1>1, <1>2, <2>1, KeptFields
  <2>4. Items'[j].licensed = Items[j].licensed
    BY <1>1, <1>2, <2>2 DEF ItemsMatch
  <2>5. Items'[j].done = Items[j].done
    BY <1>1, <1>2, <2>1 DEF ItemsMatch
  <2> QED BY <2>3, <2>4, <2>5, SameItem
<1>8. Items'[i] = [Items[i] EXCEPT !.sent = @ + 1, !.licensed = FALSE]
  <2>1. PICK e \in D!Item, f \in D!Item : e = Items[i] /\ f = Items'[i]
    BY <1>1, <1>2 DEF ItemsMatch
  <2>2. /\ f.lane = e.lane /\ f.owner = e.owner
        /\ f.sent = e.sent + 1 /\ f.renewed = e.renewed /\ f.noted = e.noted
    BY <1>1, <1>2, <2>1, KeptFields
  <2>3. f.licensed = FALSE
    <3>1. f.licensed = Licensed(i)'
      BY <1>1, <1>2, <2>1 DEF ItemsMatch
    <3>2. Licensed(i)' = FALSE
      BY <1>4
    <3> QED BY <3>1, <3>2
  <2>4. f.done = e.done
    BY <1>1, <1>2, <2>1 DEF ItemsMatch
  <2>5. f = [e EXCEPT !.sent = @ + 1, !.licensed = FALSE]
    BY <2>2, <2>3, <2>4 DEF D!Item
  <2> QED BY <2>1, <2>5
<1>9. Items' = [Items EXCEPT ![i].sent = @ + 1, ![i].licensed = FALSE]
  <2> DEFINE e == [Items[i] EXCEPT !.sent = @ + 1, !.licensed = FALSE]
             F == [Items EXCEPT ![i] = e]
  <2>1. /\ DOMAIN Items' = DOMAIN Items /\ i \in DOMAIN Items /\ DOMAIN Items = DOMAIN outbox
        /\ Items' = [j \in DOMAIN Items' |-> Items'[j]] /\ Items = [j \in DOMAIN Items |-> Items[j]]
    BY <1>1, <1>2 DEF ItemsMatch
  <2>2. F = [Items EXCEPT ![i].sent = @ + 1, ![i].licensed = FALSE]
    BY <2>1
  <2>3. Items'[i] = e
    BY <1>8
  <2> HIDE DEF e
  <2>4. \A j \in DOMAIN Items : Items'[j] = F[j]
    BY <2>1, <2>3, <1>7
  <2>5. F = [j \in DOMAIN Items |-> F[j]]
    BY <2>1
  <2>6. Items' = F
    BY <2>1, <2>4, <2>5
  <2> QED BY <2>2, <2>6
<1>10. i \in DOMAIN Items
  BY <1>1 DEF ItemsMatch
<1> QED BY <1>5, <1>6, <1>9, <1>10 DEF D!Next, D!Deliver

LEMMA TransmitMaps == ASSUME OInv, OInv', NEW w \in Workers, Transmit(w) PROVE D!Next
<1>1. PICK i \in DOMAIN outbox : i = worker[w].row /\ ~IsGroup(i) /\ worker[w].phase = "ready"
  BY HeldFacts DEF Transmit
<1>2. PICK answer \in Answers \ {"none"}, wait \in Waits \cup {0}, arrived \in BOOLEAN :
           /\ answer \in {"ok", "noId"} => arrived
           /\ arrived => answer \in {"ok", "noId", "lost"}
           /\ outbox' = [outbox EXCEPT ![worker[w].row] = Called(Held(w), arrived, worker[w].edit)]
           /\ worker' = [worker EXCEPT ![w] = [worker[w] EXCEPT !.phase = "answered", !.answer = answer,
                                                        !.wait = wait]]
           /\ Gate(w, wait) /\ faults' \in 0..MaxFaults
  BY TransmitEffect
<1>3. outbox[i] \in Row /\ Held(w) = outbox[i] /\ outbox[i].delivered \in Nat
  BY <1>1, RowsAreRows DEF OInv, Held, Row
<1>4. worker \in [Workers -> WorkerType] /\ worker[w] \in WorkerType /\ worker[w].edit \in BOOLEAN
  BY WorkersAreWorkers DEF OInv
<1>5. /\ worker'[w].row = i /\ worker'[w].phase = "answered" /\ worker'[w].answer = answer
      /\ \A v \in Workers \ {w} : worker'[v] = worker[v]
  BY <1>1, <1>2, <1>4 DEF WorkerType
<1> DEFINE r == Called(outbox[i], arrived, worker[w].edit)
<1>6. outbox' = [outbox EXCEPT ![i] = r]
  BY <1>1, <1>2, <1>3
<1>7. /\ r \in Row /\ r.chat = outbox[i].chat /\ r.kind = outbox[i].kind /\ r.owner = outbox[i].owner
      /\ r.state = outbox[i].state /\ r.noted = outbox[i].noted /\ r.retries = outbox[i].retries
      /\ r.delivered = IF arrived THEN outbox[i].delivered + 1 ELSE outbox[i].delivered
  BY <1>3, <1>4, CalledType
<1> HIDE DEF r
<1>8. Licensed(i)
  BY <1>1, WorkerLicence
<1>9. CASE arrived
  <2>1. r.delivered = outbox[i].delivered + 1 /\ worker'[w].answer \notin {"limited", "unsent"}
    BY <1>2, <1>5, <1>7, <1>9
  <2> QED BY <1>1, <1>5, <1>6, <1>7, <2>1, DeliverMaps
<1>10. CASE ~arrived
  <2>1. r.delivered = outbox[i].delivered
    BY <1>7, <1>10
  <2>2. \A v \in Workers : \/ worker'[v] = worker[v]
                           \/ worker[v].row \in {0, i} /\ worker'[v].row \in {0, i}
    BY <1>1, <1>5
  <2>3. (r.state = "SENT") = (outbox[i].state = "SENT")
    BY <1>7
  <2> QED BY <1>6, <1>7, <1>8, <2>1, <2>2, <2>3, LapseMaps
<1> QED BY <1>9, <1>10

(* The operator closes a row, with a note. *)
LEMMA SettledMaps ==
  ASSUME OInv, OInv', NEW i \in DOMAIN outbox, Resolvable(i), UNCHANGED worker,
         outbox' = [outbox EXCEPT ![i] = With(outbox[i], "SENT", outbox[i].due, TRUE)]
  PROVE  D!Next
<1> DEFINE r == With(outbox[i], "SENT", outbox[i].due, TRUE)
           closed == {i}
           none == {}
<1>1. outbox[i] \in Row /\ outbox[i].state \in {"FAILED", "UNKNOWN"}
  BY RowsAreRows DEF OInv, Resolvable
<1>2. /\ r \in Row /\ r.chat = outbox[i].chat /\ r.kind = outbox[i].kind
      /\ r.owner = outbox[i].owner /\ r.delivered = outbox[i].delivered
      /\ r.retries = outbox[i].retries /\ r.state = "SENT" /\ r.noted = TRUE
  BY <1>1 DEF With, Row, States
<1> HIDE DEF r
<1>3. outbox' = [outbox EXCEPT ![i] = r] /\ outbox'[i] = r /\ i \in DOMAIN outbox'
  BY RowsAreRows DEF OInv, r
<1>4. ~Licensed(i)'
  BY <1>2, <1>3, NextLicences DEF LicenceFacts
<1>5. /\ none \in SUBSET {i} /\ none = {} /\ closed \in SUBSET {i} /\ closed \in SUBSET closed
      /\ closed # {}
  OBVIOUS
<1> HIDE DEF closed, none
<1>6. (r.state = "SENT") = (outbox[i].state = "SENT" \/ closed # {})
  BY <1>2, <1>5
<1>7. r.noted = (outbox[i].noted \/ closed # {})
  BY <1>2, <1>5
<1>8. closed # {} => outbox[i].state # "SENT" /\ (outbox[i].delivered > 0 \/ closed # {})
  BY <1>1
<1>9. Licensed(i)' <=> (Licensed(i) /\ none = {} /\ closed = {})
  BY <1>4, <1>5
<1> QED BY <1>2, <1>3, <1>5, <1>6, <1>7, <1>8, <1>9, RowMaps

LEMMA AckMaps == ASSUME OInv, OInv', NEW i \in DOMAIN outbox, Ack(i) PROVE D!Next
BY SettledMaps DEF Ack

LEMMA SkipMaps == ASSUME OInv, OInv', NEW i \in DOMAIN outbox, Skip(i) PROVE D!Next
BY SettledMaps DEF Skip

(* Steps that touch no row, or only how long it rests. *)
LEMMA QuietMaps ==
  ASSUME OInv, OInv', DOMAIN outbox' = DOMAIN outbox,
         \A j \in DOMAIN outbox :
           /\ outbox'[j].chat = outbox[j].chat /\ outbox'[j].kind = outbox[j].kind
           /\ outbox'[j].owner = outbox[j].owner /\ outbox'[j].delivered = outbox[j].delivered
           /\ outbox'[j].retries = outbox[j].retries /\ outbox'[j].state = outbox[j].state
           /\ outbox'[j].noted = outbox[j].noted,
         UNCHANGED worker
  PROVE  D!Next
<1> DEFINE none == {}
<1>1. none \in SUBSET DOMAIN outbox /\ none \in SUBSET none /\ \A j : j \notin none
  OBVIOUS
<1> HIDE DEF none
<1>2. ASSUME NEW j \in DOMAIN outbox
      PROVE  /\ outbox'[j].chat = outbox[j].chat /\ outbox'[j].kind = outbox[j].kind
             /\ outbox'[j].owner = outbox[j].owner /\ outbox'[j].delivered = outbox[j].delivered
             /\ IsGroup(j) \/ outbox'[j].retries = outbox[j].retries
             /\ (outbox'[j].state = "SENT") = (outbox[j].state = "SENT" \/ j \in none)
             /\ outbox'[j].noted = (outbox[j].noted \/ j \in none)
             /\ Licensed(j)' = (Licensed(j) /\ j \notin none \cup none)
  <2>1. outbox[j].noted \in BOOLEAN /\ j # 0
    BY RowsAreRows DEF OInv, Row
  <2>2. Licensed(j)' = Licensed(j) /\ Licensed(j) \in BOOLEAN
    BY <2>1, LicencesKept DEF Licensed
  <2> QED BY <1>1, <2>1, <2>2
<1>3. \A j \in none : outbox[j].state # "SENT" /\ (outbox[j].delivered > 0 \/ j \in none)
  BY <1>1
<1> QED BY <1>1, <1>2, <1>3, CloseStep DEF OInv

LEMMA DisconnectMaps == ASSUME OInv, OInv', Disconnect PROVE D!Next
BY QuietMaps DEF Disconnect

LEMMA TickMaps == ASSUME OInv, OInv', Tick PROVE D!Next
<1>1. DOMAIN outbox' = DOMAIN outbox /\ UNCHANGED worker
  BY DEF Tick
<1>2. ASSUME NEW j \in DOMAIN outbox
      PROVE  /\ outbox'[j].chat = outbox[j].chat /\ outbox'[j].kind = outbox[j].kind
             /\ outbox'[j].owner = outbox[j].owner /\ outbox'[j].delivered = outbox[j].delivered
             /\ outbox'[j].retries = outbox[j].retries /\ outbox'[j].state = outbox[j].state
             /\ outbox'[j].noted = outbox[j].noted
  <2>1. PICK r \in Row : r = outbox[j]
    BY RowsAreRows DEF OInv
  <2>2. outbox'[j] = [r EXCEPT !.due = Less(@)]
    BY <2>1 DEF Tick
  <2> QED BY <2>1, <2>2 DEF Row
<1> QED BY <1>1, <1>2, QuietMaps

(* A row that did not change is an item that did not change. *)
LEMMA KeptItem ==
  ASSUME ItemsMatch, ItemsMatch', NEW j \in DOMAIN outbox, j \in DOMAIN outbox',
         outbox'[j].chat = outbox[j].chat, outbox'[j].kind = outbox[j].kind,
         outbox'[j].owner = outbox[j].owner, outbox'[j].noted = outbox[j].noted,
         outbox'[j].retries = outbox[j].retries, outbox'[j].delivered = outbox[j].delivered,
         outbox'[j].state = outbox[j].state, Licensed(j)' = Licensed(j)
  PROVE  Items'[j] = Items[j]
<1>1. /\ Items[j] \in D!Item /\ Items'[j] \in D!Item
      /\ Items'[j].lane = Items[j].lane /\ Items'[j].owner = Items[j].owner
      /\ Items'[j].sent = Items[j].sent /\ Items'[j].renewed = Items[j].renewed
      /\ Items'[j].noted = Items[j].noted
  BY KeptFields
<1>2. Items'[j].licensed = Items[j].licensed
  BY DEF ItemsMatch
<1>3. Items'[j].done = Items[j].done
  BY DEF ItemsMatch
<1> QED BY <1>1, <1>2, <1>3, SameItem

LEMMA AppendIs ==
  ASSUME NEW S, NEW s \in Seq(S), NEW x \in S, NEW t \in Seq(S), Len(t) = Len(s) + 1,
         \A j \in 1..Len(s) : t[j] = s[j], t[Len(s) + 1] = x
  PROVE  t = Append(s, x)
<1>1. Append(s, x) \in Seq(S) /\ Len(Append(s, x)) = Len(s) + 1 /\ Len(s) \in Nat
  BY AppendProperties, LenProperties
<1>2. \A j \in 1..(Len(s) + 1) : t[j] = Append(s, x)[j]
  BY <1>1, AppendProperties
<1> QED BY <1>1, <1>2, SeqEqual

LEMMA ItemsLength == OInv => Items \in Seq(D!Item) /\ Len(Items) = Len(outbox)
<1> SUFFICES ASSUME OInv PROVE Items \in Seq(D!Item) /\ Len(Items) = Len(outbox)
  OBVIOUS
<1>1. /\ Len(outbox) \in Nat /\ DOMAIN Items = 1..Len(outbox)
      /\ Items = [j \in DOMAIN Items |-> Items[j]]
      /\ \A j \in 1..Len(outbox) : Items[j] \in D!Item
  BY RowsAreRows, ItemsAre DEF ItemsMatch, OInv
<1>2. Items \in [1..Len(outbox) -> D!Item]
  BY <1>1
<1> HIDE DEF Items
<1> QED BY <1>1, <1>2

ItemsAreSeq == Items \in Seq(D!Item) /\ Len(Items) = Len(outbox)

LEMMA ItemsWillBeSeq == OInv' => ItemsAreSeq'
<1>1. OInv => ItemsAreSeq
  BY ItemsLength DEF ItemsAreSeq
<1> QED BY <1>1, PTL

(* The row at the end is a new item. *)
LEMMA NewRowItem ==
  ASSUME OInv', NEW chat \in Chats, NEW kind \in MessageKinds \cup GroupKinds,
         NEW card, NEW b \in Bots \cup {NoBot}, NEW j \in DOMAIN outbox',
         outbox'[j] = NewRow(chat, kind, card, b)
  PROVE  Items'[j] = D!NewItem(<<chat, kind \in GroupKinds>>, b)
<1>1. ItemsMatch' /\ LicenceFacts'
  BY ItemsWillBe, NextLicences DEF OInv
<1>2. /\ outbox'[j].state = "PENDING" /\ outbox'[j].noted = FALSE /\ outbox'[j].chat = chat
      /\ outbox'[j].owner = b /\ outbox'[j].delivered = 0 /\ outbox'[j].retries = 0
      /\ outbox'[j].kind = kind
  BY DEF NewRow
<1>3. IsGroup(j)' = (kind \in GroupKinds)
  BY <1>2 DEF IsGroup
<1>4. Licensed(j)' = TRUE
  <2>1. Licensed(j)'
    BY <1>1, <1>2 DEF LicenceFacts
  <2> QED BY <2>1 DEF Licensed
<1>5. PICK f \in D!Item : f = Items'[j]
  BY <1>1 DEF ItemsMatch
<1>6. f.lane = <<chat, kind \in GroupKinds>>
  BY <1>1, <1>2, <1>3, <1>5 DEF ItemsMatch
<1>7. f.owner = b /\ f.sent = 0 /\ f.renewed = 0 /\ f.noted = FALSE
  BY <1>1, <1>2, <1>5 DEF ItemsMatch
<1>8. f.licensed = TRUE
  BY <1>1, <1>4, <1>5 DEF ItemsMatch
<1>9. f.done = FALSE
  BY <1>1, <1>2, <1>5 DEF ItemsMatch
<1> DEFINE lane == <<chat, kind \in GroupKinds>>
<1> HIDE DEF lane
<1>10. f.lane = lane
  BY <1>6 DEF lane
<1>11. f = D!NewItem(lane, b)
  BY <1>7, <1>8, <1>9, <1>10 DEF D!NewItem, D!Item
<1> QED BY <1>5, <1>11 DEF lane

LEMMA QueueMaps ==
  ASSUME OInv, OInv', NEW chat \in Chats, NEW kind \in MessageKinds \cup GroupKinds,
         NEW card \in Cards \cup {NoCard},
         outbox' = Append(outbox, NewRow(chat, kind, card, bot)), UNCHANGED <<worker, bot>>
  PROVE  D!Next
<1> DEFINE n == Len(outbox) + 1
           lane == <<chat, kind \in GroupKinds>>
           new == D!NewItem(lane, bot)
<1>1. bot \in Bots \cup {NoBot}
  BY DEF OInv, TypeOK
<1>2. /\ outbox' = Append(outbox, NewRow(chat, kind, card, bot)) /\ UNCHANGED <<worker, bot>>
      /\ NewRow(chat, kind, card, bot) \in Row
  BY <1>1, NewRowType
<1>3. /\ DOMAIN outbox = 1..Len(outbox) /\ Len(outbox) \in Nat /\ DOMAIN outbox' = 1..n
      /\ Len(outbox') = n
      /\ \A j \in 1..Len(outbox) : outbox'[j] = outbox[j]
      /\ outbox'[n] = NewRow(chat, kind, card, bot)
  BY <1>2, RowsAppend DEF OInv, TypeOK
<1>4. ItemsMatch /\ ItemsMatch'
  BY ItemsAre, ItemsWillBe DEF OInv
<1>5. ASSUME NEW j \in DOMAIN outbox PROVE Items'[j] = Items[j]
  <2>1. outbox'[j] = outbox[j] /\ j \in DOMAIN outbox' /\ j # 0
    BY <1>3
  <2>2. Licensed(j)' = Licensed(j)
    BY <1>2, <2>1, LicencesKept
  <2> QED BY <1>4, <2>1, <2>2, KeptItem
<1>6. Items'[n] = new
  <2>1. n \in DOMAIN outbox'
    BY <1>3
  <2> QED BY <1>1, <1>3, <2>1, NewRowItem
<1>7. /\ Items \in Seq(D!Item) /\ Len(Items) = Len(outbox)
      /\ Items' \in Seq(D!Item) /\ Len(Items') = n
  BY <1>3, ItemsLength, ItemsWillBeSeq DEF ItemsAreSeq
<1>8. lane \in Chats \X BOOLEAN
  <2> DEFINE g == kind \in GroupKinds
  <2>1. g \in BOOLEAN
    OBVIOUS
  <2> HIDE DEF g
  <2>2. <<chat, g>> \in Chats \X BOOLEAN
    BY <2>1
  <2> QED BY <2>2 DEF g
<1>9. new \in D!Item
  <2>1. n \in DOMAIN outbox'
    BY <1>3
  <2> QED BY <1>4, <1>6, <2>1 DEF ItemsMatch
<1> HIDE DEF new
<1>10. Items' = Append(Items, new)
  BY <1>3, <1>5, <1>6, <1>7, <1>9, AppendIs
<1> QED BY <1>1, <1>8, <1>10 DEF D!Next, D!Produce, new

LEMMA EnqueueMaps ==
  ASSUME OInv, OInv', NEW chat \in Chats, NEW kind \in Kinds, NEW card \in Cards \cup {NoCard},
         Enqueue(chat, kind, card)
  PROVE  D!Next
BY QueueMaps, OutboxAssumption DEF Enqueue, tables

LEMMA FallbackMaps == ASSUME OInv, OInv', NEW w \in Workers, Fallback(w) PROVE D!Next
<1>1. PICK i \in DOMAIN outbox : i = worker[w].row
  BY HeldFacts DEF Fallback, Answered
<1> DEFINE n == Len(outbox) + 1
           r == With(outbox[i], "SENT", outbox[i].due, TRUE)
           f == [outbox EXCEPT ![i] = r]
           new == D!NewItem(Items[i].lane, Items[i].owner)
           one == {i}
           none == {}
<1>2. /\ outbox[i] \in Row /\ outbox[i].state = "INFLIGHT" /\ outbox[i].owner = bot /\ bot \in Bots
      /\ outbox[i].kind = "album" /\ Held(w) = outbox[i] /\ outbox[i].chat \in Chats
      /\ outbox[i].noted = FALSE
  BY <1>1, HeldFacts DEF Fallback, Answered, Row
<1>3. ~IsGroup(i)
  BY <1>2 DEF IsGroup, GroupKinds
<1>4. /\ r \in Row /\ r.chat = outbox[i].chat /\ r.kind = outbox[i].kind
      /\ r.owner = outbox[i].owner /\ r.delivered = outbox[i].delivered
      /\ r.retries = outbox[i].retries /\ r.state = "SENT" /\ r.noted = TRUE
  BY <1>2 DEF With, Row, States
<1>5. /\ outbox' = Append(f, NewRow(outbox[i].chat, "text", NoCard, bot))
      /\ worker' = [worker EXCEPT ![w] = Idle]
  BY <1>1, <1>2 DEF Fallback
<1> HIDE DEF r
<1>6. /\ DOMAIN outbox = 1..Len(outbox) /\ Len(outbox) \in Nat
      /\ f \in [DOMAIN outbox -> Row] /\ f[i] = r /\ \A j \in DOMAIN outbox \ {i} : f[j] = outbox[j]
  BY <1>4, RowsAreRows DEF OInv
<1>7. f \in Seq(Row) /\ Len(f) = Len(outbox)
  BY <1>6, RowsUpdate DEF OInv
<1>8. /\ "text" \in MessageKinds \cup GroupKinds /\ NoCard \in Cards \cup {NoCard}
      /\ bot \in Bots \cup {NoBot}
  BY <1>2 DEF MessageKinds
<1> DEFINE x == NewRow(outbox[i].chat, "text", NoCard, bot)
<1>9. x \in Row /\ outbox' = Append(f, x)
  BY <1>2, <1>5, <1>8, NewRowType
<1> HIDE DEF f, x
<1>10. /\ DOMAIN outbox' = 1..n /\ Len(outbox') = n
       /\ \A j \in DOMAIN outbox : outbox'[j] = f[j]
       /\ outbox'[n] = x
  BY <1>6, <1>7, <1>9, RowsAppend
<1>11. ItemsMatch /\ ItemsMatch' /\ LicenceFacts'
  BY ItemsAre, ItemsWillBe, NextLicences DEF OInv
<1>12. i \in DOMAIN outbox' /\ n \in DOMAIN outbox' /\ DOMAIN outbox \subseteq DOMAIN outbox'
  BY <1>6, <1>10
<1>13. /\ worker'[w].row = 0 /\ worker[w].row = i /\ \A v \in Workers \ {w} : worker'[v] = worker[v]
  BY <1>1, <1>5, IdleType, WorkersAreWorkers DEF OInv
<1>14. ASSUME NEW j \in DOMAIN outbox, j # i PROVE Items'[j] = Items[j]
  <2>1. outbox'[j] = outbox[j]
    BY <1>6, <1>10, <1>14
  <2>2. Licensed(j)' = Licensed(j)
    BY <1>6, <1>13, <1>14, <2>1, LicencesKept
  <2> QED BY <1>11, <1>12, <2>1, <2>2, KeptItem
<1>15. Items'[i] = Closed(Items[i], FALSE, TRUE, TRUE)
  <2>1. outbox'[i] = r
    BY <1>6, <1>10
  <2>2. PICK e \in D!Item, g \in D!Item : e = Items[i] /\ g = Items'[i]
    BY <1>11, <1>12 DEF ItemsMatch
  <2>3. /\ g.lane = e.lane /\ g.owner = e.owner /\ g.sent = e.sent /\ g.renewed = e.renewed
    <3>1. /\ Items'[i].done = (outbox'[i].state = "SENT") /\ Items'[i].sent = outbox'[i].delivered
          /\ Items[i].sent = outbox[i].delivered
          /\ Items'[i].owner = outbox'[i].owner /\ Items[i].owner = outbox[i].owner
          /\ Items'[i].lane = <<outbox'[i].chat, IsGroup(i)'>>
          /\ Items[i].lane = <<outbox[i].chat, IsGroup(i)>>
          /\ Items'[i].renewed = IF IsGroup(i)' THEN 0 ELSE outbox'[i].retries
          /\ Items[i].renewed = IF IsGroup(i) THEN 0 ELSE outbox[i].retries
      BY <1>11, <1>12 DEF ItemsMatch
    <3>2. IsGroup(i)' = IsGroup(i)
      BY <1>4, <2>1 DEF IsGroup
    <3> QED BY <1>4, <2>1, <2>2, <3>1, <3>2
  <2>4. g.licensed = FALSE
    <3>1. ~Licensed(i)'
      BY <1>4, <1>11, <1>12, <2>1 DEF LicenceFacts
    <3>2. g.licensed = Licensed(i)'
      BY <1>11, <1>12, <2>2 DEF ItemsMatch
    <3> QED BY <2>2, <3>1, <3>2 DEF D!Item
  <2>5. g.done = TRUE
    BY <1>4, <1>11, <1>12, <2>1, <2>2 DEF ItemsMatch
  <2>6. g.noted = TRUE
    BY <1>4, <1>11, <1>12, <2>1, <2>2 DEF ItemsMatch
  <2>7. g = Closed(e, FALSE, TRUE, TRUE)
    BY <2>3, <2>4, <2>5, <2>6 DEF Closed, D!Item
  <2> QED BY <2>2, <2>7
<1>16. Items'[n] = new
  <2>1. Items'[n] = D!NewItem(<<outbox[i].chat, "text" \in GroupKinds>>, bot)
    BY <1>2, <1>8, <1>10, <1>12, NewRowItem DEF x
  <2>2. Items[i].owner = bot
    BY <1>2, <1>11 DEF ItemsMatch
  <2>3. Items[i].lane = <<outbox[i].chat, FALSE>>
    <3>1. IsGroup(i) = FALSE
      BY <1>3 DEF IsGroup
    <3> QED BY <1>11, <3>1 DEF ItemsMatch
  <2>4. <<outbox[i].chat, "text" \in GroupKinds>> = <<outbox[i].chat, FALSE>>
    <3>1. ("text" \in GroupKinds) = FALSE
      BY DEF GroupKinds
    <3> QED BY <3>1
  <2> QED BY <2>1, <2>2, <2>3, <2>4
<1>17. /\ Items \in Seq(D!Item) /\ Len(Items) = Len(outbox) /\ DOMAIN Items = DOMAIN outbox
       /\ Items' \in Seq(D!Item) /\ Len(Items') = n
  BY <1>10, <1>11, ItemsLength, ItemsWillBeSeq DEF ItemsAreSeq, ItemsMatch
<1>18. new \in D!Item
  BY <1>11, <1>12, <1>16 DEF ItemsMatch
<1> DEFINE s == D!CloseAll(none, one, one)
<1> HIDE DEF new
<1>19. /\ s \in Seq(D!Item) /\ Len(s) = Len(Items)
       /\ \A j \in DOMAIN Items : s[j] = Items'[j]
  <2>1. \A j \in one : j = i
    OBVIOUS
  <2>2. DOMAIN s = DOMAIN Items
        /\ \A j \in DOMAIN Items :
              s[j] = Closed(Items[j], j \notin none \cup one, j \in one, j \in one)
    BY DEF D!CloseAll, Closed
  <2>3. ASSUME NEW j \in DOMAIN Items PROVE s[j] = Items'[j]
    <3>1. CASE j = i
      <4>1. s[j] = Closed(Items[i], FALSE, TRUE, TRUE)
        <5>1. (j \notin none \cup one) = FALSE /\ (j \in one) = TRUE
          BY <3>1
        <5> QED BY <3>1, <5>1, <2>2
      <4> QED BY <3>1, <4>1, <1>15
    <3>2. CASE j # i
      <4>1. PICK e \in D!Item : e = Items[j]
        BY <1>11, <1>17 DEF ItemsMatch
      <4>2. s[j] = Closed(e, TRUE, FALSE, FALSE)
        <5>1. (j \notin none \cup one) = TRUE /\ (j \in one) = FALSE
          BY <3>2
        <5> QED BY <4>1, <5>1, <2>2
      <4>3. Closed(e, TRUE, FALSE, FALSE) = e
        BY DEF Closed, D!Item
      <4> QED BY <3>2, <4>1, <4>2, <4>3, <1>14, <1>17
    <3> QED BY <3>1, <3>2
  <2>4. ASSUME NEW j \in DOMAIN Items PROVE s[j] \in D!Item
    BY <2>3, <1>11, <1>12, <1>17 DEF ItemsMatch
  <2>5. s = [j \in DOMAIN Items |-> s[j]]
    BY DEF D!CloseAll
  <2>6. s \in [1..Len(outbox) -> D!Item]
    BY <2>4, <2>5, <1>6, <1>17
  <2> HIDE DEF s
  <2>7. s \in Seq(D!Item) /\ Len(s) = Len(outbox)
    BY <2>6, <1>6
  <2> QED BY <2>3, <2>7, <1>17
<1> HIDE DEF s
<1>20. Items' = Append(s, new)
  BY <1>6, <1>16, <1>17, <1>18, <1>19, AppendIs
<1>21. ~Items[i].done
  BY <1>2, <1>11 DEF ItemsMatch
<1>22. D!Replace(i)
  BY <1>20, <1>21 DEF D!Replace, s, new
<1> QED BY <1>17, <1>22 DEF D!Next

LEMMA RetryMaps == ASSUME OInv, OInv', NEW i \in DOMAIN outbox, Retry(i) PROVE D!Next
<1> DEFINE q == With(outbox[i], "PENDING", 0, FALSE)
           r == [q EXCEPT !.retries = @ + 1]
           none == {}
<1>1. /\ outbox[i] \in Row /\ outbox[i].state \in {"FAILED", "UNKNOWN"} /\ UNCHANGED worker
      /\ outbox' = [outbox EXCEPT ![i] = r] /\ outbox[i].noted = FALSE
  BY RowsAreRows DEF OInv, Retry, Resolvable, RowOK, Row
<1>2. /\ q \in Row /\ q.chat = outbox[i].chat /\ q.kind = outbox[i].kind
      /\ q.owner = outbox[i].owner /\ q.delivered = outbox[i].delivered
      /\ q.retries = outbox[i].retries /\ q.state = "PENDING" /\ q.noted = FALSE
  BY <1>1 DEF With, Row, States
<1> HIDE DEF q
<1>3. /\ r \in Row /\ r.chat = outbox[i].chat /\ r.kind = outbox[i].kind
      /\ r.owner = outbox[i].owner /\ r.delivered = outbox[i].delivered
      /\ r.retries = outbox[i].retries + 1 /\ r.state = "PENDING" /\ r.noted = FALSE
  BY <1>2 DEF Row
<1> HIDE DEF r
<1>4. /\ DOMAIN outbox' = DOMAIN outbox /\ outbox'[i] = r /\ i \in Nat
      /\ \A j \in DOMAIN outbox : j # i => outbox'[j] = outbox[j]
  BY <1>1, RowsAreRows DEF OInv
<1>5. LicenceFacts /\ LicenceFacts' /\ ItemsMatch /\ ItemsMatch'
  BY Licences, NextLicences, ItemsAre, ItemsWillBe DEF OInv
<1>6. Licensed(i)'
  BY <1>3, <1>4, <1>5 DEF LicenceFacts
<1>7. CASE IsGroup(i)
  <2>1. Licensed(i)
    BY <1>1, <1>5, <1>7 DEF LicenceFacts
  <2>2. none \in SUBSET {i} /\ none \in SUBSET none /\ ~(none # {}) /\ none = {}
    OBVIOUS
  <2> HIDE DEF none
  <2>3. (r.state = "SENT") = (outbox[i].state = "SENT" \/ none # {})
    BY <1>1, <1>3, <2>2
  <2>4. r.noted = (outbox[i].noted \/ none # {})
    BY <1>1, <1>3, <2>2
  <2>5. Licensed(i)' <=> (Licensed(i) /\ none = {} /\ none = {})
    BY <1>6, <2>1, <2>2
  <2>6. none # {} => outbox[i].state # "SENT" /\ (outbox[i].delivered > 0 \/ none # {})
    BY <2>2
  <2> QED BY <1>1, <1>3, <1>7, <2>2, <2>3, <2>4, <2>5, <2>6, RowMaps
<1>8. CASE ~IsGroup(i)
  <2>1. ~Licensed(i)
    BY <1>1, <1>5, <1>8 DEF LicenceFacts
  <2>2. ASSUME NEW j \in DOMAIN outbox, j # i PROVE Items'[j] = Items[j]
    <3>1. outbox'[j] = outbox[j]
      BY <1>4, <2>2
    <3>2. Licensed(j)' = Licensed(j)
      BY <1>1, <1>4, <2>2, <3>1, LicencesKept
    <3> QED BY <1>4, <1>5, <3>1, <3>2, KeptItem
  <2>3. Items'[i] = [Items[i] EXCEPT !.licensed = TRUE, !.renewed = @ + 1]
    <3>1. PICK e \in D!Item, f \in D!Item : e = Items[i] /\ f = Items'[i]
      BY <1>4, <1>5 DEF ItemsMatch
    <3>2. /\ Items'[i].sent = outbox'[i].delivered /\ Items[i].sent = outbox[i].delivered
          /\ Items'[i].owner = outbox'[i].owner /\ Items[i].owner = outbox[i].owner
          /\ Items'[i].lane = <<outbox'[i].chat, IsGroup(i)'>>
          /\ Items[i].lane = <<outbox[i].chat, IsGroup(i)>>
          /\ Items'[i].renewed = IF IsGroup(i)' THEN 0 ELSE outbox'[i].retries
          /\ Items[i].renewed = IF IsGroup(i) THEN 0 ELSE outbox[i].retries
      BY <1>4, <1>5 DEF ItemsMatch
    <3>3. IsGroup(i)' = IsGroup(i) /\ ~IsGroup(i)'
      BY <1>3, <1>4, <1>8 DEF IsGroup
    <3>4. /\ f.lane = e.lane /\ f.owner = e.owner /\ f.sent = e.sent /\ f.renewed = e.renewed + 1
      BY <1>3, <1>4, <1>8, <3>1, <3>2, <3>3
    <3>5. f.licensed = TRUE
      <4>1. f.licensed = Licensed(i)'
        BY <1>4, <1>5, <3>1 DEF ItemsMatch
      <4> QED BY <1>6, <3>1, <4>1 DEF D!Item
    <3>6. f.done = FALSE /\ e.done = FALSE
      BY <1>1, <1>3, <1>4, <1>5, <3>1 DEF ItemsMatch
    <3>7. f.noted = FALSE /\ e.noted = FALSE
      BY <1>1, <1>3, <1>4, <1>5, <3>1 DEF ItemsMatch
    <3>8. f = [e EXCEPT !.licensed = TRUE, !.renewed = @ + 1]
      BY <3>4, <3>5, <3>6, <3>7 DEF D!Item
    <3> QED BY <3>1, <3>8
  <2>4. Items' = [Items EXCEPT ![i].licensed = TRUE, ![i].renewed = @ + 1]
    <3> DEFINE e == [Items[i] EXCEPT !.licensed = TRUE, !.renewed = @ + 1]
               F == [Items EXCEPT ![i] = e]
    <3>1. /\ DOMAIN Items' = DOMAIN Items /\ i \in DOMAIN Items /\ DOMAIN Items = DOMAIN outbox
          /\ Items' = [j \in DOMAIN Items' |-> Items'[j]]
          /\ Items = [j \in DOMAIN Items |-> Items[j]]
      BY <1>4, <1>5 DEF ItemsMatch
    <3>2. F = [Items EXCEPT ![i].licensed = TRUE, ![i].renewed = @ + 1]
      BY <3>1
    <3>3. Items'[i] = e
      BY <2>3
    <3> HIDE DEF e
    <3>4. \A j \in DOMAIN Items : Items'[j] = F[j]
      BY <3>1, <3>3, <2>2
    <3>5. F = [j \in DOMAIN Items |-> F[j]]
      BY <3>1
    <3>6. Items' = F
      BY <3>1, <3>4, <3>5
    <3> QED BY <3>2, <3>6
  <2>5. i \in DOMAIN Items /\ ~Items[i].done /\ ~Items[i].licensed
    BY <1>1, <1>5, <2>1 DEF ItemsMatch
  <2> QED BY <2>4, <2>5 DEF D!Next, D!Renew
<1> QED BY <1>7, <1>8

LEMMA RestartMaps == ASSUME OInv, OInv', NEW b \in Bots, Restart(b) PROVE D!Next
<1> DEFINE lapsed == { j \in DOMAIN outbox : outbox[j].state = "INFLIGHT" /\ ~IsGroup(j) }
           closed == { j \in DOMAIN outbox : outbox[j].state = "INFLIGHT" /\ outbox[j].kind = "photo" }
<1>1. /\ DOMAIN outbox' = DOMAIN outbox
      /\ \A j \in DOMAIN outbox : outbox'[j] = Repaired(outbox[j])
      /\ \A v \in Workers : worker'[v] = Idle
  BY DEF Restart
<1>2. LicenceFacts /\ LicenceFacts'
  BY Licences, NextLicences
<1>3. ASSUME NEW j \in DOMAIN outbox
      PROVE  /\ outbox'[j].chat = outbox[j].chat /\ outbox'[j].kind = outbox[j].kind
             /\ outbox'[j].owner = outbox[j].owner /\ outbox'[j].delivered = outbox[j].delivered
             /\ IsGroup(j) \/ outbox'[j].retries = outbox[j].retries
             /\ (outbox'[j].state = "SENT") = (outbox[j].state = "SENT" \/ j \in closed)
             /\ outbox'[j].noted = (outbox[j].noted \/ j \in closed)
             /\ Licensed(j)' = (Licensed(j) /\ j \notin lapsed \cup closed)
  <2>1. PICK r \in Row : r = outbox[j]
    BY RowsAreRows DEF OInv
  <2>2. PICK s \in Row : s = outbox'[j] /\ s = Repaired(r)
    BY <1>1, <2>1, RepairedType
  <2>3. /\ s.chat = r.chat /\ s.kind = r.kind /\ s.owner = r.owner
        /\ s.delivered = r.delivered /\ s.retries = r.retries
    BY <2>2, RepairedType
  <2>4. r.state # "INFLIGHT" => s = r
    BY <2>2, RepairedType
  <2>5. r.noted => r.state = "SENT"
    BY <2>1 DEF OInv, RowOK
  <2>6. r.state = "INFLIGHT" =>
          /\ r.kind \in GroupKinds => s.state = "PENDING" /\ s.noted = FALSE
          /\ r.kind = "photo" => s.state = "SENT" /\ s.noted = TRUE
          /\ r.kind \notin GroupKinds /\ r.kind # "photo" => s.state = "UNKNOWN" /\ s.noted = FALSE
    <3>1. r.due \in Nat /\ "photo" \notin GroupKinds
      BY DEF Row, GroupKinds
    <3>2. CASE r.state = "INFLIGHT" /\ r.kind \in GroupKinds
      <4>1. s = With(r, "PENDING", r.due, FALSE)
        BY <2>2, <3>2 DEF Repaired
      <4> QED BY <3>1, <3>2, <4>1 DEF With, Row
    <3>3. CASE r.state = "INFLIGHT" /\ r.kind = "photo"
      <4>1. s = With(r, "SENT", r.due, TRUE)
        BY <2>2, <3>1, <3>3 DEF Repaired
      <4> QED BY <3>1, <3>3, <4>1 DEF With, Row
    <3>4. CASE r.state = "INFLIGHT" /\ r.kind \notin GroupKinds /\ r.kind # "photo"
      <4>1. s = With(r, "UNKNOWN", r.due, FALSE)
        BY <2>2, <3>4 DEF Repaired
      <4> QED BY <3>4, <4>1 DEF With, Row
    <3> QED BY <3>2, <3>3, <3>4
  <2>7. (IsGroup(j) <=> r.kind \in GroupKinds) /\ (IsGroup(j)' <=> r.kind \in GroupKinds)
        /\ ("photo" \notin GroupKinds)
    BY <2>1, <2>2, <2>3 DEF IsGroup, GroupKinds
  <2>8. (j \in closed <=> r.state = "INFLIGHT" /\ r.kind = "photo")
        /\ (j \in lapsed <=> r.state = "INFLIGHT" /\ ~IsGroup(j))
    BY <2>1
  <2> HIDE DEF lapsed, closed
  <2>9. (s.state = "SENT") = (r.state = "SENT" \/ j \in closed)
    BY <2>4, <2>6, <2>8
  <2>10. s.noted = (r.noted \/ j \in closed)
    <3>1. r.noted \in BOOLEAN /\ s.noted \in BOOLEAN
      BY DEF Row
    <3>2. CASE r.state = "INFLIGHT"
      BY <3>1, <3>2, <2>5, <2>6, <2>8
    <3>3. CASE r.state # "INFLIGHT"
      BY <3>1, <3>3, <2>4, <2>8
    <3> QED BY <3>2, <3>3
  <2>11. Licensed(j)' <=> (Licensed(j) /\ j \notin lapsed \cup closed)
    <3>1. j \in DOMAIN outbox' /\ \A v \in Workers : worker'[v].row # j
      BY <1>1, IdleType, RowsAreRows DEF OInv
    <3>2. r.state \in {"PENDING", "INFLIGHT", "SENT", "FAILED", "UNKNOWN"}
      BY DEF Row, States
    <3>3. CASE IsGroup(j)
      BY <3>1, <3>3, <1>2, <2>1, <2>2, <2>4, <2>6, <2>7, <2>8 DEF LicenceFacts
    <3>4. CASE ~IsGroup(j) /\ r.state = "INFLIGHT"
      BY <3>1, <3>4, <1>2, <2>1, <2>2, <2>6, <2>7, <2>8 DEF LicenceFacts
    <3>5. CASE ~IsGroup(j) /\ r.state # "INFLIGHT"
      BY <3>1, <3>2, <3>5, <1>2, <2>1, <2>2, <2>4, <2>7, <2>8 DEF LicenceFacts
    <3> QED BY <3>3, <3>4, <3>5
  <2>12. Licensed(j)' = (Licensed(j) /\ j \notin lapsed \cup closed)
    BY <2>11 DEF Licensed
  <2> QED BY <2>1, <2>2, <2>3, <2>9, <2>10, <2>12
<1>4. \A j \in closed : outbox[j].state # "SENT" /\ (outbox[j].delivered > 0 \/ j \in closed)
  OBVIOUS
<1>5. lapsed \in SUBSET DOMAIN outbox /\ closed \in SUBSET DOMAIN outbox
  OBVIOUS
<1> HIDE DEF lapsed, closed
<1> QED BY <1>1, <1>3, <1>4, <1>5, CloseStep DEF OInv

LEMMA BindBotMaps == ASSUME OInv, OInv', NEW b \in Bots, BindBot(b) PROVE D!Next
<1> DEFINE old == OldBot(b)
<1>1. /\ old \in Bots /\ UNCHANGED worker /\ DOMAIN outbox' = DOMAIN outbox
      /\ old \in sessions => UNCHANGED outbox
      /\ old \notin sessions => sessions = {}
      /\ \A j \in DOMAIN outbox :
           /\ outbox'[j].chat = outbox[j].chat /\ outbox'[j].kind = outbox[j].kind
           /\ outbox'[j].card = outbox[j].card /\ outbox'[j].state = outbox[j].state
           /\ outbox'[j].delivered = outbox[j].delivered
           /\ outbox'[j].fresh = outbox[j].fresh /\ outbox'[j].noted = outbox[j].noted
           /\ outbox'[j].retries = outbox[j].retries
           /\ outbox'[j].owner = IF outbox[j].owner = NoBot THEN old ELSE outbox[j].owner
  BY BindEffect DEF BindBot
<1> HIDE DEF old
<1>2. CASE old \in sessions
  BY <1>1, <1>2, QuietMaps
<1>3. CASE old \notin sessions
  <2>1. \A j \in DOMAIN outbox : outbox[j].delivered = 0
    BY <1>1, <1>3 DEF OInv, BotsOK
  <2>2. ItemsMatch /\ ItemsMatch'
    BY ItemsAre, ItemsWillBe DEF OInv
  <2>3. ASSUME NEW j \in DOMAIN outbox
        PROVE  Items'[j] = IF Items[j].owner = NoBot THEN [Items[j] EXCEPT !.owner = old] ELSE Items[j]
    <3>1. PICK e \in D!Item, f \in D!Item : e = Items[j] /\ f = Items'[j]
      BY <1>1, <2>2 DEF ItemsMatch
    <3>2. /\ Items'[j].sent = outbox'[j].delivered /\ Items[j].sent = outbox[j].delivered
          /\ Items'[j].owner = outbox'[j].owner /\ Items[j].owner = outbox[j].owner
          /\ Items'[j].lane = <<outbox'[j].chat, IsGroup(j)'>>
          /\ Items[j].lane = <<outbox[j].chat, IsGroup(j)>>
          /\ Items'[j].renewed = IF IsGroup(j)' THEN 0 ELSE outbox'[j].retries
          /\ Items[j].renewed = IF IsGroup(j) THEN 0 ELSE outbox[j].retries
      BY <1>1, <2>2 DEF ItemsMatch
    <3>3. IsGroup(j)' = IsGroup(j)
      BY <1>1 DEF IsGroup
    <3>4. /\ f.lane = e.lane /\ f.sent = e.sent /\ f.renewed = e.renewed
          /\ f.owner = IF e.owner = NoBot THEN old ELSE e.owner
      BY <1>1, <3>1, <3>2, <3>3
    <3>5. f.licensed = e.licensed
      <4>1. j # 0
        BY RowsAreRows DEF OInv
      <4>2. Licensed(j)' = Licensed(j)
        BY <1>1, <4>1, LicencesKept
      <4>3. f.licensed = Licensed(j)' /\ e.licensed = Licensed(j)
        BY <1>1, <2>2, <3>1 DEF ItemsMatch
      <4> QED BY <3>1, <4>2, <4>3 DEF D!Item
    <3>6. f.done = e.done
      BY <1>1, <2>2, <3>1 DEF ItemsMatch
    <3>7. f.noted = e.noted
      BY <1>1, <2>2, <3>1 DEF ItemsMatch
    <3>8. f = IF e.owner = NoBot THEN [e EXCEPT !.owner = old] ELSE e
      BY <3>4, <3>5, <3>6, <3>7 DEF D!Item
    <3> QED BY <3>1, <3>8
  <2>4. Items' = [j \in DOMAIN Items |->
                    IF Items[j].owner = NoBot THEN [Items[j] EXCEPT !.owner = old] ELSE Items[j]]
    <3>1. DOMAIN Items' = DOMAIN outbox /\ DOMAIN Items = DOMAIN outbox
          /\ Items' = [j \in DOMAIN Items' |-> Items'[j]]
      BY <1>1, <2>2 DEF ItemsMatch
    <3> QED BY <2>3, <3>1
  <2>5. \A j \in DOMAIN Items : Items[j].sent = 0
    BY <2>1, <2>2 DEF ItemsMatch
  <2> QED BY <1>1, <2>4, <2>5 DEF D!Next, D!Adopt
<1> QED BY <1>2, <1>3

LEMMA InitMaps == Init => D!Init
<1> SUFFICES ASSUME Init PROVE D!Init
  OBVIOUS
<1> DEFINE B == [n \in DOMAIN OldRows |-> <<OldRows[n].chat, OldRows[n].kind \in GroupKinds>>]
<1>1. OInv /\ ItemsMatch
  BY InitOInv, ItemsAre DEF OInv
<1>2. DOMAIN outbox = DOMAIN OldRows
      /\ \A n \in DOMAIN OldRows :
           outbox[n] = NewRow(OldRows[n].chat, OldRows[n].kind, OldRows[n].card, NoBot)
  BY DEF Init
<1>3. DOMAIN B = DOMAIN OldRows
  OBVIOUS
<1>4. ASSUME NEW n \in DOMAIN OldRows PROVE Items[n] = D!NewItem(B[n], NoBot)
  <2>1. /\ outbox[n].state = "PENDING" /\ outbox[n].noted = FALSE /\ outbox[n].chat = OldRows[n].chat
        /\ outbox[n].owner = NoBot /\ outbox[n].delivered = 0 /\ outbox[n].retries = 0
        /\ outbox[n].kind = OldRows[n].kind
    BY <1>2 DEF NewRow
  <2>2. PICK f \in D!Item : f = Items[n]
    BY <1>1, <1>2 DEF ItemsMatch
  <2>3. f.owner = NoBot /\ f.sent = 0 /\ f.renewed = 0 /\ f.noted = FALSE
    BY <1>1, <1>2, <2>1, <2>2 DEF ItemsMatch
  <2>4. f.done = FALSE
    BY <1>1, <1>2, <2>1, <2>2 DEF ItemsMatch
  <2>5. f.licensed = TRUE
    <3>1. Licensed(n)
      BY <2>1 DEF Licensed
    <3>2. f.licensed = Licensed(n)
      BY <1>1, <1>2, <2>2 DEF ItemsMatch
    <3> QED BY <2>2, <3>1, <3>2 DEF D!Item
  <2>6. f.lane = B[n]
    <3>1. IsGroup(n) = (OldRows[n].kind \in GroupKinds)
      BY <2>1 DEF IsGroup
    <3>2. f.lane = <<outbox[n].chat, IsGroup(n)>>
      BY <1>1, <1>2, <2>2 DEF ItemsMatch
    <3> QED BY <2>1, <3>1, <3>2
  <2> HIDE DEF B
  <2>7. f = D!NewItem(B[n], NoBot)
    BY <2>3, <2>4, <2>5, <2>6 DEF D!NewItem, D!Item
  <2> QED BY <2>2, <2>7
<1>5. Items = [n \in DOMAIN B |-> D!NewItem(B[n], NoBot)]
  <2>1. DOMAIN Items = DOMAIN OldRows /\ Items = [j \in DOMAIN Items |-> Items[j]]
    BY <1>1, <1>2 DEF ItemsMatch
  <2> HIDE DEF B
  <2> QED BY <1>3, <1>4, <2>1
<1> QED BY <1>5 DEF D!Init

LEMMA NextMaps == ASSUME OInv, OInv', [Next]_vars PROVE [D!Next]_Items
<1>1. CASE UNCHANGED vars
  BY <1>1, QuietMaps DEF vars
<1>2. ASSUME NEW chat \in Chats, NEW kind \in Kinds, NEW card \in Cards \cup {NoCard},
             Enqueue(chat, kind, card)
      PROVE  D!Next
  BY <1>2, EnqueueMaps
<1>3. ASSUME NEW w \in Workers, Work(w) PROVE D!Next
  BY <1>3, ClaimMaps, GiveUpMaps, DeferMaps, PhaseMaps, TransmitMaps, RateLimitMaps,
     CompleteSentMaps, CompleteUnsentMaps, CompleteFailedMaps, CompletePhotoMaps, FallbackMaps
     DEF Work, Send, Record
<1>4. ASSUME NEW w \in Workers, LocalFailure(w) PROVE D!Next
  BY <1>4, LocalFailureMaps
<1>5. CASE Operator
  BY <1>5, RetryMaps, AckMaps, SkipMaps DEF Operator
<1>6. ASSUME NEW b \in Bots, Restart(b) \/ BindBot(b) PROVE D!Next
  BY <1>6, RestartMaps, BindBotMaps
<1>7. CASE Disconnect \/ Tick
  BY <1>7, DisconnectMaps, TickMaps
<1> QED BY <1>1, <1>2, <1>3, <1>4, <1>5, <1>6, <1>7 DEF Next

(* Whatever the number of bots, chats, workers, messages, failures and      *)
(* restarts, the outbox keeps the promise of module Delivery: each of its   *)
(* steps is one that promise allows, or is not seen through it.             *)
THEOREM OutboxKeepsPromise == Spec => ImplementsDelivery
<1>1. ASSUME OInv, OInv', [Next]_vars PROVE [D!Next]_Items
  BY <1>1, NextMaps
<1> QED BY <1>1, InitMaps, OutboxInvariant, PTL DEF Spec, ImplementsDelivery, D!Spec

(* What is proved of Delivery, of the outbox. *)
DP == INSTANCE DeliveryProofs WITH
        items <- Items, Lanes <- Chats \X BOOLEAN,
        Backlog <- [n \in DOMAIN OldRows |-> <<OldRows[n].chat, OldRows[n].kind \in GroupKinds>>]

LEMMA PromiseAssumption == DP!DeliveryAssumption
<1>1. OldRows \in [1..Len(OldRows) -> [chat : Chats, kind : MessageKinds \cup GroupKinds,
                                       card : Cards \cup {NoCard}]]
      /\ Len(OldRows) \in Nat /\ DOMAIN OldRows = 1..Len(OldRows)
  BY OldRowsAssumption, LenProperties
<1> DEFINE B == [n \in DOMAIN OldRows |-> <<OldRows[n].chat, OldRows[n].kind \in GroupKinds>>]
<1>2. ASSUME NEW n \in 1..Len(OldRows)
      PROVE  <<OldRows[n].chat, OldRows[n].kind \in GroupKinds>> \in Chats \X BOOLEAN
  <2> DEFINE g == OldRows[n].kind \in GroupKinds
  <2>1. g \in BOOLEAN /\ OldRows[n].chat \in Chats
    BY <1>1
  <2> HIDE DEF g
  <2>2. <<OldRows[n].chat, g>> \in Chats \X BOOLEAN
    BY <2>1
  <2> QED BY <2>2 DEF g
<1>3. B \in [1..Len(OldRows) -> Chats \X BOOLEAN]
  BY <1>1, <1>2
<1> HIDE DEF B
<1>4. B \in Seq(Chats \X BOOLEAN)
  BY <1>1, <1>3
<1> QED BY <1>4, OutboxAssumption DEF DP!DeliveryAssumption, B

LEMMA SamePromise == D!Spec => DP!Spec
BY DEF D!Spec, D!Init, D!Next, D!Produce, D!Adopt, D!Deliver, D!Replace, D!Renew, D!Close,
       D!CloseAll, D!NewItem, D!Earlier, D!SameStream,
       DP!Spec, DP!Init, DP!Next, DP!Produce, DP!Adopt, DP!Deliver, DP!Replace, DP!Renew, DP!Close,
       DP!CloseAll, DP!NewItem, DP!Earlier, DP!SameStream

(* A message is transmitted once, and once more only after an operator's    *)
(* word (schema.go:121: an interrupted send is not blindly repeated).       *)
THEOREM OutboxSendsOnce == Spec => []D!AtMostOnce
<1>1. DP!Spec => []DP!AtMostOnce
  BY PromiseAssumption, DP!TransmittedAtMostOnce
<1>2. DP!AtMostOnce => D!AtMostOnce
  BY DEF D!AtMostOnce, DP!AtMostOnce
<1> QED BY <1>1, <1>2, SamePromise, OutboxKeepsPromise, PTL DEF ImplementsDelivery

(* Nothing of a chat and bot leaves while an earlier message of theirs is   *)
(* unsettled (the claim query of outbox.go).                                *)
THEOREM OutboxSendsInOrder == Spec => []D!InOrder
<1>1. DP!Spec => []DP!InOrder
  BY PromiseAssumption, DP!TransmittedInOrder
<1>2. DP!InOrder => D!InOrder
  BY DEF D!InOrder, DP!InOrder, D!Earlier, DP!Earlier, D!SameStream, DP!SameStream
<1> QED BY <1>1, <1>2, SamePromise, OutboxKeepsPromise, PTL DEF ImplementsDelivery

(* What left the outbox was transmitted, or an operator can read why not.   *)
THEOREM OutboxLosesNothing == Spec => []D!NothingLostSilently
<1>1. DP!Spec => []DP!NothingLostSilently
  BY PromiseAssumption, DP!NothingVanishes
<1>2. DP!NothingLostSilently => D!NothingLostSilently
  BY DEF D!NothingLostSilently, DP!NothingLostSilently
<1> QED BY <1>1, <1>2, SamePromise, OutboxKeepsPromise, PTL DEF ImplementsDelivery

-----------------------------------------------------------------------------
(* Round cards *)

(* Whether a row was posted as a message of its own does not change, and   *)
(* what is sent anew can be edited: the cards stay in order.               *)
LEMMA CardsKept ==
  ASSUME OInv, CardInv, SameRows, UNCHANGED <<bot, botCards>>, cards \subseteq cards',
         \A j \in DOMAIN outbox : outbox'[j].fresh = outbox[j].fresh,
         \A j \in DOMAIN outbox' \ DOMAIN outbox : ~outbox'[j].fresh,
         \A j \in DOMAIN outbox :
           outbox'[j].state = "SENT" /\ outbox[j].state # "SENT" /\ outbox[j].card # NoCard
           => outbox[j].owner = bot /\ outbox[j].card \in cards',
         \A v \in Workers :
           worker'[v].phase \in {"claimed", "paced", "ready"}
           => /\ worker[v].phase \in {"claimed", "paced", "ready"}
              /\ worker'[v].row = worker[v].row /\ worker'[v].edit = worker[v].edit
  PROVE  CardInv'
<1>1. DOMAIN outbox = 1..Len(outbox) /\ Len(outbox) \in Nat
  BY RowsAreRows DEF OInv
<1>2. ASSUME NEW j \in DOMAIN outbox', outbox'[j].fresh, outbox'[j].state = "SENT",
             outbox'[j].card # NoCard
      PROVE  outbox'[j].card \in CardsOf(outbox[j].owner)'
  <2>1. j \in DOMAIN outbox
    BY <1>2
  <2>2. /\ outbox'[j].card = outbox[j].card /\ outbox'[j].owner = outbox[j].owner /\ outbox[j].fresh
    BY <1>2, <2>1 DEF SameRows
  <2>3. CASE outbox[j].state = "SENT"
    <3>1. outbox[j].card \in CardsOf(outbox[j].owner)
      BY <1>2, <2>1, <2>2, <2>3 DEF CardInv
    <3> QED BY <2>2, <3>1 DEF CardsOf
  <2>4. CASE outbox[j].state # "SENT"
    BY <1>2, <2>1, <2>2, <2>4 DEF CardsOf
  <2> QED BY <2>3, <2>4
<1>3. ASSUME NEW v \in Workers, worker'[v].phase \in {"claimed", "paced", "ready"}, ~worker'[v].edit,
             Held(v)'.card # NoCard, NEW j \in 1..(worker'[v].row - 1),
             outbox'[j].card = Held(v)'.card, SameOwner(j, worker[v].row)'
      PROVE  ~outbox'[j].fresh
  <2>1. /\ worker[v].phase \in {"claimed", "paced", "ready"} /\ ~worker[v].edit
        /\ worker'[v].row = worker[v].row
    BY <1>3
  <2>2. PICK i \in DOMAIN outbox : i = worker[v].row
    BY <2>1, HeldFacts
  <2>3. j \in DOMAIN outbox /\ j \in 1..(i - 1) /\ Held(v) = outbox[i] /\ Held(v)' = outbox'[i]
    BY <1>1, <1>3, <2>1, <2>2 DEF Held
  <2>4. /\ outbox'[i].card = outbox[i].card /\ outbox'[i].owner = outbox[i].owner
        /\ outbox'[j].card = outbox[j].card /\ outbox'[j].owner = outbox[j].owner
        /\ outbox'[j].fresh = outbox[j].fresh
    BY <2>2, <2>3 DEF SameRows
  <2>5. outbox'[j].owner = outbox'[i].owner
    BY <1>3, <2>1, <2>2 DEF SameOwner
  <2>6. SameOwner(j, i)
    BY <2>4, <2>5 DEF SameOwner
  <2> QED BY <1>3, <2>1, <2>2, <2>3, <2>4, <2>6 DEF CardInv
<1>4. PostedOnce'
  <2> SUFFICES ASSUME NEW i \in DOMAIN outbox', NEW j \in DOMAIN outbox' \ {i}, OfOneCard(i, j)',
                      outbox'[i].fresh, outbox'[j].fresh
               PROVE  FALSE
    BY DEF PostedOnce
  <2>1. i \in DOMAIN outbox /\ j \in DOMAIN outbox
    OBVIOUS
  <2> QED BY <2>1 DEF CardInv, PostedOnce, OfOneCard, SameRows, SameOwner
<1>5. ASSUME NEW v \in Workers, worker'[v].phase \in {"claimed", "paced", "ready"}, ~worker'[v].edit,
             Held(v)'.card # NoCard
      PROVE  \A j \in 1..(worker'[v].row - 1) :
               outbox'[j].card = Held(v)'.card /\ SameOwner(j, worker[v].row)' => ~outbox'[j].fresh
  BY <1>3, <1>5
<1> QED BY <1>2, <1>4, <1>5 DEF CardInv

(* One row is rewritten. *)
LEMMA RowCards ==
  ASSUME OInv, CardInv, NEW i \in DOMAIN outbox, NEW r \in Row, outbox' = [outbox EXCEPT ![i] = r],
         outbox[i].state # "SENT",
         r.chat = outbox[i].chat, r.kind = outbox[i].kind, r.card = outbox[i].card,
         r.owner = outbox[i].owner, r.fresh = outbox[i].fresh,
         r.state = "SENT" /\ r.card # NoCard => outbox[i].owner = bot /\ r.card \in cards',
         UNCHANGED <<bot, botCards>>, cards \subseteq cards',
         \A v \in Workers :
           worker'[v].phase \in {"claimed", "paced", "ready"}
           => /\ worker[v].phase \in {"claimed", "paced", "ready"}
              /\ worker'[v].row = worker[v].row /\ worker'[v].edit = worker[v].edit
  PROVE  CardInv'
<1>1. /\ DOMAIN outbox' = DOMAIN outbox /\ outbox'[i] = r
      /\ \A j \in DOMAIN outbox : j # i => outbox'[j] = outbox[j]
  BY RowsAreRows DEF OInv
<1>2. SameRows
  BY <1>1 DEF SameRows
<1>3. \A j \in DOMAIN outbox : outbox'[j].fresh = outbox[j].fresh
  BY <1>1
<1>4. \A j \in DOMAIN outbox :
        outbox'[j].state = "SENT" /\ outbox[j].state # "SENT" /\ outbox[j].card # NoCard
        => outbox[j].owner = bot /\ outbox[j].card \in cards'
  BY <1>1
<1> QED BY <1>1, <1>2, <1>3, <1>4, CardsKept

LEMMA ReleaseCards ==
  ASSUME OInv, CardInv, NEW w \in Workers, worker[w].phase # "idle", NEW r \in Row, Release(w, r),
         r.chat = Held(w).chat, r.kind = Held(w).kind, r.card = Held(w).card,
         r.owner = Held(w).owner, r.fresh = Held(w).fresh,
         r.state = "SENT" /\ r.card # NoCard => r.card \in cards',
         UNCHANGED <<bot, botCards>>, cards \subseteq cards'
  PROVE  CardInv'
<1>1. PICK i \in DOMAIN outbox : i = worker[w].row /\ Held(w) = outbox[i]
        /\ outbox[i].state = "INFLIGHT" /\ outbox[i].owner = bot
  BY HeldFacts, ZenonT(40)
<1>2. outbox' = [outbox EXCEPT ![i] = r] /\ worker' = [worker EXCEPT ![w] = Idle]
  BY <1>1 DEF Release
<1>3. worker'[w] = Idle /\ \A v \in Workers \ {w} : worker'[v] = worker[v]
  BY <1>2, WorkersAreWorkers DEF OInv
<1>4. \A v \in Workers :
        worker'[v].phase \in {"claimed", "paced", "ready"}
        => /\ worker[v].phase \in {"claimed", "paced", "ready"}
           /\ worker'[v].row = worker[v].row /\ worker'[v].edit = worker[v].edit
  BY <1>3, IdleType DEF OInv
<1> QED BY <1>1, <1>2, <1>4, RowCards

LEMMA WithCards ==
  ASSUME OInv, CardInv, NEW w \in Workers, worker[w].phase # "idle",
         NEW state \in States, NEW due \in Nat, NEW note \in BOOLEAN,
         Release(w, With(Held(w), state, due, note)),
         state = "SENT" /\ Held(w).card # NoCard => Held(w).card \in cards',
         UNCHANGED <<bot, botCards>>, cards \subseteq cards'
  PROVE  CardInv'
<1> DEFINE r == With(Held(w), state, due, note)
<1>1. Held(w) \in Row
  BY HeldFacts
<1>2. /\ r \in Row /\ r.chat = Held(w).chat /\ r.kind = Held(w).kind /\ r.card = Held(w).card
      /\ r.owner = Held(w).owner /\ r.fresh = Held(w).fresh /\ r.state = state
  BY <1>1, WithType
<1> HIDE DEF r
<1> QED BY <1>2, ReleaseCards DEF r

(* Only a text has a card. *)
LEMMA CardsAreTexts ==
  ASSUME OInv, NEW i \in DOMAIN outbox, outbox[i].kind # "text"
  PROVE  outbox[i].card = NoCard
BY DEF OInv, RowOK

(* What a worker hands back was not sent, as far as the table says. *)
HandsBack(w, r) ==
  /\ Release(w, r) /\ r.state # "SENT"
  /\ r.chat = Held(w).chat /\ r.kind = Held(w).kind /\ r.card = Held(w).card
  /\ r.owner = Held(w).owner /\ r.fresh = Held(w).fresh /\ r.delivered = Held(w).delivered

LEMMA HandsBackWith ==
  ASSUME NEW w \in Workers, Held(w) \in Row, NEW state \in States \ {"SENT"}, NEW due \in Nat,
         NEW note \in BOOLEAN, Release(w, With(Held(w), state, due, note))
  PROVE  \E r \in Row : HandsBack(w, r)
<1> DEFINE r == With(Held(w), state, due, note)
<1>1. /\ r \in Row /\ r.chat = Held(w).chat /\ r.kind = Held(w).kind /\ r.card = Held(w).card
      /\ r.owner = Held(w).owner /\ r.fresh = Held(w).fresh /\ r.delivered = Held(w).delivered
      /\ r.state = state
  BY WithType
<1>2. Release(w, r)
  OBVIOUS
<1> HIDE DEF r
<1>3. HandsBack(w, r)
  BY <1>1, <1>2 DEF HandsBack
<1> QED BY <1>1, <1>3

LEMMA HandedBack ==
  ASSUME OInv, NEW w \in Workers,
         GiveUp(w) \/ Defer(w) \/ RateLimit(w) \/ CompleteUnsent(w) \/ CompleteFailed(w)
  PROVE  /\ worker[w].phase # "idle" /\ UNCHANGED <<bot, cards, botCards>>
         /\ \E r \in Row : HandsBack(w, r)
<1>1. UNCHANGED <<bot, cards, botCards>> /\ worker[w].phase # "idle"
  BY DEF GiveUp, Defer, RateLimit, CompleteUnsent, CompleteFailed, Answered, tables
<1>2. Held(w) \in Row /\ Held(w).due \in Nat /\ pause \in Nat
  <2>1. Held(w) \in Row
    BY <1>1, HeldFacts
  <2>2. pause \in Nat
    BY WaitBounds DEF OInv, TypeOK
  <2> QED BY <2>1, <2>2 DEF Row
<1>3. CASE GiveUp(w) \/ CompleteUnsent(w)
  BY <1>1, <1>2, <1>3, HandsBackWith DEF GiveUp, CompleteUnsent, States
<1>4. CASE CompleteFailed(w)
  <2>1. PICK state \in {"FAILED", "UNKNOWN"} : Release(w, With(Held(w), state, 0, FALSE))
    BY <1>4 DEF CompleteFailed
  <2> QED BY <1>1, <1>2, <2>1, HandsBackWith DEF States
<1>5. CASE RateLimit(w)
  <2> DEFINE until == Max({pause, worker[w].wait + 1})
  <2>1. Release(w, With(Held(w), "PENDING", until, TRUE))
    BY <1>5 DEF RateLimit
  <2>2. worker[w].wait \in Nat
    BY WaitBounds DEF OInv, WorkerOK
  <2>3. worker[w].wait + 1 \in Nat
    BY <2>2
  <2>4. until \in Nat
    BY <1>2, <2>3, MaxInNat
  <2> HIDE DEF until
  <2> QED BY <1>1, <1>2, <2>1, <2>4, HandsBackWith DEF States
<1>6. CASE Defer(w)
  <2> DEFINE due == Max({Held(w).due, pause})
             r == With(Held(w), "PENDING", due, FALSE)
             s == [r EXCEPT !.attempts = IF @ = 0 THEN 0 ELSE @ - 1]
  <2>1. Release(w, s)
    BY <1>6 DEF Defer
  <2>2. due \in Nat
    BY <1>2, MaxInNat
  <2> HIDE DEF due
  <2>3. /\ r \in Row /\ r.chat = Held(w).chat /\ r.kind = Held(w).kind /\ r.card = Held(w).card
        /\ r.owner = Held(w).owner /\ r.fresh = Held(w).fresh /\ r.delivered = Held(w).delivered
        /\ r.state = "PENDING"
    BY <1>2, <2>2 DEF With, Row, States
  <2> HIDE DEF r
  <2>4. /\ s \in Row /\ s.chat = r.chat /\ s.kind = r.kind /\ s.card = r.card
        /\ s.owner = r.owner /\ s.fresh = r.fresh /\ s.delivered = r.delivered
        /\ s.state = r.state
    <3>1. r.attempts \in 0..GiveUpAfter /\ GiveUpAfter \in Nat
      BY <2>3, OutboxAssumption DEF Row
    <3> QED BY <2>3, <3>1 DEF Row
  <2> HIDE DEF s
  <2>5. HandsBack(w, s)
    BY <2>1, <2>3, <2>4 DEF HandsBack
  <2> QED BY <1>1, <2>4, <2>5
<1> QED BY <1>3, <1>4, <1>5, <1>6

LEMMA HandedBackCards ==
  ASSUME OInv, CardInv, NEW w \in Workers,
         GiveUp(w) \/ Defer(w) \/ RateLimit(w) \/ CompleteUnsent(w) \/ CompleteFailed(w)
  PROVE  CardInv'
<1>1. PICK r \in Row : HandsBack(w, r)
  BY HandedBack
<1>2. worker[w].phase # "idle" /\ UNCHANGED <<bot, cards, botCards>>
  BY HandedBack
<1> QED BY <1>1, <1>2, ReleaseCards DEF HandsBack

LEMMA SentCards ==
  ASSUME OInv, CardInv, NEW w \in Workers, CompleteSent(w)
  PROVE  CardInv'
<1> DEFINE note == worker[w].answer = "same"
<1>1. /\ worker[w].phase # "idle" /\ Release(w, With(Held(w), "SENT", Cooldown, note))
      /\ cards' = cards \cup ({Held(w).card} \ {NoCard}) /\ UNCHANGED <<bot, botCards>>
  BY DEF CompleteSent, Answered
<1>2. note \in BOOLEAN /\ Cooldown \in Nat
  BY OutboxAssumption
<1> HIDE DEF note
<1> QED BY <1>1, <1>2, WithCards DEF States

LEMMA DroppedCards ==
  ASSUME OInv, CardInv, NEW w \in Workers, CompletePhoto(w) \/ Fallback(w)
  PROVE  CardInv'
<1>1. PICK i \in DOMAIN outbox : i = worker[w].row /\ Held(w) = outbox[i]
  BY HeldFacts DEF CompletePhoto, Fallback, Answered
<1>2. worker[w].phase # "idle" /\ outbox[i].card = NoCard /\ UNCHANGED <<bot, cards, botCards>>
  BY <1>1, CardsAreTexts DEF CompletePhoto, Fallback, Answered, tables
<1>3. CASE CompletePhoto(w)
  BY <1>1, <1>2, <1>3, WithCards DEF CompletePhoto, States
<1>4. CASE Fallback(w)
  <2> DEFINE r == With(outbox[i], "SENT", outbox[i].due, TRUE)
             f == [outbox EXCEPT ![i] = r]
             x == NewRow(outbox[i].chat, "text", NoCard, bot)
  <2>1. /\ outbox[i] \in Row /\ outbox[i].state = "INFLIGHT" /\ bot \in Bots /\ outbox[i].chat \in Chats
    BY <1>1, <1>2, HeldFacts DEF Row
  <2>2. /\ r \in Row /\ r.chat = outbox[i].chat /\ r.kind = outbox[i].kind /\ r.card = outbox[i].card
        /\ r.owner = outbox[i].owner /\ r.fresh = outbox[i].fresh /\ r.state = "SENT"
    BY <2>1 DEF With, Row, States
  <2>3. outbox' = Append(f, x) /\ worker' = [worker EXCEPT ![w] = Idle]
    BY <1>1, <1>4 DEF Fallback
  <2>4. x \in Row /\ ~x.fresh
    <3>1. "text" \in MessageKinds \cup GroupKinds /\ NoCard \in Cards \cup {NoCard}
          /\ bot \in Bots \cup {NoBot}
      BY <2>1 DEF MessageKinds
    <3> QED BY <2>1, <3>1, NewRowType DEF NewRow
  <2> HIDE DEF r, x
  <2>5. /\ DOMAIN outbox = 1..Len(outbox) /\ Len(outbox) \in Nat
        /\ f \in [DOMAIN outbox -> Row] /\ f[i] = r /\ \A j \in DOMAIN outbox \ {i} : f[j] = outbox[j]
    BY <2>2, RowsAreRows DEF OInv
  <2>6. f \in Seq(Row) /\ Len(f) = Len(outbox)
    BY <2>5, RowsUpdate DEF OInv
  <2> HIDE DEF f
  <2>7. /\ DOMAIN outbox' = 1..(Len(outbox) + 1) /\ outbox'[Len(outbox) + 1] = x
        /\ \A j \in DOMAIN outbox : outbox'[j] = f[j]
    <3>1. x \in Row
      BY <2>4
    <3> QED BY <2>3, <3>1, <2>5, <2>6, RowsAppend
  <2>8. SameRows
    BY <2>2, <2>5, <2>7 DEF SameRows
  <2>9. \A j \in DOMAIN outbox : outbox'[j].fresh = outbox[j].fresh
    BY <2>2, <2>5, <2>7
  <2>10. \A j \in DOMAIN outbox' \ DOMAIN outbox : ~outbox'[j].fresh
    BY <2>4, <2>5, <2>7
  <2>11. \A j \in DOMAIN outbox :
           outbox'[j].state = "SENT" /\ outbox[j].state # "SENT" /\ outbox[j].card # NoCard
           => outbox[j].owner = bot /\ outbox[j].card \in cards'
    BY <1>2, <2>5, <2>7
  <2>12. worker'[w] = Idle /\ \A v \in Workers \ {w} : worker'[v] = worker[v]
    BY <2>3, WorkersAreWorkers DEF OInv
  <2>13. \A v \in Workers :
           worker'[v].phase \in {"claimed", "paced", "ready"}
           => /\ worker[v].phase \in {"claimed", "paced", "ready"}
              /\ worker'[v].row = worker[v].row /\ worker'[v].edit = worker[v].edit
    BY <2>12, IdleType DEF OInv
  <2> QED BY <1>2, <2>8, <2>9, <2>10, <2>11, <2>13, CardsKept
<1> QED BY <1>3, <1>4

LEMMA SettledCards ==
  ASSUME OInv, CardInv, NEW i \in DOMAIN outbox, Retry(i) \/ Ack(i) \/ Skip(i)
  PROVE  CardInv'
<1>1. /\ outbox[i] \in Row /\ outbox[i].state \in {"FAILED", "UNKNOWN"} /\ outbox[i].owner = bot
      /\ UNCHANGED <<bot, botCards, worker>> /\ outbox[i].due \in Nat
  BY RowsAreRows DEF OInv, Retry, Ack, Skip, Resolvable, Active, tables, Row
<1>2. CASE Ack(i) \/ Skip(i)
  <2> DEFINE r == With(outbox[i], "SENT", outbox[i].due, TRUE)
  <2>1. /\ r \in Row /\ r.chat = outbox[i].chat /\ r.kind = outbox[i].kind /\ r.card = outbox[i].card
        /\ r.owner = outbox[i].owner /\ r.fresh = outbox[i].fresh
    BY <1>1 DEF With, Row, States
  <2>2. outbox' = [outbox EXCEPT ![i] = r]
    BY <1>2 DEF Ack, Skip
  <2> HIDE DEF r
  <2>3. (r.card # NoCard => r.card \in cards') /\ cards \subseteq cards'
    BY <1>2, <2>1 DEF Ack, Skip, tables
  <2> QED BY <1>1, <2>1, <2>2, <2>3, RowCards
<1>3. CASE Retry(i)
  <2> DEFINE q == With(outbox[i], "PENDING", 0, FALSE)
             r == [q EXCEPT !.retries = @ + 1]
  <2>1. outbox' = [outbox EXCEPT ![i] = r] /\ UNCHANGED cards
    BY <1>3 DEF Retry, tables
  <2>2. /\ q \in Row /\ q.chat = outbox[i].chat /\ q.kind = outbox[i].kind /\ q.card = outbox[i].card
        /\ q.owner = outbox[i].owner /\ q.fresh = outbox[i].fresh /\ q.state = "PENDING"
    BY <1>1 DEF With, Row, States
  <2> HIDE DEF q
  <2>3. /\ r \in Row /\ r.chat = q.chat /\ r.kind = q.kind /\ r.card = q.card
        /\ r.owner = q.owner /\ r.fresh = q.fresh /\ r.state = q.state
    BY <2>2 DEF Row
  <2> HIDE DEF r
  <2> QED BY <1>1, <2>1, <2>2, <2>3, RowCards
<1> QED BY <1>2, <1>3

(* Steps that write no row but its time, or add one, or stop the workers. *)
LEMMA QuietCards ==
  ASSUME OInv, CardInv, UNCHANGED <<bot, cards, botCards>>, SameRows,
         \A j \in DOMAIN outbox : /\ outbox'[j].fresh = outbox[j].fresh
                                  /\ outbox'[j].state = outbox[j].state \/ outbox[j].card = NoCard
                                     \/ outbox'[j].state # "SENT",
         \A j \in DOMAIN outbox' \ DOMAIN outbox : ~outbox'[j].fresh,
         \A v \in Workers : \/ worker'[v] = worker[v] \/ worker'[v] = Idle
                            \/ \E to \in {"paced", "ready"} :
                                 /\ worker'[v] = [worker[v] EXCEPT !.phase = to]
                                 /\ worker[v].phase \in {"claimed", "paced"}
  PROVE  CardInv'
<1>1. \A v \in Workers :
           worker'[v].phase \in {"claimed", "paced", "ready"}
           => /\ worker[v].phase \in {"claimed", "paced", "ready"}
              /\ worker'[v].row = worker[v].row /\ worker'[v].edit = worker[v].edit
  BY IdleType, WorkersAreWorkers DEF OInv, WorkerType
<1> QED BY <1>1, CardsKept

(* Rows of one card and one bot are in one queue. *)
LEMMA CardsShareLanes ==
  ASSUME OInv, NEW i \in DOMAIN outbox, NEW j \in DOMAIN outbox,
         outbox[i].card # NoCard, outbox[i].card = outbox[j].card
  PROVE  SameLane(i, j) /\ ~IsGroup(i) /\ ~IsGroup(j)
<1>1. outbox[i].kind = "text" /\ outbox[j].kind = "text" /\ outbox[i].chat = outbox[j].chat
  BY DEF OInv, RowOK
<1> QED BY <1>1 DEF SameLane, IsGroup, GroupKinds

(* What was posted was posted after everything before it was over. *)
LEMMA PostedInOrder ==
  ASSUME OInv, D!InOrder, NEW i \in DOMAIN outbox, NEW j \in DOMAIN outbox, i < j,
         outbox[i].card # NoCard, outbox[i].card = outbox[j].card, SameOwner(i, j),
         outbox[j].fresh
  PROVE  outbox[i].state = "SENT"
<1>1. ItemsMatch /\ i \in 1..(j - 1)
  BY ItemsAre, RowsAreRows DEF OInv
<1>2. outbox[i].chat = outbox[j].chat /\ IsGroup(i) = IsGroup(j)
  <2>1. (~IsGroup(i) /\ ~IsGroup(j)) /\ SameLane(i, j)
    BY CardsShareLanes
  <2>2. IsGroup(i) \in BOOLEAN /\ IsGroup(j) \in BOOLEAN
    BY DEF IsGroup
  <2> QED BY <2>1, <2>2 DEF SameLane
<1>3. i \in D!Earlier(j)
  BY <1>1, <1>2 DEF D!Earlier, D!SameStream, ItemsMatch, SameOwner
<1>4. Items[j].sent > 0
  BY <1>1 DEF ItemsMatch, OInv, RowOK
<1>5. Items[i].done
  BY <1>1, <1>3, <1>4 DEF D!InOrder, ItemsMatch
<1> QED BY <1>1, <1>5 DEF ItemsMatch

LEMMA ClaimCards == ASSUME OInv, CardInv, NEW w \in Workers, Claim(w) PROVE CardInv'
<1>1. PICK i \in DOMAIN outbox : i = NextRow /\ i \in Claimable
  BY NextRowWaits DEF Claim, OInv
<1>2. /\ outbox[i] \in Row /\ outbox[i].state = "PENDING" /\ outbox[i].owner = bot
      /\ ~Blocked(i) /\ i \in Nat /\ DOMAIN outbox = 1..Len(outbox) /\ Len(outbox) \in Nat
  BY <1>1, RowsAreRows DEF Claimable, Active, OInv
<1> DEFINE n == IF IsGroup(i) THEN Min({outbox[i].attempts + 1, GiveUpAfter})
                ELSE outbox[i].attempts
           r == [outbox[i] EXCEPT !.state = "INFLIGHT", !.attempts = n]
           edit == outbox[i].card \in cards
           held == [Idle EXCEPT !.phase = "claimed", !.row = i, !.edit = edit]
<1>3. outbox' = [outbox EXCEPT ![i] = r]
  BY <1>1, <1>2 DEF Claim
<1>4. worker' = [worker EXCEPT ![w] = held] /\ UNCHANGED <<bot, cards, botCards>>
  BY <1>1 DEF Claim, tables
<1>5. /\ r.card = outbox[i].card /\ r.owner = outbox[i].owner /\ r.fresh = outbox[i].fresh
      /\ r.state = "INFLIGHT"
  BY <1>2 DEF Row
<1> HIDE DEF n, r
<1>6. /\ DOMAIN outbox' = DOMAIN outbox /\ outbox'[i] = r
      /\ \A j \in DOMAIN outbox : j # i => outbox'[j] = outbox[j]
  BY <1>3, RowsAreRows DEF OInv
<1>7. \A j \in DOMAIN outbox : /\ outbox'[j].card = outbox[j].card
                               /\ outbox'[j].owner = outbox[j].owner
                               /\ outbox'[j].fresh = outbox[j].fresh
                               /\ outbox'[j].state = "SENT" => outbox[j].state = "SENT"
  BY <1>5, <1>6
<1>8. held.phase = "claimed" /\ held.row = i /\ held.edit = edit
  BY DEF Idle
<1> HIDE DEF held
<1>9. worker'[w] = held /\ \A v \in Workers \ {w} : worker'[v] = worker[v]
  BY <1>4, WorkersAreWorkers DEF OInv
<1>10. ASSUME NEW j \in DOMAIN outbox', outbox'[j].fresh, outbox'[j].state = "SENT",
              outbox'[j].card # NoCard
       PROVE  outbox'[j].card \in CardsOf(outbox[j].owner)'
  <2>1. outbox[j].card \in CardsOf(outbox[j].owner)
    BY <1>6, <1>7, <1>10 DEF CardInv
  <2> QED BY <2>1, <1>4, <1>6, <1>7, <1>10 DEF CardsOf
<1>11. ASSUME ~edit, outbox[i].card # NoCard, NEW j \in 1..(i - 1),
              outbox[j].card = outbox[i].card, outbox[j].owner = outbox[i].owner
       PROVE  ~outbox[j].fresh
  <2>1. j \in DOMAIN outbox
    BY <1>2
  <2>2. SameLane(i, j) /\ ~IsGroup(j) /\ SameOwner(i, j)
    BY <2>1, <1>11, CardsShareLanes DEF SameOwner
  <2>3. outbox[j].state = "SENT"
    BY <2>2, <1>2 DEF Blocked, Passable, IsGroup, GroupKinds
  <2>4. outbox[j].card \notin CardsOf(outbox[j].owner)
    BY <1>2, <1>11 DEF CardsOf
  <2> QED BY <2>1, <2>3, <2>4, <1>11 DEF CardInv
<1>12. ASSUME NEW v \in Workers, worker'[v].phase \in {"claimed", "paced", "ready"}, ~worker'[v].edit,
              Held(v)'.card # NoCard, NEW j \in 1..(worker'[v].row - 1),
              outbox'[j].card = Held(v)'.card, SameOwner(j, worker[v].row)'
       PROVE  ~outbox'[j].fresh
  <2>1. CASE v = w
    <3>1. worker'[v].row = i /\ worker'[v].edit = edit
      BY <2>1, <1>8, <1>9
    <3>2. j \in DOMAIN outbox /\ j \in 1..(i - 1)
      BY <3>1, <1>2, <1>12
    <3>3. Held(v)' = outbox'[i] /\ outbox'[j].owner = outbox'[i].owner
      <4>1. Held(v)' = outbox'[i]
        BY <3>1 DEF Held
      <4>2. SameOwner(j, worker[v].row)'
        BY <1>12
      <4>3. outbox'[j].owner = outbox'[worker'[v].row].owner
        BY <4>2 DEF SameOwner
      <4> QED BY <3>1, <4>1, <4>3
    <3>4. ~edit /\ outbox'[i].card # NoCard /\ outbox'[j].card = outbox'[i].card
      BY <3>1, <3>3, <1>12
    <3>5. /\ outbox[i].card # NoCard /\ outbox[j].card = outbox[i].card
          /\ outbox[j].owner = outbox[i].owner
      BY <3>2, <3>3, <3>4, <1>1, <1>7
    <3>6. ~outbox[j].fresh
      BY <3>2, <3>4, <3>5, <1>11
    <3> QED BY <3>2, <3>6, <1>7
  <2>2. CASE v # w
    <3>1. worker'[v] = worker[v]
      BY <2>2, <1>9
    <3>2. PICK k \in DOMAIN outbox : k = worker[v].row
      BY <3>1, <1>12, HeldFacts
    <3>3. j \in DOMAIN outbox /\ j \in 1..(k - 1)
      BY <1>2, <1>12, <3>1, <3>2
    <3>4. Held(v)' = outbox'[k] /\ Held(v) = outbox[k] /\ outbox'[j].owner = outbox'[k].owner
      BY <3>1, <3>2, <1>12 DEF Held, SameOwner
    <3>5. SameOwner(j, worker[v].row) /\ outbox[j].card = Held(v).card /\ Held(v).card # NoCard
      BY <3>2, <3>3, <3>4, <1>7, <1>12 DEF SameOwner
    <3>6. ~outbox[j].fresh
      BY <3>1, <3>2, <3>3, <3>5, <1>12 DEF CardInv
    <3> QED BY <3>3, <3>6, <1>7
  <2> QED BY <2>1, <2>2
<1>13. PostedOnce'
  BY <1>6, <1>7 DEF CardInv, PostedOnce, OfOneCard, SameOwner
<1>14. ASSUME NEW v \in Workers, worker'[v].phase \in {"claimed", "paced", "ready"}, ~worker'[v].edit,
              Held(v)'.card # NoCard
       PROVE  \A j \in 1..(worker'[v].row - 1) :
                outbox'[j].card = Held(v)'.card /\ SameOwner(j, worker[v].row)' => ~outbox'[j].fresh
  BY <1>12, <1>14
<1> QED BY <1>10, <1>13, <1>14 DEF CardInv

(* A card is posted when no row before it, nor after it, has been. *)
LEMMA TransmitCards ==
  ASSUME OInv, CardInv, D!InOrder, NEW w \in Workers, Transmit(w)
  PROVE  CardInv'
<1>1. PICK i \in DOMAIN outbox : i = worker[w].row
  BY HeldFacts DEF Transmit
<1>2. PICK answer \in Answers \ {"none"}, wait \in Waits \cup {0}, arrived \in BOOLEAN :
           /\ answer \in {"ok", "noId"} => arrived
           /\ arrived => answer \in {"ok", "noId", "lost"}
           /\ outbox' = [outbox EXCEPT ![worker[w].row] = Called(Held(w), arrived, worker[w].edit)]
           /\ worker' = [worker EXCEPT ![w] = [worker[w] EXCEPT !.phase = "answered", !.answer = answer,
                                                        !.wait = wait]]
           /\ Gate(w, wait) /\ faults' \in 0..MaxFaults
  BY TransmitEffect
<1>3. /\ outbox[i] \in Row /\ outbox[i].state = "INFLIGHT" /\ i \in Nat
      /\ Held(w) = outbox[i] /\ worker[w].edit \in BOOLEAN /\ worker[w].phase = "ready"
      /\ DOMAIN outbox = 1..Len(outbox) /\ Len(outbox) \in Nat
      /\ UNCHANGED <<bot, cards, botCards>>
      /\ \A v \in Workers \ {w} : worker[v].row # i
  BY <1>1, HeldFacts, RowsAreRows, WorkersAreWorkers, ZenonT(40) DEF Transmit, OInv, tables
<1> DEFINE e == worker[w].edit
           r == Called(outbox[i], arrived, e)
           posted == arrived /\ ~e
<1>4. /\ r \in Row /\ r.chat = outbox[i].chat /\ r.kind = outbox[i].kind
      /\ r.card = outbox[i].card /\ r.owner = outbox[i].owner /\ r.state = "INFLIGHT"
      /\ r.fresh = (outbox[i].fresh \/ posted)
  BY <1>3, CalledType
<1>5. outbox' = [outbox EXCEPT ![i] = r]
  BY <1>1, <1>2, <1>3
<1>6. \A v \in Workers \ {w} : worker'[v] = worker[v]
  BY <1>2, WorkersAreWorkers DEF OInv
<1>7. worker'[w].phase = "answered"
  BY <1>2, WorkersAreWorkers DEF OInv, WorkerType
<1> HIDE DEF r, posted
<1>8. /\ DOMAIN outbox' = DOMAIN outbox /\ outbox'[i] = r
      /\ \A j \in DOMAIN outbox : j # i => outbox'[j] = outbox[j]
  BY <1>5, RowsAreRows DEF OInv
<1>9. \A j \in DOMAIN outbox : /\ outbox'[j].card = outbox[j].card
                               /\ outbox'[j].owner = outbox[j].owner
                               /\ outbox'[j].state = outbox[j].state
  BY <1>3, <1>4, <1>8
<1>10. \A v \in Workers :
         worker'[v].phase \in {"claimed", "paced", "ready"} => v # w /\ worker'[v] = worker[v]
  BY <1>6, <1>7
<1>11. ASSUME NEW j \in DOMAIN outbox', outbox'[j].fresh, outbox'[j].state = "SENT",
              outbox'[j].card # NoCard
       PROVE  outbox'[j].card \in CardsOf(outbox[j].owner)'
  <2>1. j # i /\ outbox'[j] = outbox[j]
    BY <1>4, <1>8, <1>11
  <2>2. outbox[j].card \in CardsOf(outbox[j].owner)
    BY <2>1, <1>8, <1>11 DEF CardInv
  <2> QED BY <2>1, <2>2, <1>3 DEF CardsOf
<1>12. ASSUME NEW v \in Workers, worker'[v].phase \in {"claimed", "paced", "ready"}, ~worker'[v].edit,
              Held(v)'.card # NoCard, NEW j \in 1..(worker'[v].row - 1),
              outbox'[j].card = Held(v)'.card, SameOwner(j, worker[v].row)'
       PROVE  ~outbox'[j].fresh
  <2>1. v # w /\ worker'[v] = worker[v]
    BY <1>10, <1>12
  <2>2. PICK k \in DOMAIN outbox : k = worker[v].row
    BY <2>1, <1>12, HeldFacts
  <2>3. j \in DOMAIN outbox /\ j \in 1..(k - 1)
    BY <1>3, <1>12, <2>1, <2>2
  <2>4. Held(v)' = outbox'[k] /\ Held(v) = outbox[k] /\ outbox'[j].owner = outbox'[k].owner
    BY <2>1, <2>2, <1>12 DEF Held, SameOwner
  <2>5. SameOwner(j, k) /\ SameOwner(k, j) /\ outbox[j].card = outbox[k].card /\ outbox[k].card # NoCard
    BY <2>2, <2>3, <2>4, <1>9, <1>12 DEF SameOwner
  <2>6. ~outbox[j].fresh
    BY <2>1, <2>2, <2>3, <2>4, <2>5, <1>12 DEF CardInv
  <2>7. j # i
    <3>1. SameLane(k, j) /\ ~IsGroup(k)
      BY <2>3, <2>5, CardsShareLanes
    <3>2. FirstInLane(k)
      BY <2>1, <2>2, <3>1, <1>12 DEF OInv, WorkerOK, Holding
    <3>3. outbox[j].state = "SENT"
      BY <2>3, <2>5, <3>1, <3>2 DEF FirstInLane
    <3> QED BY <3>3, <1>3
  <2> QED BY <2>3, <2>6, <2>7, <1>8
<1>13. ASSUME posted, outbox[i].card # NoCard, NEW j \in DOMAIN outbox, j # i,
              outbox[j].card = outbox[i].card, SameOwner(i, j)
       PROVE  ~outbox[j].fresh
  <2>1. CASE j < i
    <3>1. j \in 1..(i - 1) /\ SameOwner(j, i)
      BY <2>1, <1>3, <1>13 DEF SameOwner
    <3> QED BY <3>1, <1>1, <1>3, <1>13 DEF CardInv, posted
  <2>2. CASE i < j
    BY <2>2, <1>3, <1>13, PostedInOrder
  <2> QED BY <2>1, <2>2, <1>3, <1>13
<1>14. PostedOnce'
  <2> SUFFICES ASSUME NEW k \in DOMAIN outbox', NEW j \in DOMAIN outbox' \ {k}, OfOneCard(k, j)',
                      outbox'[k].fresh, outbox'[j].fresh
               PROVE  FALSE
    BY DEF PostedOnce
  <2>1. /\ outbox[k].card # NoCard /\ outbox[k].card = outbox[j].card
        /\ SameOwner(k, j) /\ SameOwner(j, k)
    BY <1>8, <1>9 DEF OfOneCard, SameOwner
  <2>2. ~(outbox[k].fresh /\ outbox[j].fresh)
    BY <2>1, <1>8 DEF CardInv, PostedOnce, OfOneCard
  <2>3. CASE k # i /\ j # i
    BY <2>2, <2>3, <1>8
  <2>4. CASE k = i
    BY <2>1, <2>2, <2>4, <1>4, <1>8, <1>13
  <2>5. CASE j = i
    BY <2>1, <2>2, <2>5, <1>4, <1>8, <1>13
  <2> QED BY <2>3, <2>4, <2>5
<1>15. ASSUME NEW v \in Workers, worker'[v].phase \in {"claimed", "paced", "ready"}, ~worker'[v].edit,
              Held(v)'.card # NoCard
       PROVE  \A j \in 1..(worker'[v].row - 1) :
                outbox'[j].card = Held(v)'.card /\ SameOwner(j, worker[v].row)' => ~outbox'[j].fresh
  BY <1>12, <1>15
<1> QED BY <1>11, <1>14, <1>15 DEF CardInv

(* The cards of the bot that leaves are set aside, those of the bot that   *)
(* comes are taken up.                                                     *)
LEMMA CardsOfBots ==
  ASSUME OInv, NEW b \in Bots, BindBot(b), sessions # {}
  PROVE  \A c \in Bots : CardsOf(c)' = CardsOf(c)
<1>1. bot \in Bots /\ bot # NoBot /\ bot' = b
  BY OutboxAssumption DEF OInv, BotsOK, TypeOK, BindBot
<1> SUFFICES ASSUME NEW c \in Bots PROVE CardsOf(c)' = CardsOf(c)
  OBVIOUS
<1>2. botCards \in [Bots -> SUBSET Cards]
  BY DEF OInv, TypeOK
<1>3. CASE bot = b
  <2>1. UNCHANGED <<cards, botCards>>
    BY <1>1, <1>3 DEF BindBot
  <2> QED BY <2>1, <1>1, <1>3 DEF CardsOf
<1>4. CASE bot # b
  <2>1. botCards' = [botCards EXCEPT ![bot] = cards] /\ cards' = botCards[b]
    BY <1>1, <1>4 DEF BindBot
  <2> QED BY <2>1, <1>1, <1>2, <1>4 DEF CardsOf
<1> QED BY <1>3, <1>4

LEMMA BindCards == ASSUME OInv, CardInv, NEW b \in Bots, BindBot(b) PROVE CardInv'
<1> DEFINE old == OldBot(b)
<1>1. /\ old \in Bots /\ \A v \in Workers : worker[v] = Idle /\ Done(v)
      /\ bot' = b
      /\ old \in sessions => UNCHANGED outbox
      /\ old \notin sessions => sessions = {}
      /\ DOMAIN outbox' = DOMAIN outbox
  BY BindEffect
<1>2. \A j \in DOMAIN outbox : /\ outbox'[j].fresh = outbox[j].fresh
                               /\ outbox'[j].card = outbox[j].card
                               /\ outbox'[j].state = outbox[j].state
  BY BindEffect
<1>3. \A v \in Workers : worker'[v].phase = "idle"
  BY <1>1, IdleType DEF Done, OInv
<1>4. CASE sessions = {}
  <2>1. \A j \in DOMAIN outbox : ~outbox[j].fresh
    BY <1>4, RowsAreRows DEF OInv, BotsOK, RowOK
  <2> QED BY <2>1, <1>1, <1>2, <1>3 DEF CardInv, PostedOnce
<1>5. CASE sessions # {}
  <2>1. UNCHANGED outbox /\ bot \in Bots /\ bot # NoBot /\ old = bot
    BY <1>1, <1>5, OutboxAssumption DEF OInv, BotsOK, TypeOK, OldBot
  <2>2. \A c \in Bots : CardsOf(c)' = CardsOf(c)
    BY <1>5, CardsOfBots
  <2>3. \A j \in DOMAIN outbox : outbox[j].owner \in Bots
    BY <1>5 DEF OInv, BotsOK
  <2>4. PostedOnce'
    BY <2>1 DEF CardInv, PostedOnce, OfOneCard, SameOwner
  <2>5. ASSUME NEW j \in DOMAIN outbox', outbox'[j].fresh, outbox'[j].state = "SENT",
               outbox'[j].card # NoCard
        PROVE  outbox'[j].card \in CardsOf(outbox[j].owner)'
    <3>1. PICK c \in Bots : c = outbox[j].owner
      BY <2>1, <2>3
    <3>2. outbox[j].card \in CardsOf(c)
      BY <2>1, <2>5, <3>1 DEF CardInv
    <3> QED BY <2>1, <2>2, <3>1, <3>2 DEF CardsOf
  <2> QED BY <1>3, <2>4, <2>5 DEF CardInv
<1> QED BY <1>4, <1>5

LEMMA OtherCards ==
  ASSUME OInv, CardInv,
         \/ \E chat \in Chats, kind \in Kinds, card \in Cards \cup {NoCard} :
              Enqueue(chat, kind, card)
         \/ \E w \in Workers : Pace(w) \/ Recheck(w) \/ LocalFailure(w)
         \/ Disconnect \/ Tick \/ \E b \in Bots : Restart(b)
         \/ UNCHANGED vars
  PROVE  CardInv'
<1>1. /\ outbox \in [DOMAIN outbox -> Row] /\ DOMAIN outbox = 1..Len(outbox)
      /\ Len(outbox) \in Nat
  BY RowsAreRows DEF OInv
<1>2. ASSUME UNCHANGED <<outbox, bot, cards, botCards>>,
             \A v \in Workers : \/ worker'[v] = worker[v] \/ worker'[v] = Idle
                                \/ \E to \in {"paced", "ready"} :
                                     /\ worker'[v] = [worker[v] EXCEPT !.phase = to]
                                     /\ worker[v].phase \in {"claimed", "paced"}
      PROVE  CardInv'
  <2>1. SameRows
    BY <1>2 DEF SameRows
  <2> QED BY <1>2, <2>1, QuietCards
<1>3. ASSUME NEW chat \in Chats, NEW kind \in Kinds, NEW card \in Cards \cup {NoCard},
             Enqueue(chat, kind, card)
      PROVE  CardInv'
  <2> DEFINE r == NewRow(chat, kind, card, bot)
  <2>1. kind \in MessageKinds \cup GroupKinds
    BY OutboxAssumption
  <2>2. r \in Row /\ ~r.fresh /\ outbox \in Seq(Row)
    <3>1. bot \in Bots \cup {NoBot}
      BY DEF OInv, TypeOK
    <3>2. r \in Row /\ ~r.fresh
      BY <2>1, <3>1, NewRowType DEF NewRow
    <3> QED BY <3>2 DEF OInv, TypeOK
  <2>3. outbox' = Append(outbox, r) /\ UNCHANGED <<worker, bot, cards, botCards>>
    BY <1>3 DEF Enqueue, tables
  <2> HIDE DEF r
  <2>4. /\ DOMAIN outbox' = 1..(Len(outbox) + 1) /\ outbox'[Len(outbox) + 1] = r
        /\ \A j \in DOMAIN outbox : outbox'[j] = outbox[j]
    BY <2>2, <2>3, RowsAppend
  <2>5. SameRows
    BY <1>1, <2>4 DEF SameRows
  <2>6. \A j \in DOMAIN outbox' \ DOMAIN outbox : ~outbox'[j].fresh
    BY <1>1, <2>2, <2>4
  <2>7. \A v \in Workers : worker'[v] = worker[v]
    BY <2>3
  <2> QED BY <2>3, <2>4, <2>5, <2>6, <2>7, QuietCards
<1>4. ASSUME NEW w \in Workers, Pace(w) \/ Recheck(w) \/ LocalFailure(w) PROVE CardInv'
  <2>1. UNCHANGED <<outbox, bot, cards, botCards>>
    BY <1>4 DEF Pace, Recheck, LocalFailure, tables
  <2>2. ASSUME NEW v \in Workers
        PROVE  \/ worker'[v] = worker[v] \/ worker'[v] = Idle
               \/ \E to \in {"paced", "ready"} :
                    /\ worker'[v] = [worker[v] EXCEPT !.phase = to]
                    /\ worker[v].phase \in {"claimed", "paced"}
    BY <1>4, WorkersAreWorkers DEF Pace, Recheck, LocalFailure, OInv
  <2> QED BY <1>2, <2>1, <2>2
<1>5. ASSUME Disconnect \/ UNCHANGED vars PROVE CardInv'
  BY <1>2, <1>5 DEF Disconnect, vars, tables
<1>6. ASSUME Tick PROVE CardInv'
  <2>1. DOMAIN outbox' = DOMAIN outbox
    BY <1>6 DEF Tick
  <2>2. ASSUME NEW j \in DOMAIN outbox
        PROVE  /\ outbox'[j].chat = outbox[j].chat /\ outbox'[j].kind = outbox[j].kind
               /\ outbox'[j].card = outbox[j].card /\ outbox'[j].owner = outbox[j].owner
               /\ outbox'[j].fresh = outbox[j].fresh /\ outbox'[j].state = outbox[j].state
    <3>1. PICK r \in Row : r = outbox[j]
      BY <1>1
    <3>2. outbox'[j] = [r EXCEPT !.due = Less(@)]
      BY <3>1, <1>6 DEF Tick
    <3> QED BY <3>1, <3>2 DEF Row
  <2>3. SameRows
    BY <2>1, <2>2 DEF SameRows
  <2>4. UNCHANGED <<bot, cards, botCards>> /\ \A v \in Workers : worker'[v] = worker[v]
    BY <1>6 DEF Tick
  <2> QED BY <2>1, <2>2, <2>3, <2>4, QuietCards
<1>7. ASSUME NEW b \in Bots, Restart(b) PROVE CardInv'
  <2>1. DOMAIN outbox' = DOMAIN outbox /\ \A j \in DOMAIN outbox : outbox'[j] = Repaired(outbox[j])
    BY <1>7 DEF Restart
  <2>2. ASSUME NEW j \in DOMAIN outbox
        PROVE  /\ outbox'[j].chat = outbox[j].chat /\ outbox'[j].kind = outbox[j].kind
               /\ outbox'[j].card = outbox[j].card /\ outbox'[j].owner = outbox[j].owner
               /\ outbox'[j].fresh = outbox[j].fresh
               /\ outbox[j].state # "INFLIGHT" => outbox'[j].state = outbox[j].state
    BY <1>1, <2>1, RepairedType
  <2>3. SameRows
    BY <2>1, <2>2 DEF SameRows
  <2>4. ASSUME NEW j \in DOMAIN outbox, outbox[j].state = "INFLIGHT", outbox[j].card # NoCard
        PROVE  outbox'[j].state # "SENT"
    <3>1. outbox[j].kind = "text"
      BY <2>4, CardsAreTexts
    <3>2. Repaired(outbox[j]) = With(outbox[j], "UNKNOWN", outbox[j].due, FALSE)
      BY <2>4, <3>1 DEF Repaired, GroupKinds
    <3>3. outbox[j] \in Row
      BY <1>1
    <3> QED BY <2>1, <3>2, <3>3 DEF With, Row
  <2>5. UNCHANGED <<bot, cards, botCards>> /\ \A v \in Workers : worker'[v] = Idle
    BY <1>7 DEF Restart, tables
  <2> QED BY <2>1, <2>2, <2>3, <2>4, <2>5, QuietCards
<1> QED BY <1>3, <1>4, <1>5, <1>6, <1>7

LEMMA NextCardInv == ASSUME OInv, CardInv, D!InOrder, [Next]_vars PROVE CardInv'
<1>1. CASE UNCHANGED vars
  BY <1>1, OtherCards
<1>2. ASSUME NEW w \in Workers, Work(w) PROVE CardInv'
  BY <1>2, ClaimCards, HandedBackCards, OtherCards, TransmitCards, SentCards, DroppedCards
     DEF Work, Send, Record
<1>3. CASE Operator
  BY <1>3, SettledCards DEF Operator
<1>4. ASSUME NEW b \in Bots, Restart(b) \/ BindBot(b) PROVE CardInv'
  BY <1>4, OtherCards, BindCards
<1> QED BY <1>1, <1>2, <1>3, <1>4, OtherCards DEF Next

LEMMA InitCardInv == Init => CardInv
<1> SUFFICES ASSUME Init PROVE CardInv
  OBVIOUS
<1>1. \A j \in DOMAIN outbox : outbox[j].fresh = FALSE
  BY DEF Init, NewRow
<1>2. \A v \in Workers : worker[v].phase = "idle"
  BY DEF Init, Idle
<1> QED BY <1>1, <1>2 DEF CardInv, PostedOnce

(* What was posted stays posted. *)
LEMMA BackedStays ==
  ASSUME SameRows, \A j \in DOMAIN outbox : outbox[j].fresh => outbox'[j].fresh
  PROVE  \A c, b : Backed(outbox, c, b) => Backed(outbox', c, b)
BY DEF SameRows, Backed

(* What becomes of a worker: it is done, goes on with its row, or takes    *)
(* one, to edit what was posted.                                           *)
EditsOn(v) ==
  \/ worker'[v].phase = "idle"
  \/ /\ worker[v].phase # "idle"
     /\ worker'[v].row = worker[v].row /\ worker'[v].edit = worker[v].edit
     /\ worker'[v].answer = "same" => worker[v].answer = "same" \/ worker[v].edit
  \/ /\ worker'[v].edit => Backed(outbox', Held(v)'.card, bot')
     /\ worker'[v].answer # "same"

LEMMA BackKept ==
  ASSUME OInv, BackInv, SameRows, UNCHANGED <<bot, botCards>>,
         \A j \in DOMAIN outbox : outbox[j].fresh => outbox'[j].fresh,
         \A c \in cards' \ cards : Backed(outbox', c, bot),
         \A j \in DOMAIN outbox' :
           outbox'[j].card # NoCard /\ outbox'[j].delivered > 0
           => \/ j \in DOMAIN outbox /\ outbox[j].delivered > 0
              \/ Backed(outbox', outbox'[j].card, outbox'[j].owner),
         \A v \in Workers : EditsOn(v)
  PROVE  BackInv'
<1>1. \A c, b : Backed(outbox, c, b) => Backed(outbox', c, b)
  BY BackedStays
<1>2. ASSUME NEW b \in Bots \cup {bot}, NEW c \in CardsOf(b)' PROVE Backed(outbox', c, b)
  <2>1. c \in CardsOf(b) \/ (b = bot /\ c \in cards' \ cards)
    BY <1>2 DEF CardsOf
  <2>2. c \in CardsOf(b) => Backed(outbox, c, b)
    BY DEF BackInv, CardsBacked
  <2> QED BY <2>1, <2>2, <1>1
<1>3. CardsBacked'
  BY <1>2 DEF CardsBacked
<1>4. ASSUME NEW v \in Workers PROVE EditBacked(v)'
  <2> SUFFICES ASSUME worker'[v].phase # "idle", Held(v)'.card # NoCard,
                      worker'[v].edit \/ worker'[v].answer = "same"
               PROVE  worker'[v].edit /\ Backed(outbox', Held(v)'.card, bot')
    BY DEF EditBacked
  <2>1. CASE /\ worker[v].phase # "idle"
             /\ worker'[v].row = worker[v].row /\ worker'[v].edit = worker[v].edit
             /\ worker'[v].answer = "same" => worker[v].answer = "same" \/ worker[v].edit
    <3>1. worker[v].row \in DOMAIN outbox /\ Held(v) = outbox[worker[v].row]
      BY <2>1, HeldFacts
    <3>2. Held(v)' = outbox'[worker[v].row]
      BY <2>1 DEF Held
    <3>3. Held(v)'.card = Held(v).card
      BY <3>1, <3>2 DEF SameRows
    <3>4. worker[v].edit /\ Backed(outbox, Held(v).card, bot)
      BY <2>1, <3>3 DEF BackInv, EditBacked
    <3> QED BY <2>1, <3>3, <3>4, <1>1
  <2> QED BY <2>1 DEF EditsOn
<1>5. ASSUME NEW j \in DOMAIN outbox', outbox'[j].card # NoCard, outbox'[j].delivered > 0
      PROVE  Backed(outbox', outbox'[j].card, outbox'[j].owner)
  <2>1. CASE j \in DOMAIN outbox /\ outbox[j].delivered > 0
    <3>1. outbox'[j].card = outbox[j].card /\ outbox'[j].owner = outbox[j].owner
      BY <2>1 DEF SameRows
    <3>2. Backed(outbox, outbox[j].card, outbox[j].owner)
      BY <2>1, <3>1, <1>5 DEF BackInv, RowsBacked
    <3> QED BY <3>1, <3>2, <1>1
  <2> QED BY <2>1, <1>5
<1>6. RowsBacked'
  BY <1>5 DEF RowsBacked
<1> QED BY <1>3, <1>4, <1>6 DEF BackInv

(* Steps that neither transmit nor bind, or add what was not sent yet. *)
LEMMA QuietBack ==
  ASSUME OInv, BackInv, SameRows, UNCHANGED <<bot, botCards>>,
         \A j \in DOMAIN outbox : /\ outbox'[j].fresh = outbox[j].fresh
                                  /\ outbox'[j].delivered = outbox[j].delivered,
         \A j \in DOMAIN outbox' \ DOMAIN outbox : outbox'[j].delivered = 0,
         \A c \in cards' \ cards : Backed(outbox, c, bot),
         \A v \in Workers : \/ worker'[v] = worker[v] \/ worker'[v] = Idle
                            \/ \E to \in {"paced", "ready"} :
                                 /\ worker'[v] = [worker[v] EXCEPT !.phase = to]
                                 /\ worker[v].phase \in {"claimed", "paced"}
  PROVE  BackInv'
<1>1. \A c, b : Backed(outbox, c, b) => Backed(outbox', c, b)
  BY BackedStays
<1>2. \A c \in cards' \ cards : Backed(outbox', c, bot)
  BY <1>1
<1>3. \A j \in DOMAIN outbox' :
        outbox'[j].delivered > 0 => j \in DOMAIN outbox /\ outbox[j].delivered > 0
  OBVIOUS
<1>4. ASSUME NEW v \in Workers PROVE EditsOn(v)
  <2>1. worker[v] \in WorkerType /\ Idle.phase = "idle"
    BY WorkersAreWorkers, IdleType DEF OInv
  <2>2. CASE worker'[v] = worker[v]
    BY <2>2 DEF EditsOn
  <2>3. CASE worker'[v] = Idle
    BY <2>1, <2>3 DEF EditsOn
  <2>4. ASSUME NEW to \in {"paced", "ready"}, worker'[v] = [worker[v] EXCEPT !.phase = to],
               worker[v].phase \in {"claimed", "paced"}
        PROVE  EditsOn(v)
    <3>1. /\ worker'[v].row = worker[v].row /\ worker'[v].edit = worker[v].edit
          /\ worker'[v].answer = worker[v].answer
      BY <2>1, <2>4 DEF WorkerType
    <3> QED BY <2>4, <3>1 DEF EditsOn
  <2> QED BY <2>2, <2>3, <2>4
<1> QED BY <1>2, <1>3, <1>4, BackKept

LEMMA RowBack ==
  ASSUME OInv, BackInv, NEW i \in DOMAIN outbox, NEW r \in Row, outbox' = [outbox EXCEPT ![i] = r],
         outbox[i].state # "SENT",
         r.chat = outbox[i].chat, r.kind = outbox[i].kind, r.card = outbox[i].card,
         r.owner = outbox[i].owner, r.fresh = outbox[i].fresh, r.delivered = outbox[i].delivered,
         \A c \in cards' \ cards : Backed(outbox, c, bot),
         UNCHANGED <<bot, botCards>>,
         \A v \in Workers : worker'[v] = worker[v] \/ worker'[v] = Idle
  PROVE  BackInv'
<1>1. /\ DOMAIN outbox' = DOMAIN outbox /\ outbox'[i] = r
      /\ \A j \in DOMAIN outbox : j # i => outbox'[j] = outbox[j]
  BY RowsAreRows DEF OInv
<1>2. SameRows
  BY <1>1 DEF SameRows
<1>3. \A j \in DOMAIN outbox : /\ outbox'[j].fresh = outbox[j].fresh
                               /\ outbox'[j].delivered = outbox[j].delivered
  BY <1>1
<1> QED BY <1>1, <1>2, <1>3, QuietBack

LEMMA ReleaseBack ==
  ASSUME OInv, BackInv, NEW w \in Workers, worker[w].phase # "idle", NEW r \in Row, Release(w, r),
         r.chat = Held(w).chat, r.kind = Held(w).kind, r.card = Held(w).card,
         r.owner = Held(w).owner, r.fresh = Held(w).fresh, r.delivered = Held(w).delivered,
         \A c \in cards' \ cards : Backed(outbox, c, bot),
         UNCHANGED <<bot, botCards>>
  PROVE  BackInv'
<1>1. PICK i \in DOMAIN outbox : i = worker[w].row /\ Held(w) = outbox[i]
        /\ outbox[i].state = "INFLIGHT"
  BY HeldFacts, ZenonT(40)
<1>2. outbox' = [outbox EXCEPT ![i] = r] /\ worker' = [worker EXCEPT ![w] = Idle]
  BY <1>1 DEF Release
<1>3. \A v \in Workers : worker'[v] = worker[v] \/ worker'[v] = Idle
  BY <1>2, WorkersAreWorkers DEF OInv
<1> QED BY <1>1, <1>2, <1>3, RowBack

LEMMA WithBack ==
  ASSUME OInv, BackInv, NEW w \in Workers, worker[w].phase # "idle",
         NEW state \in States, NEW due \in Nat, NEW note \in BOOLEAN,
         Release(w, With(Held(w), state, due, note)),
         \A c \in cards' \ cards : Backed(outbox, c, bot),
         UNCHANGED <<bot, botCards>>
  PROVE  BackInv'
<1> DEFINE r == With(Held(w), state, due, note)
<1>1. Held(w) \in Row
  BY HeldFacts
<1>2. /\ r \in Row /\ r.chat = Held(w).chat /\ r.kind = Held(w).kind /\ r.card = Held(w).card
      /\ r.owner = Held(w).owner /\ r.fresh = Held(w).fresh /\ r.delivered = Held(w).delivered
  BY <1>1, WithType
<1> HIDE DEF r
<1> QED BY <1>2, ReleaseBack DEF r

LEMMA HandedBackBack ==
  ASSUME OInv, BackInv, NEW w \in Workers,
         GiveUp(w) \/ Defer(w) \/ RateLimit(w) \/ CompleteUnsent(w) \/ CompleteFailed(w)
  PROVE  BackInv'
<1>1. PICK r \in Row : HandsBack(w, r)
  BY HandedBack
<1>2. worker[w].phase # "idle" /\ UNCHANGED <<bot, cards, botCards>>
  BY HandedBack
<1> QED BY <1>1, <1>2, ReleaseBack DEF HandsBack

(* What Telegram has taken, or says to have already, can be edited. *)
LEMMA SentBack ==
  ASSUME OInv, BackInv, NEW w \in Workers, CompleteSent(w)
  PROVE  BackInv'
<1> DEFINE note == worker[w].answer = "same"
<1>1. /\ worker[w].phase # "idle" /\ Release(w, With(Held(w), "SENT", Cooldown, note))
      /\ cards' = cards \cup ({Held(w).card} \ {NoCard}) /\ UNCHANGED <<bot, botCards>>
      /\ worker[w].answer \in {"ok", "same"} /\ Held(w).kind \in MessageKinds
  BY DEF CompleteSent, Answered
<1>2. note \in BOOLEAN /\ Cooldown \in Nat
  BY OutboxAssumption
<1>3. /\ worker[w].row \in DOMAIN outbox /\ Held(w) = outbox[worker[w].row]
      /\ Held(w).owner = bot /\ ~IsGroup(worker[w].row)
  BY <1>1, HeldFacts DEF IsGroup, MessageKinds, PhotoKinds, GroupKinds
<1>4. Held(w).card # NoCard => Backed(outbox, Held(w).card, bot)
  <2>1. CASE worker[w].answer = "ok"
    <3>1. Held(w).delivered > 0
      BY <2>1, <1>3 DEF OInv, WorkerOK
    <3> QED BY <3>1, <1>3 DEF BackInv, RowsBacked
  <2>2. CASE worker[w].answer = "same"
    BY <2>2, <1>1 DEF BackInv, EditBacked
  <2> QED BY <1>1, <2>1, <2>2
<1>5. \A c \in cards' \ cards : Backed(outbox, c, bot)
  BY <1>1, <1>4
<1> HIDE DEF note
<1> QED BY <1>1, <1>2, <1>5, WithBack DEF States

LEMMA DroppedBack ==
  ASSUME OInv, BackInv, NEW w \in Workers, CompletePhoto(w) \/ Fallback(w)
  PROVE  BackInv'
<1>1. worker[w].phase # "idle" /\ UNCHANGED <<bot, cards, botCards>>
  BY DEF CompletePhoto, Fallback, Answered, tables
<1>2. CASE CompletePhoto(w)
  BY <1>1, <1>2, WithBack DEF CompletePhoto, States
<1>3. CASE Fallback(w)
  <2>1. PICK i \in DOMAIN outbox : i = worker[w].row /\ Held(w) = outbox[i]
    BY <1>1, HeldFacts
  <2> DEFINE r == With(outbox[i], "SENT", outbox[i].due, TRUE)
             f == [outbox EXCEPT ![i] = r]
             x == NewRow(outbox[i].chat, "text", NoCard, bot)
  <2>2. /\ outbox[i] \in Row /\ outbox[i].state = "INFLIGHT" /\ bot \in Bots
        /\ outbox[i].chat \in Chats
    BY <1>1, <2>1, HeldFacts DEF Row
  <2>3. /\ r \in Row /\ r.chat = outbox[i].chat /\ r.kind = outbox[i].kind
        /\ r.card = outbox[i].card /\ r.owner = outbox[i].owner /\ r.fresh = outbox[i].fresh
        /\ r.delivered = outbox[i].delivered
    BY <2>2 DEF With, Row, States
  <2>4. outbox' = Append(f, x) /\ worker' = [worker EXCEPT ![w] = Idle]
    BY <1>3, <2>1 DEF Fallback
  <2>5. x \in Row
    <3>1. "text" \in MessageKinds \cup GroupKinds /\ NoCard \in Cards \cup {NoCard}
          /\ bot \in Bots \cup {NoBot}
      BY <2>2 DEF MessageKinds
    <3> QED BY <2>2, <3>1, NewRowType
  <2>6. x.delivered = 0
    BY DEF NewRow
  <2> HIDE DEF r, x
  <2>7. /\ DOMAIN outbox = 1..Len(outbox) /\ Len(outbox) \in Nat
        /\ f \in [DOMAIN outbox -> Row] /\ f[i] = r /\ \A j \in DOMAIN outbox \ {i} : f[j] = outbox[j]
    BY <2>3, RowsAreRows DEF OInv
  <2>8. f \in Seq(Row) /\ Len(f) = Len(outbox)
    BY <2>7, RowsUpdate DEF OInv
  <2> HIDE DEF f
  <2>9. /\ DOMAIN outbox' = 1..(Len(outbox) + 1) /\ outbox'[Len(outbox) + 1] = x
        /\ \A j \in DOMAIN outbox : outbox'[j] = f[j]
    BY <2>4, <2>5, <2>7, <2>8, RowsAppend
  <2>10. SameRows
    BY <2>2, <2>3, <2>7, <2>9 DEF SameRows
  <2>11. \A j \in DOMAIN outbox : /\ outbox'[j].fresh = outbox[j].fresh
                                  /\ outbox'[j].delivered = outbox[j].delivered
    BY <2>3, <2>7, <2>9
  <2>12. \A j \in DOMAIN outbox' \ DOMAIN outbox : outbox'[j].delivered = 0
    BY <2>6, <2>7, <2>9
  <2>13. \A v \in Workers : worker'[v] = worker[v] \/ worker'[v] = Idle
    BY <2>4, WorkersAreWorkers DEF OInv
  <2> QED BY <1>1, <2>10, <2>11, <2>12, <2>13, QuietBack
<1> QED BY <1>2, <1>3

(* An operator says of a card that it was sent only when it was. *)
LEMMA SettledBack ==
  ASSUME OInv, BackInv, NEW i \in DOMAIN outbox, Retry(i) \/ Ack(i) \/ Skip(i)
  PROVE  BackInv'
<1>1. /\ outbox[i] \in Row /\ outbox[i].state \in {"FAILED", "UNKNOWN"} /\ outbox[i].owner = bot
      /\ UNCHANGED <<bot, botCards, worker>> /\ outbox[i].due \in Nat
  BY RowsAreRows DEF OInv, Retry, Ack, Skip, Resolvable, Active, tables, Row
<1>2. CASE Ack(i) \/ Skip(i)
  <2> DEFINE r == With(outbox[i], "SENT", outbox[i].due, TRUE)
  <2>1. /\ r \in Row /\ r.chat = outbox[i].chat /\ r.kind = outbox[i].kind /\ r.card = outbox[i].card
        /\ r.owner = outbox[i].owner /\ r.fresh = outbox[i].fresh
        /\ r.delivered = outbox[i].delivered
    BY <1>1 DEF With, Row, States
  <2>2. outbox' = [outbox EXCEPT ![i] = r]
    BY <1>2 DEF Ack, Skip
  <2> HIDE DEF r
  <2>3. ASSUME NEW c \in cards' \ cards PROVE Backed(outbox, c, bot)
    <3>1. CASE Ack(i)
      <4>1. c = outbox[i].card /\ c # NoCard /\ outbox[i].delivered > 0
        BY <3>1 DEF Ack
      <4> QED BY <4>1, <1>1 DEF BackInv, RowsBacked
    <3>2. CASE Skip(i)
      BY <3>2 DEF Skip, tables
    <3> QED BY <1>2, <3>1, <3>2
  <2> QED BY <1>1, <2>1, <2>2, <2>3, RowBack
<1>3. CASE Retry(i)
  <2> DEFINE q == With(outbox[i], "PENDING", 0, FALSE)
             r == [q EXCEPT !.retries = @ + 1]
  <2>1. outbox' = [outbox EXCEPT ![i] = r] /\ UNCHANGED cards
    BY <1>3 DEF Retry, tables
  <2>2. /\ q \in Row /\ q.chat = outbox[i].chat /\ q.kind = outbox[i].kind /\ q.card = outbox[i].card
        /\ q.owner = outbox[i].owner /\ q.fresh = outbox[i].fresh
        /\ q.delivered = outbox[i].delivered
    BY <1>1 DEF With, Row, States
  <2> HIDE DEF q
  <2>3. /\ r \in Row /\ r.chat = q.chat /\ r.kind = q.kind /\ r.card = q.card
        /\ r.owner = q.owner /\ r.fresh = q.fresh /\ r.delivered = q.delivered
    BY <2>2 DEF Row
  <2> HIDE DEF r
  <2> QED BY <1>1, <2>1, <2>2, <2>3, RowBack
<1> QED BY <1>2, <1>3

(* A row is claimed to edit a card only if the bot can edit it. *)
LEMMA ClaimBack == ASSUME OInv, BackInv, NEW w \in Workers, Claim(w) PROVE BackInv'
<1>1. PICK i \in DOMAIN outbox : i = NextRow /\ i \in Claimable
  BY NextRowWaits DEF Claim, OInv
<1>2. outbox[i] \in Row /\ outbox[i].state = "PENDING"
  BY <1>1, RowsAreRows DEF Claimable, OInv
<1> DEFINE n == IF IsGroup(i) THEN Min({outbox[i].attempts + 1, GiveUpAfter})
                ELSE outbox[i].attempts
           r == [outbox[i] EXCEPT !.state = "INFLIGHT", !.attempts = n]
           edit == outbox[i].card \in cards
           held == [Idle EXCEPT !.phase = "claimed", !.row = i, !.edit = edit]
<1>3. outbox' = [outbox EXCEPT ![i] = r]
  BY <1>1, <1>2 DEF Claim
<1>4. worker' = [worker EXCEPT ![w] = held] /\ UNCHANGED <<bot, cards, botCards>>
  BY <1>1 DEF Claim, tables
<1>5. /\ r.chat = outbox[i].chat /\ r.kind = outbox[i].kind /\ r.card = outbox[i].card
      /\ r.owner = outbox[i].owner /\ r.fresh = outbox[i].fresh
      /\ r.delivered = outbox[i].delivered
  BY <1>2 DEF Row
<1> HIDE DEF n, r
<1>6. /\ DOMAIN outbox' = DOMAIN outbox /\ outbox'[i] = r
      /\ \A j \in DOMAIN outbox : j # i => outbox'[j] = outbox[j]
  BY <1>3, RowsAreRows DEF OInv
<1>7. held.row = i /\ held.edit = edit /\ held.answer = "none"
  BY DEF Idle
<1> HIDE DEF held
<1>8. worker'[w] = held /\ \A v \in Workers \ {w} : worker'[v] = worker[v]
  BY <1>4, WorkersAreWorkers DEF OInv
<1>9. SameRows
  BY <1>2, <1>5, <1>6 DEF SameRows
<1>10. \A j \in DOMAIN outbox : /\ outbox'[j].fresh = outbox[j].fresh
                                /\ outbox'[j].delivered = outbox[j].delivered
  BY <1>5, <1>6
<1>11. EditsOn(w)
  <2>1. edit => Backed(outbox, outbox[i].card, bot)
    BY DEF BackInv, CardsBacked, CardsOf
  <2>2. edit => Backed(outbox', outbox[i].card, bot)
    BY <2>1, <1>9, <1>10, BackedStays
  <2>3. Held(w)' = outbox'[i] /\ outbox'[i].card = outbox[i].card
    BY <1>5, <1>6, <1>7, <1>8 DEF Held
  <2> QED BY <2>2, <2>3, <1>4, <1>7, <1>8 DEF EditsOn
<1>12. \A v \in Workers : EditsOn(v)
  BY <1>8, <1>11 DEF EditsOn
<1>13. \A j \in DOMAIN outbox' : outbox'[j].delivered > 0
                              => j \in DOMAIN outbox /\ outbox[j].delivered > 0
  BY <1>6, <1>10
<1> QED BY <1>4, <1>9, <1>10, <1>12, <1>13, BackKept

(* A message is posted anew, or edits one that was. *)
LEMMA TransmitBack == ASSUME OInv, BackInv, NEW w \in Workers, Transmit(w) PROVE BackInv'
<1>1. PICK i \in DOMAIN outbox : i = worker[w].row
  BY HeldFacts DEF Transmit
<1>2. PICK answer \in Answers \ {"none"}, wait \in Waits \cup {0}, arrived \in BOOLEAN :
           /\ answer \in {"ok", "noId"} => arrived
           /\ arrived => answer \in {"ok", "noId", "lost"}
           /\ outbox' = [outbox EXCEPT ![worker[w].row] = Called(Held(w), arrived, worker[w].edit)]
           /\ worker' = [worker EXCEPT ![w] = [worker[w] EXCEPT !.phase = "answered", !.answer = answer,
                                                        !.wait = wait]]
           /\ answer = "same" => worker[w].edit
  BY TransmitEffect
<1>3. /\ outbox[i] \in Row /\ outbox[i].owner = bot /\ outbox[i].state = "INFLIGHT"
      /\ Held(w) = outbox[i] /\ worker[w].edit \in BOOLEAN /\ worker[w].phase = "ready"
      /\ worker[w] \in WorkerType /\ UNCHANGED <<bot, cards, botCards>>
  <2>1. worker[w] \in WorkerType /\ worker[w].edit \in BOOLEAN
    BY WorkersAreWorkers DEF OInv, WorkerType
  <2>2. worker[w].phase = "ready" /\ UNCHANGED <<bot, cards, botCards>>
    BY DEF Transmit, tables
  <2> QED BY <2>1, <2>2, <1>1, HeldFacts, RowsAreRows DEF OInv
<1> DEFINE e == worker[w].edit
           r == Called(outbox[i], arrived, e)
<1>4. /\ r \in Row /\ r.chat = outbox[i].chat /\ r.kind = outbox[i].kind
      /\ r.card = outbox[i].card /\ r.owner = outbox[i].owner /\ r.state = "INFLIGHT"
      /\ r.delivered = (IF arrived THEN outbox[i].delivered + 1 ELSE outbox[i].delivered)
      /\ r.fresh = (outbox[i].fresh \/ (arrived /\ ~e))
  BY <1>3, CalledType
<1>5. outbox' = [outbox EXCEPT ![i] = r]
  BY <1>1, <1>2, <1>3
<1>6. /\ worker'[w] = [worker[w] EXCEPT !.phase = "answered", !.answer = answer, !.wait = wait]
      /\ \A v \in Workers \ {w} : worker'[v] = worker[v]
  BY <1>2, WorkersAreWorkers DEF OInv
<1> HIDE DEF r
<1>7. /\ DOMAIN outbox' = DOMAIN outbox /\ outbox'[i] = r
      /\ \A j \in DOMAIN outbox : j # i => outbox'[j] = outbox[j]
  BY <1>5, RowsAreRows DEF OInv
<1>8. SameRows
  BY <1>3, <1>4, <1>7 DEF SameRows
<1>9. \A j \in DOMAIN outbox : outbox[j].fresh => outbox'[j].fresh
  BY <1>4, <1>7
<1>10. EditsOn(w)
  <2>1. /\ worker'[w].row = worker[w].row /\ worker'[w].edit = worker[w].edit
        /\ worker'[w].answer = answer
    BY <1>3, <1>6 DEF WorkerType
  <2> QED BY <2>1, <1>2, <1>3 DEF EditsOn
<1>11. \A v \in Workers : EditsOn(v)
  BY <1>6, <1>10 DEF EditsOn
<1>12. ASSUME arrived, outbox[i].card # NoCard
       PROVE  Backed(outbox', outbox'[i].card, outbox'[i].owner)
  <2>1. CASE e
    <3>1. Backed(outbox, outbox[i].card, bot)
      BY <2>1, <1>3, <1>12 DEF BackInv, EditBacked
    <3>2. Backed(outbox', outbox[i].card, bot)
      BY <3>1, <1>8, <1>9, BackedStays
    <3> QED BY <3>2, <1>3, <1>4, <1>7
  <2>2. CASE ~e
    BY <2>2, <1>4, <1>7, <1>12 DEF Backed
  <2> QED BY <2>1, <2>2
<1>13. \A j \in DOMAIN outbox' :
         outbox'[j].card # NoCard /\ outbox'[j].delivered > 0
         => \/ j \in DOMAIN outbox /\ outbox[j].delivered > 0
            \/ Backed(outbox', outbox'[j].card, outbox'[j].owner)
  BY <1>4, <1>7, <1>12
<1>14. \A c \in cards' \ cards : Backed(outbox', c, bot)
  BY <1>3
<1> QED BY <1>3, <1>8, <1>9, <1>11, <1>13, <1>14, BackKept

(* A bot keeps the cards it can edit while another one is in use. *)
LEMMA BindBack == ASSUME OInv, BackInv, NEW b \in Bots, BindBot(b) PROVE BackInv'
<1>1. /\ \A v \in Workers : worker'[v] = Idle
      /\ bot' = b /\ OldBot(b) \in Bots
      /\ OldBot(b) \in sessions => UNCHANGED outbox
      /\ OldBot(b) \notin sessions => sessions = {}
      /\ DOMAIN outbox' = DOMAIN outbox
      /\ \A j \in DOMAIN outbox : outbox'[j].delivered = outbox[j].delivered
  BY BindEffect DEF Done
<1>2. \A v \in Workers : EditBacked(v)'
  <2>1. Idle.phase = "idle"
    BY DEF Idle
  <2> QED BY <2>1, <1>1 DEF EditBacked
<1>3. botCards \in [Bots -> SUBSET Cards]
  BY DEF OInv, TypeOK
<1>4. CASE sessions = {}
  <2>1. \A j \in DOMAIN outbox : outbox[j].delivered = 0 /\ ~outbox[j].fresh
    BY <1>4, RowsAreRows DEF OInv, BotsOK, RowOK
  <2>2. cards = {} /\ \A c \in Bots : c # bot => botCards[c] = {}
    BY <2>1 DEF BackInv, CardsBacked, CardsOf, Backed
  <2>3. ASSUME NEW c \in Bots PROVE CardsOf(c)' = {}
    <3>1. CASE OldBot(b) = b
      <4>1. UNCHANGED <<cards, botCards>> /\ (bot = NoBot \/ bot = b)
        BY <3>1 DEF BindBot, OldBot
      <4> QED BY <4>1, <2>2, <1>1, OutboxAssumption DEF CardsOf
    <3>2. CASE OldBot(b) # b
      <4>1. /\ botCards' = [botCards EXCEPT ![bot] = cards] /\ cards' = botCards[b]
            /\ bot = OldBot(b) /\ bot # b
        BY <3>2 DEF BindBot, OldBot
      <4> QED BY <4>1, <2>2, <1>1, <1>3 DEF CardsOf
    <3> QED BY <3>1, <3>2
  <2>4. CardsBacked'
    BY <2>3, <1>1 DEF CardsBacked
  <2>5. RowsBacked'
    BY <2>1, <1>1 DEF RowsBacked
  <2> QED BY <1>2, <2>4, <2>5 DEF BackInv
<1>5. CASE sessions # {}
  <2>1. UNCHANGED outbox /\ bot \in Bots
    BY <1>1, <1>5, OutboxAssumption DEF OInv, BotsOK, TypeOK
  <2>2. \A c \in Bots : CardsOf(c)' = CardsOf(c)
    BY <1>5, CardsOfBots
  <2>3. CardsBacked'
    BY <2>1, <2>2, <1>1 DEF BackInv, CardsBacked
  <2>4. RowsBacked'
    BY <2>1 DEF BackInv, RowsBacked
  <2> QED BY <1>2, <2>3, <2>4 DEF BackInv
<1> QED BY <1>4, <1>5

LEMMA OtherBack ==
  ASSUME OInv, BackInv,
         \/ \E chat \in Chats, kind \in Kinds, card \in Cards \cup {NoCard} :
              Enqueue(chat, kind, card)
         \/ \E w \in Workers : Pace(w) \/ Recheck(w) \/ LocalFailure(w)
         \/ Disconnect \/ Tick \/ \E b \in Bots : Restart(b)
         \/ UNCHANGED vars
  PROVE  BackInv'
<1>1. /\ outbox \in [DOMAIN outbox -> Row] /\ DOMAIN outbox = 1..Len(outbox)
      /\ Len(outbox) \in Nat
  BY RowsAreRows DEF OInv
<1>2. ASSUME UNCHANGED <<outbox, bot, cards, botCards>>,
             \A v \in Workers : \/ worker'[v] = worker[v] \/ worker'[v] = Idle
                                \/ \E to \in {"paced", "ready"} :
                                     /\ worker'[v] = [worker[v] EXCEPT !.phase = to]
                                     /\ worker[v].phase \in {"claimed", "paced"}
      PROVE  BackInv'
  <2>1. SameRows
    BY <1>2 DEF SameRows
  <2> QED BY <1>2, <2>1, QuietBack
<1>3. ASSUME NEW chat \in Chats, NEW kind \in Kinds, NEW card \in Cards \cup {NoCard},
             Enqueue(chat, kind, card)
      PROVE  BackInv'
  <2> DEFINE r == NewRow(chat, kind, card, bot)
  <2>1. kind \in MessageKinds \cup GroupKinds /\ bot \in Bots \cup {NoBot} /\ outbox \in Seq(Row)
    BY OutboxAssumption DEF OInv, TypeOK
  <2>2. r \in Row
    BY <2>1, NewRowType
  <2>3. r.delivered = 0
    BY DEF NewRow
  <2>4. outbox' = Append(outbox, r) /\ UNCHANGED <<worker, bot, cards, botCards>>
    BY <1>3 DEF Enqueue, tables
  <2> HIDE DEF r
  <2>5. /\ DOMAIN outbox' = 1..(Len(outbox) + 1) /\ outbox'[Len(outbox) + 1] = r
        /\ \A j \in DOMAIN outbox : outbox'[j] = outbox[j]
    BY <2>1, <2>2, <2>4, RowsAppend
  <2>6. SameRows
    BY <1>1, <2>5 DEF SameRows
  <2>7. \A j \in DOMAIN outbox' \ DOMAIN outbox : outbox'[j].delivered = 0
    BY <1>1, <2>3, <2>5
  <2>8. \A v \in Workers : worker'[v] = worker[v]
    BY <2>4
  <2> QED BY <2>4, <2>5, <2>6, <2>7, <2>8, QuietBack
<1>4. ASSUME NEW w \in Workers, Pace(w) \/ Recheck(w) \/ LocalFailure(w) PROVE BackInv'
  <2>1. UNCHANGED <<outbox, bot, cards, botCards>>
    BY <1>4 DEF Pace, Recheck, LocalFailure, tables
  <2>2. ASSUME NEW v \in Workers
        PROVE  \/ worker'[v] = worker[v] \/ worker'[v] = Idle
               \/ \E to \in {"paced", "ready"} :
                    /\ worker'[v] = [worker[v] EXCEPT !.phase = to]
                    /\ worker[v].phase \in {"claimed", "paced"}
    BY <1>4, WorkersAreWorkers DEF Pace, Recheck, LocalFailure, OInv
  <2> QED BY <1>2, <2>1, <2>2
<1>5. ASSUME Disconnect \/ UNCHANGED vars PROVE BackInv'
  BY <1>2, <1>5 DEF Disconnect, vars, tables
<1>6. ASSUME Tick PROVE BackInv'
  <2>1. DOMAIN outbox' = DOMAIN outbox
    BY <1>6 DEF Tick
  <2>2. ASSUME NEW j \in DOMAIN outbox
        PROVE  /\ outbox'[j].chat = outbox[j].chat /\ outbox'[j].kind = outbox[j].kind
               /\ outbox'[j].card = outbox[j].card /\ outbox'[j].owner = outbox[j].owner
               /\ outbox'[j].fresh = outbox[j].fresh /\ outbox'[j].state = outbox[j].state
               /\ outbox'[j].delivered = outbox[j].delivered
    <3>1. PICK r \in Row : r = outbox[j]
      BY <1>1
    <3>2. outbox'[j] = [r EXCEPT !.due = Less(@)]
      BY <3>1, <1>6 DEF Tick
    <3> QED BY <3>1, <3>2 DEF Row
  <2>3. SameRows
    BY <2>1, <2>2 DEF SameRows
  <2>4. UNCHANGED <<bot, cards, botCards>> /\ \A v \in Workers : worker'[v] = worker[v]
    BY <1>6 DEF Tick
  <2> QED BY <2>1, <2>2, <2>3, <2>4, QuietBack
<1>7. ASSUME NEW b \in Bots, Restart(b) PROVE BackInv'
  <2>1. DOMAIN outbox' = DOMAIN outbox /\ \A j \in DOMAIN outbox : outbox'[j] = Repaired(outbox[j])
    BY <1>7 DEF Restart
  <2>2. ASSUME NEW j \in DOMAIN outbox
        PROVE  /\ outbox'[j].chat = outbox[j].chat /\ outbox'[j].kind = outbox[j].kind
               /\ outbox'[j].card = outbox[j].card /\ outbox'[j].owner = outbox[j].owner
               /\ outbox'[j].fresh = outbox[j].fresh /\ outbox'[j].delivered = outbox[j].delivered
               /\ outbox[j].state # "INFLIGHT" => outbox'[j].state = outbox[j].state
    BY <1>1, <2>1, RepairedType
  <2>3. SameRows
    BY <2>1, <2>2 DEF SameRows
  <2>4. UNCHANGED <<bot, cards, botCards>> /\ \A v \in Workers : worker'[v] = Idle
    BY <1>7 DEF Restart, tables
  <2> QED BY <2>1, <2>2, <2>3, <2>4, QuietBack
<1> QED BY <1>3, <1>4, <1>5, <1>6, <1>7

LEMMA NextBackInv == ASSUME OInv, BackInv, [Next]_vars PROVE BackInv'
<1>1. CASE UNCHANGED vars
  BY <1>1, OtherBack
<1>2. ASSUME NEW w \in Workers, Work(w) PROVE BackInv'
  BY <1>2, ClaimBack, HandedBackBack, OtherBack, TransmitBack, SentBack, DroppedBack
     DEF Work, Send, Record
<1>3. CASE Operator
  BY <1>3, SettledBack DEF Operator
<1>4. ASSUME NEW b \in Bots, Restart(b) \/ BindBot(b) PROVE BackInv'
  BY <1>4, OtherBack, BindBack
<1> QED BY <1>1, <1>2, <1>3, <1>4, OtherBack DEF Next

LEMMA InitBackInv == Init => BackInv
<1> SUFFICES ASSUME Init PROVE BackInv
  OBVIOUS
<1>1. \A j \in DOMAIN outbox : outbox[j].delivered = 0
  BY DEF Init, NewRow
<1>2. \A v \in Workers : worker[v].phase = "idle"
  BY DEF Init, Idle
<1>3. \A b \in Bots \cup {bot} : CardsOf(b) = {}
  BY DEF Init, CardsOf
<1> QED BY <1>1, <1>2, <1>3 DEF BackInv, CardsBacked, EditBacked, RowsBacked

(* Of the rows of a round card each bot posts one as a message of its own; *)
(* the others edit a message of this very bot (outbox.go:255,              *)
(* client.go:325, and the tables cards and bot_cards), over failures,      *)
(* restarts, decisions of an operator and switches of bots.                *)
THEOREM CardsArePostedOnce == Spec => []CardPostedOnce
<1>1. ASSUME OInv, CardInv, BackInv, D!InOrder, [Next]_vars PROVE (CardInv /\ BackInv)'
  BY <1>1, NextCardInv, NextBackInv
<1>2. OInv /\ CardInv /\ BackInv => CardPostedOnce
  BY DEF CardInv, PostedOnce, BackInv, RowsBacked, Backed, CardPostedOnce, OfOneCard, SameOwner
<1>3. Init => CardInv /\ BackInv
  BY InitCardInv, InitBackInv
<1> QED BY <1>1, <1>2, <1>3, OutboxInvariant, OutboxSendsInOrder, PTL DEF Spec

-----------------------------------------------------------------------------
(* The outbox with the group's tasks *)

(* A step of applyGroupPermission answers the worker, or only goes on.     *)
Calls(w) == ReadState(w) \/ GetChat(w) \/ SaveSnapshot(w) \/ SetPermissions(w)

Responds(w, answer, wait) ==
  /\ worker' = [worker EXCEPT ![w] = [worker[w] EXCEPT !.phase = "answered", !.answer = answer,
                                                       !.wait = wait]]
  /\ wait # 0 => answer = "limited"
  /\ Gate(w, wait) /\ faults' \in 0..MaxFaults
  /\ seen' = [seen EXCEPT ![w] = Unseen]

GroupAnswers == {"ok", "same", "lost", "refused", "limited"}

LEMMA RespondIs ==
  ASSUME OInv, NEW w \in Workers, NEW answer \in GroupAnswers, NEW wait \in Waits \cup {0},
         wait # 0 => answer = "limited",
         Respond(w, answer, wait), UNCHANGED faults \/ Charge(answer)
  PROVE  Responds(w, answer, wait)
<1>1. faults' \in 0..MaxFaults
  <2>1. faults \in 0..MaxFaults
    BY DEF OInv, TypeOK
  <2> QED BY <2>1, ChargeBound
<1>2. worker' = [worker EXCEPT ![w] = [worker[w] EXCEPT !.phase = "answered", !.answer = answer,
                                                        !.wait = wait]]
  BY WorkersAreWorkers DEF Respond, OInv, WorkerType
<1> QED BY <1>1, <1>2 DEF Respond, Responds

LEMMA FailsIs ==
  ASSUME OInv, NEW w \in Workers, Fails(w)
  PROVE  \E answer \in {"lost", "refused", "limited"}, wait \in Waits \cup {0} :
           Responds(w, answer, wait)
<1>1. PICK answer \in {"lost", "refused", "limited"}, wait \in Waits \cup {0} :
        /\ wait # 0 => answer = "limited"
        /\ Charge(answer) /\ Respond(w, answer, wait)
  BY DEF Fails
<1>2. answer \in GroupAnswers
  BY DEF GroupAnswers
<1>3. Responds(w, answer, wait)
  BY <1>1, <1>2, RespondIs
<1> QED BY <1>3

LEMMA CallEffect ==
  ASSUME OInv, NEW w \in Workers, Calls(w)
  PROVE  /\ UNCHANGED <<outbox, tables, process, roundState, task>>
         /\ worker[w].phase = "ready" /\ IsGroup(worker[w].row)
         /\ \/ UNCHANGED vars
            \/ \E answer \in GroupAnswers, wait \in Waits \cup {0} : Responds(w, answer, wait)
<1>1. /\ UNCHANGED <<outbox, tables, process, roundState, task>>
      /\ worker[w].phase = "ready" /\ IsGroup(worker[w].row)
  BY DEF Calls, ReadState, GetChat, SaveSnapshot, SetPermissions, AtStep
<1>2. CASE Respond(w, "same", 0) /\ UNCHANGED faults
  BY <1>1, <1>2, RespondIs DEF GroupAnswers
<1>3. CASE Respond(w, "ok", 0) /\ Charge("ok")
  BY <1>1, <1>3, RespondIs DEF GroupAnswers
<1>4. CASE Fails(w)
  BY <1>1, <1>4, FailsIs DEF GroupAnswers
<1>5. CASE UNCHANGED <<worker, memPause, waits, faults>>
  BY <1>1, <1>5 DEF vars, tables, process
<1>6. UNCHANGED faults \/ ~Charge("ok")
  BY DEF Charge
<1> QED BY <1>1, <1>2, <1>3, <1>4, <1>5, <1>6
       DEF Calls, ReadState, GetChat, SaveSnapshot, SetPermissions, Advance

LEMMA CallInv == ASSUME OInv, NEW w \in Workers, Calls(w) PROVE OInv'
<1>1. /\ UNCHANGED <<outbox, tables, process, roundState, task>>
      /\ worker[w].phase = "ready" /\ IsGroup(worker[w].row)
      /\ \/ UNCHANGED vars
         \/ \E answer \in GroupAnswers, wait \in Waits \cup {0} : Responds(w, answer, wait)
  BY CallEffect
<1>2. CASE UNCHANGED vars
  BY <1>2, StutterInv
<1>3. ASSUME NEW answer \in GroupAnswers, NEW wait \in Waits \cup {0}, Responds(w, answer, wait)
      PROVE  OInv'
  <2>1. /\ worker \in [Workers -> WorkerType] /\ worker[w] \in WorkerType
    BY WorkersAreWorkers DEF OInv
  <2>2. wait \in 0..MaxWait /\ wait \in Nat /\ MaxWait \in Nat
    BY WaitBounds
  <2>3. /\ answer \in Answers /\ answer \notin {"none", "noId"}
    BY DEF GroupAnswers, Answers
  <2>4. /\ worker' \in [Workers -> WorkerType]
        /\ \A v \in Workers \ {w} : worker'[v] = worker[v]
        /\ worker'[w].phase = "answered" /\ worker'[w].answer = answer
        /\ worker'[w].wait = wait /\ worker'[w].row = worker[w].row
        /\ wait # 0 => answer = "limited"
    BY <1>3, <2>1, <2>2, <2>3 DEF Responds, WorkerType, Phases
  <2>5. worker[w].phase # "idle" /\ UNCHANGED <<tables, process>>
    BY <1>1
  <2>6. OtherTypes' /\ UNCHANGED <<bot, sessions, bound, configured>>
    BY <1>3, <2>5, OtherTypesGate DEF Responds
  <2>7. GoesOn(w)
    <3>1. Held(w).state = "INFLIGHT" /\ Held(w) = outbox[worker[w].row]
      BY <1>1, HeldFacts
    <3> QED BY <1>1, <2>3, <2>4, <3>1 DEF GoesOn
  <2> QED BY <1>1, <2>4, <2>6, <2>7, WorkerStep
<1> QED BY <1>1, <1>2, <1>3

(* What sendGroupPermission records. *)
LEMMA RecordEffect ==
  ASSUME OInv, NEW w \in Workers, RecordGroup(w)
  PROVE  /\ UNCHANGED <<tables, process, memPause, waits, faults, gvars>>
         /\ worker[w].phase = "answered" /\ IsGroup(worker[w].row)
         /\ \E state \in {"SENT", "FAILED", "PENDING", "UNKNOWN"}, due \in Nat, note \in BOOLEAN :
              /\ Release(w, With(Held(w), state, due, note))
              /\ state = "SENT" => worker[w].answer \in {"ok", "same"} /\ note
<1>1. worker[w].phase = "answered" /\ Held(w).kind \in GroupKinds
      /\ UNCHANGED <<tables, process, memPause, waits, faults, gvars>>
  BY DEF RecordGroup, Answered
<1>2. CASE worker[w].answer \in {"ok", "same"}
  BY <1>1, <1>2 DEF RecordGroup, Held, IsGroup
<1>3. CASE worker[w].answer = "refused"
  BY <1>1, <1>3 DEF RecordGroup, Held, IsGroup
<1>4. CASE worker[w].answer = "lost"
  <2>1. PICK state \in {"PENDING", "UNKNOWN"} : Release(w, With(Held(w), state, 1, FALSE))
    BY <1>4 DEF RecordGroup
  <2> QED BY <1>1, <2>1 DEF Held, IsGroup
<1> QED BY <1>2, <1>3, <1>4 DEF RecordGroup, Answered

LEMMA RecordGroupInv == ASSUME OInv, NEW w \in Workers, RecordGroup(w) PROVE OInv'
<1>1. PICK state \in {"SENT", "FAILED", "PENDING", "UNKNOWN"}, due \in Nat, note \in BOOLEAN :
        Release(w, With(Held(w), state, due, note))
  BY RecordEffect
<1>2. worker[w].phase # "idle" /\ UNCHANGED <<tables, process, memPause, waits, faults>>
  BY RecordEffect
<1>3. OtherTypes' /\ UNCHANGED <<bot, sessions, bound, configured>>
  BY <1>2, OtherTypesStay DEF OInv
<1>4. state \in States
  BY DEF States
<1> QED BY <1>1, <1>2, <1>3, <1>4, ReleasedRow

(* Closing a round and ending it queue a task, or touch no row. *)
LEMMA RoundEffect ==
  ASSUME NEW r \in Rounds, (\E mute \in BOOLEAN : CloseRound(r, mute)) \/ EndRound(r)
  PROVE  /\ UNCHANGED <<tables, process, memPause, worker, waits, faults, original, perms, seen,
                         crossed>>
         /\ \/ UNCHANGED vars
            \/ \E kind \in GroupKinds : outbox' = Append(outbox, NewRow(Group, kind, NoCard, bot))
BY DEF CloseRound, EndRound, QueueTask, GroupKinds, vars, tables, process

LEMMA RoundInv ==
  ASSUME OInv, NEW r \in Rounds, (\E mute \in BOOLEAN : CloseRound(r, mute)) \/ EndRound(r)
  PROVE  OInv'
<1>1. UNCHANGED <<tables, process, memPause, worker, waits, faults>>
  BY RoundEffect
<1>2. CASE UNCHANGED vars
  BY <1>2, StutterInv
<1>3. ASSUME NEW kind \in GroupKinds, outbox' = Append(outbox, NewRow(Group, kind, NoCard, bot))
      PROVE  OInv'
  <2>1. kind \in MessageKinds \cup GroupKinds /\ Group \in Chats /\ NoCard \in Cards \cup {NoCard}
    BY OutboxAssumption
  <2> QED BY <1>1, <1>3, <2>1, QueueInv
<1> QED BY <1>2, <1>3, RoundEffect

LEMMA GroupNextOInv == ASSUME OInv, [GroupNext]_allVars PROVE OInv'
<1>1. CASE UNCHANGED allVars
  BY <1>1, StutterInv DEF allVars
<1>2. ASSUME NEW r \in Rounds, (\E mute \in BOOLEAN : CloseRound(r, mute)) \/ EndRound(r)
      PROVE  OInv'
  BY <1>2, RoundInv
<1>3. ASSUME NEW w \in Workers, GroupWork(w) PROVE OInv'
  <2>1. CASE GroupClaim(w) \/ Send(w)
    <3>1. Work(w)
      BY <2>1 DEF GroupClaim, Work
    <3> QED BY <3>1, NextOInv DEF Next
  <2>2. CASE Calls(w)
    BY <2>2, CallInv
  <2>3. CASE RecordGroup(w)
    BY <2>3, RecordGroupInv
  <2> QED BY <1>3, <2>1, <2>2, <2>3 DEF GroupWork, Calls
<1>4. CASE Next
  BY <1>4, NextOInv
<1> QED BY <1>1, <1>2, <1>3, <1>4 DEF GroupNext, GroupAck, Next, Operator

LEMMA CallMaps ==
  ASSUME OInv, OInv', NEW w \in Workers, Calls(w), worker' # worker
  PROVE  D!Next
<1>1. /\ UNCHANGED <<outbox, tables, process, roundState, task>>
      /\ worker[w].phase = "ready" /\ IsGroup(worker[w].row)
      /\ \/ UNCHANGED vars
         \/ \E answer \in GroupAnswers, wait \in Waits \cup {0} : Responds(w, answer, wait)
  BY CallEffect
<1>2. PICK answer \in GroupAnswers, wait \in Waits \cup {0} : Responds(w, answer, wait)
  BY <1>1 DEF vars
<1>3. PICK i \in DOMAIN outbox : i = worker[w].row /\ outbox[i].state = "INFLIGHT"
  BY <1>1, HeldFacts
<1>4. worker'[w].row = i /\ \A v \in Workers \ {w} : worker'[v] = worker[v]
  BY <1>2, <1>3, WorkersAreWorkers DEF Responds, OInv, WorkerType
<1>5. Licensed(i)
  BY <1>1, <1>3 DEF Licensed
<1> QED BY <1>1, <1>3, <1>4, <1>5, WorkerMaps

(* A task is over, or stays licensed. *)
LEMMA RecordGroupMaps ==
  ASSUME OInv, OInv', NEW w \in Workers, RecordGroup(w)
  PROVE  D!Next
<1>1. PICK state \in {"SENT", "FAILED", "PENDING", "UNKNOWN"}, due \in Nat, note \in BOOLEAN :
        /\ Release(w, With(Held(w), state, due, note))
        /\ state = "SENT" => worker[w].answer \in {"ok", "same"} /\ note
  BY RecordEffect
<1>2. worker[w].phase # "idle" /\ IsGroup(worker[w].row)
  BY RecordEffect
<1>3. PICK i \in DOMAIN outbox : i = worker[w].row
  BY <1>2, HeldFacts
<1>4. /\ Held(w) = outbox[i] /\ outbox[i].state = "INFLIGHT" /\ outbox[i].noted = FALSE
      /\ outbox[i] \in Row
  BY <1>2, <1>3, HeldFacts
<1> DEFINE r == With(outbox[i], state, due, note)
<1>5. state \in States
  BY DEF States
<1>6. /\ r \in Row
      /\ r.chat = outbox[i].chat /\ r.kind = outbox[i].kind /\ r.owner = outbox[i].owner
      /\ r.delivered = outbox[i].delivered /\ r.retries = outbox[i].retries
      /\ r.state = state /\ (r.noted <=> (state = "SENT" /\ note))
  <2>1. PICK q \in Row : q = outbox[i]
    BY <1>4
  <2>2. LET s == With(q, state, due, note)
        IN /\ s \in Row
           /\ s.chat = q.chat /\ s.kind = q.kind /\ s.owner = q.owner
           /\ s.delivered = q.delivered /\ s.retries = q.retries
           /\ s.state = state /\ (s.noted <=> (state = "SENT" /\ note))
    BY <1>5, WithType
  <2> QED BY <2>1, <2>2
<1>7. outbox' = [outbox EXCEPT ![i] = r] /\ worker' = [worker EXCEPT ![w] = Idle]
  BY <1>1, <1>3, <1>4 DEF Release
<1> HIDE DEF r
<1>8. /\ outbox'[i] = r /\ i \in DOMAIN outbox' /\ IsGroup(i) /\ IsGroup(i)'
  BY <1>2, <1>3, <1>6, <1>7, RowsAreRows DEF OInv, IsGroup
<1>9. ASSUME NEW v \in Workers
      PROVE  worker'[v] = worker[v] \/ (worker[v].row \in {0, i} /\ worker'[v].row \in {0, i})
  BY <1>3, <1>7, WorkersAreWorkers, IdleType DEF OInv
<1>10. LicenceFacts /\ LicenceFacts'
  BY Licences, NextLicences
<1>11. Licensed(i)
  BY <1>4, <1>8 DEF Licensed
<1>12. CASE state # "SENT"
  <2>1. Licensed(i)'
    BY <1>6, <1>8, <1>12 DEF Licensed
  <2>2. (r.state = "SENT") = (outbox[i].state = "SENT")
    BY <1>4, <1>6, <1>12
  <2>3. r.noted = outbox[i].noted
    BY <1>4, <1>6, <1>12 DEF Row
  <2> QED BY <1>6, <1>7, <1>9, <1>11, <2>1, <2>2, <2>3, LapseMaps
<1>13. CASE state = "SENT"
  <2> DEFINE closed == {i}
             none == {}
  <2>1. ~Licensed(i)'
    BY <1>6, <1>8, <1>10, <1>13 DEF LicenceFacts
  <2>2. /\ closed \in SUBSET {i} /\ closed \in SUBSET closed /\ closed # {}
        /\ none \in SUBSET {i} /\ none = {}
    OBVIOUS
  <2> HIDE DEF closed, none
  <2>3. (r.state = "SENT") = (outbox[i].state = "SENT" \/ closed # {})
    BY <2>2, <1>6, <1>13
  <2>4. r.noted = (outbox[i].noted \/ closed # {})
    BY <1>1, <1>4, <1>6, <1>13, <2>2 DEF Row
  <2>5. closed # {} => outbox[i].state # "SENT" /\ (outbox[i].delivered > 0 \/ closed # {})
    BY <1>4
  <2>6. Licensed(i)' <=> (Licensed(i) /\ none = {} /\ closed = {})
    BY <2>1, <2>2
  <2> QED BY <1>6, <1>7, <1>9, <2>2, <2>3, <2>4, <2>5, <2>6, RowMaps
<1> QED BY <1>12, <1>13

LEMMA RoundMaps ==
  ASSUME OInv, OInv', NEW r \in Rounds, (\E mute \in BOOLEAN : CloseRound(r, mute)) \/ EndRound(r),
         ~UNCHANGED vars
  PROVE  D!Next
<1>1. UNCHANGED <<worker, bot>>
  BY RoundEffect DEF tables
<1>2. PICK kind \in GroupKinds : outbox' = Append(outbox, NewRow(Group, kind, NoCard, bot))
  BY RoundEffect
<1>3. kind \in MessageKinds \cup GroupKinds /\ Group \in Chats /\ NoCard \in Cards \cup {NoCard}
  BY OutboxAssumption
<1> QED BY <1>1, <1>2, <1>3, QueueMaps

LEMMA SameItems == UNCHANGED <<outbox, worker>> => UNCHANGED Items
BY DEF Items, Licensed, IsGroup

LEMMA GroupNextMaps == ASSUME OInv, OInv', [GroupNext]_allVars PROVE [D!Next]_Items
<1>1. CASE UNCHANGED vars
  BY <1>1, SameItems DEF vars
<1>2. ASSUME NEW r \in Rounds, (\E mute \in BOOLEAN : CloseRound(r, mute)) \/ EndRound(r)
      PROVE  [D!Next]_Items
  BY <1>1, <1>2, RoundMaps
<1>3. ASSUME NEW w \in Workers, Calls(w) PROVE [D!Next]_Items
  <2>1. CASE worker' # worker
    BY <1>3, <2>1, CallMaps
  <2>2. CASE worker' = worker
    BY <1>3, <2>2, SameItems, CallEffect
  <2> QED BY <2>1, <2>2
<1>4. CASE Next
  BY <1>4, NextMaps
<1> QED BY <1>1, <1>2, <1>3, <1>4, RecordGroupMaps
       DEF GroupNext, GroupWork, GroupClaim, Work, Calls, GroupAck, Next, Operator, allVars

(* With the group's tasks among the rows, too, what a worker holds is held *)
(* by it alone, through the several calls of a task.                       *)
THEOREM TasksAreHeldAlone == GroupSpec => []HeldAlone
<1>1. GroupInit => OInv
  BY InitOInv DEF GroupInit
<1>2. ASSUME OInv PROVE HeldAlone
  <2>1. ASSUME NEW w \in Workers, worker[w] # Idle
        PROVE  /\ Held(w).state = "INFLIGHT" /\ Active(worker[w].row)
               /\ \A v \in Workers \ {w} : worker[v].row # worker[w].row
    BY <1>2, <2>1 DEF OInv, WorkerOK, Holding
  <2> QED BY <1>2, <2>1 DEF HeldAlone, OInv
<1> QED BY <1>1, <1>2, GroupNextOInv, PTL DEF GroupSpec

(* And the outbox keeps the promise of module Delivery with them, whatever *)
(* becomes of rounds, calls and permissions.                               *)
THEOREM TasksKeepPromise == GroupSpec => ImplementsDelivery
<1>1. GroupInit => OInv /\ D!Init
  BY InitOInv, InitMaps DEF GroupInit
<1>2. ASSUME OInv, OInv', [GroupNext]_allVars PROVE [D!Next]_Items
  BY <1>2, GroupNextMaps
<1> QED BY <1>1, <1>2, GroupNextOInv, PTL DEF GroupSpec, ImplementsDelivery, D!Spec

-----------------------------------------------------------------------------
(* The permissions of the group *)

(* What there is of rounds and tasks but the history crossed. *)
roundVars == <<roundState, original, task, perms, seen>>

GroupTypes ==
  /\ roundState \in [Rounds -> {"open", "CLOSED", "ended"}]
  /\ original \in [Rounds -> Permissions \cup {NotSaved}]
  /\ task \in [Rounds -> [mute : Nat, restore : Nat]]
  /\ perms \in Permissions
  /\ seen \in [Workers -> [step : Steps, permissions : Permissions \cup {NotSaved}]]

(* Rounds follow one another, and each has its tasks when it should. *)
RoundsOK ==
  \A r \in Rounds :
    /\ roundState[r] # "open" => \A s \in 1..(r - 1) : roundState[s] = "ended"
    /\ roundState[r] = "open" => task[r].mute = 0
    /\ task[r].restore # 0 => roundState[r] = "ended" /\ task[r].mute # 0
    /\ roundState[r] = "ended" /\ task[r].mute # 0 => task[r].restore # 0
    /\ original[r] # NotSaved => original[r] = "own" /\ task[r].mute # 0

(* The tasks are the rows of the group's lane, in the order of the rounds. *)
TasksOK ==
  /\ \A r \in Rounds :
       /\ task[r].mute # 0 => /\ task[r].mute \in DOMAIN outbox
                              /\ outbox[task[r].mute].kind = "mute"
       /\ task[r].restore # 0 => /\ task[r].restore \in DOMAIN outbox
                                 /\ outbox[task[r].restore].kind = "restore"
                                 /\ task[r].mute < task[r].restore
       /\ \A s \in 1..(r - 1) :
            task[r].mute # 0 => task[s].mute < task[r].mute /\ task[s].restore < task[r].mute
  /\ \A i \in DOMAIN outbox :
       IsGroup(i) => /\ outbox[i].chat = Group
                     /\ \E r \in Rounds : i \in {task[r].mute, task[r].restore}

(* No task is begun, and no permissions are saved, before every restore    *)
(* ahead of it is through.                                                 *)
Turns ==
  /\ \A i, j \in DOMAIN outbox :
       IsGroup(i) /\ outbox[i].state # "PENDING" /\ j < i /\ outbox[j].kind = "restore"
       => outbox[j].state = "SENT"
  /\ \A r \in Rounds : original[r] # NotSaved
       => \A s \in 1..(r - 1) : task[s].restore # 0 => outbox[task[s].restore].state = "SENT"

(* What a worker has read is of its round, and a mute that goes on keeps   *)
(* its round's restore waiting.                                            *)
SeenOK ==
  \A w \in Workers :
    /\ seen[w].step # "none" => worker[w].phase = "ready" /\ IsGroup(worker[w].row)
    /\ seen[w].step \in {"fetch", "save"} => Mutes(w)
    /\ seen[w].step = "none" => seen[w] = Unseen
    /\ seen[w].step \in {"save", "set"} => seen[w].permissions = "own"
    /\ \A r \in Rounds : worker[w].row = task[r].mute /\ seen[w].step # "none"
         => /\ seen[w].step = "set" <=> original[r] # NotSaved
            /\ task[r].restore # 0 => outbox[task[r].restore].state = "PENDING"

(* The group is muted only for a round whose restore is still to come, and *)
(* a restore that is about to be recorded has restored it.                 *)
PermsOK ==
  /\ perms = "muted" => \E r \in Rounds : original[r] # NotSaved /\ ~Sent(task[r].restore)
  /\ \A w \in Workers, r \in Rounds :
       worker[w].phase = "answered" /\ worker[w].row # 0 /\ worker[w].row = task[r].restore
       => /\ worker[w].answer = "ok" => perms = "own"
          /\ worker[w].answer = "same" => original[r] = NotSaved

GInv == OInv /\ GroupTypes /\ RoundsOK /\ TasksOK /\ Turns /\ SeenOK /\ PermsOK

(* The tasks of a round. *)
LEMMA TaskFacts ==
  ASSUME GInv, NEW r \in Rounds
  PROVE  /\ task[r].mute \in Nat /\ task[r].restore \in Nat /\ r \in Nat
         /\ task[r].mute # 0 => /\ task[r].mute \in DOMAIN outbox /\ IsGroup(task[r].mute)
                                /\ outbox[task[r].mute].kind = "mute"
         /\ task[r].restore # 0 => /\ task[r].restore \in DOMAIN outbox /\ IsGroup(task[r].restore)
                                   /\ outbox[task[r].restore].kind = "restore"
                                   /\ task[r].mute # 0
         /\ \A s \in 1..(r - 1) : s \in Rounds
<1>1. task[r] \in [mute : Nat, restore : Nat] /\ r \in Nat /\ \A s \in 1..(r - 1) : s \in Rounds
  BY GroupAssumption DEF GInv, GroupTypes, Rounds
<1> QED BY <1>1 DEF GInv, TasksOK, RoundsOK, IsGroup, GroupKinds

(* The round of a row of the group's lane is one. *)
LEMMA OneRound ==
  ASSUME GInv, NEW i \in DOMAIN outbox, NEW r \in Rounds, NEW s \in Rounds,
         i \in {task[r].mute, task[r].restore}, i \in {task[s].mute, task[s].restore}
  PROVE  r = s /\ (outbox[i].kind = "mute" => i = task[r].mute)
         /\ (outbox[i].kind # "mute" => i = task[r].restore)
<1>1. i # 0 /\ i \in Nat
  BY RowsAreRows DEF GInv, OInv
<1>2. ASSUME NEW p \in Rounds, NEW q \in Rounds, p < q,
             i \in {task[p].mute, task[p].restore}, i \in {task[q].mute, task[q].restore}
      PROVE  FALSE
  <2>1. p \in 1..(q - 1)
    BY <1>2, TaskFacts DEF Rounds
  <2>2. task[q].mute # 0 /\ task[q].mute <= i
    BY <1>1, <1>2, TaskFacts DEF GInv, TasksOK
  <2>3. i < task[q].mute
    BY <1>2, <2>1, <2>2 DEF GInv, TasksOK
  <2> QED BY <2>2, <2>3, <1>1, <1>2, TaskFacts
<1>3. r = s
  <2>1. r \in Nat /\ s \in Nat
    BY TaskFacts
  <2>2. r < s \/ s < r \/ r = s
    BY <2>1
  <2> QED BY <2>2, <1>2
<1> QED BY <1>1, <1>3, TaskFacts

(* The rows keep what makes them tasks, and those that are through stay so. *)
SameTasks ==
  /\ DOMAIN outbox \subseteq DOMAIN outbox'
  /\ \A j \in DOMAIN outbox :
       /\ outbox'[j].chat = outbox[j].chat /\ outbox'[j].kind = outbox[j].kind
       /\ outbox[j].state = "SENT" => outbox'[j].state = "SENT"

(* A row of the lane that is begun comes after everything before it. *)
Turn(i) ==
  IsGroup(i) /\ outbox[i].state = "PENDING" /\ outbox'[i].state # "PENDING"
  => \A j \in DOMAIN outbox : j < i /\ IsGroup(j) => outbox[j].state = "SENT" \/ Passable(j)

(* A worker is as it was, or has read nothing, and says nothing of a task. *)
Silent(w) ==
  \/ seen'[w] = seen[w] /\ worker'[w] = worker[w]
  \/ /\ seen'[w] = Unseen
     /\ \/ worker'[w].phase # "answered"
        \/ worker'[w].row \in DOMAIN outbox /\ ~IsGroup(worker'[w].row)

LEMMA OutboxStep ==
  ASSUME GInv, OInv', SameTasks, \A j \in DOMAIN outbox' \ DOMAIN outbox : ~IsGroup(j)',
         UNCHANGED <<roundState, original, task>>, GroupTypes',
         \A i \in DOMAIN outbox : Turn(i),
         perms' = perms \/ perms' = "own",
         \/ perms' = "own"
         \/ \A r \in Rounds :
              /\ task[r].restore # 0 /\ outbox[task[r].restore].state # "SENT"
              /\ outbox'[task[r].restore].state = "SENT"
              => original[r] = NotSaved,
         \A w \in Workers : Silent(w)
  PROVE  GInv'
<1>1. DOMAIN outbox = 1..Len(outbox) /\ Len(outbox) \in Nat /\ DOMAIN outbox \subseteq Nat
  BY RowsAreRows DEF GInv, OInv
<1>2. \A j \in DOMAIN outbox : IsGroup(j)' <=> IsGroup(j)
  BY DEF SameTasks, IsGroup
<1>3. RoundsOK'
  BY DEF GInv, RoundsOK
<1>4. TasksOK'
  <2>1. ASSUME NEW r \in Rounds
        PROVE  /\ task[r].mute # 0 => /\ task[r].mute \in DOMAIN outbox'
                                      /\ outbox'[task[r].mute].kind = "mute"
               /\ task[r].restore # 0 => /\ task[r].restore \in DOMAIN outbox'
                                         /\ outbox'[task[r].restore].kind = "restore"
                                         /\ task[r].mute < task[r].restore
    BY TaskFacts DEF GInv, TasksOK, SameTasks
  <2>2. ASSUME NEW i \in DOMAIN outbox', IsGroup(i)'
        PROVE  outbox'[i].chat = Group /\ \E r \in Rounds : i \in {task[r].mute, task[r].restore}
    <3>1. i \in DOMAIN outbox /\ IsGroup(i)
      BY <2>2, <1>2
    <3> QED BY <3>1 DEF GInv, TasksOK, SameTasks
  <2> QED BY <2>1, <2>2 DEF GInv, TasksOK
<1>5. Turns'
  <2>1. ASSUME NEW i \in DOMAIN outbox', NEW j \in DOMAIN outbox', IsGroup(i)',
               outbox'[i].state # "PENDING", j < i, outbox'[j].kind = "restore"
        PROVE  outbox'[j].state = "SENT"
    <3>1. i \in DOMAIN outbox /\ IsGroup(i) /\ j \in DOMAIN outbox
      <4>1. i \in DOMAIN outbox /\ IsGroup(i)
        BY <2>1, <1>2
      <4>2. IsGroup(j)'
        BY <2>1 DEF IsGroup, GroupKinds
      <4> QED BY <4>1, <4>2
    <3>2. outbox[j].kind = "restore"
      BY <2>1, <3>1 DEF SameTasks
    <3>3. outbox[j].state = "SENT"
      BY <2>1, <3>1, <3>2 DEF GInv, Turns, Turn, Passable, IsGroup, GroupKinds
    <3> QED BY <3>1, <3>3 DEF SameTasks
  <2>2. ASSUME NEW r \in Rounds, original[r] # NotSaved, NEW s \in 1..(r - 1), task[s].restore # 0
        PROVE  outbox'[task[s].restore].state = "SENT"
    <3>1. s \in Rounds
      BY TaskFacts
    <3>2. outbox[task[s].restore].state = "SENT" /\ task[s].restore \in DOMAIN outbox
      BY <2>2, <3>1, TaskFacts DEF GInv, Turns
    <3> QED BY <3>2 DEF SameTasks
  <2> QED BY <2>1, <2>2 DEF Turns
<1>6. ASSUME NEW w \in Workers
      PROVE  /\ seen'[w].step # "none" => worker'[w].phase = "ready" /\ IsGroup(worker[w].row)'
             /\ seen'[w].step \in {"fetch", "save"} => Mutes(w)'
             /\ seen'[w].step = "none" => seen'[w] = Unseen
             /\ seen'[w].step \in {"save", "set"} => seen'[w].permissions = "own"
             /\ \A r \in Rounds : worker'[w].row = task[r].mute /\ seen'[w].step # "none"
                  => /\ seen'[w].step = "set" <=> original[r] # NotSaved
                     /\ task[r].restore # 0 => outbox'[task[r].restore].state = "PENDING"
  <2>1. CASE seen'[w] = Unseen
    BY <2>1 DEF Unseen
  <2>2. CASE seen[w].step # "none" /\ seen'[w] = seen[w] /\ worker'[w] = worker[w]
    <3>1. PICK i \in DOMAIN outbox : i = worker[w].row /\ Held(w) = outbox[i]
            /\ outbox[i].state = "INFLIGHT" /\ IsGroup(i)
      BY <2>2, HeldFacts DEF GInv, SeenOK
    <3>2. IsGroup(worker[w].row)'
      <4>1. IsGroup(i)'
        BY <3>1, <1>2
      <4> QED BY <4>1, <3>1, <2>2 DEF IsGroup
    <3>3. Mutes(w)' <=> Mutes(w)
      BY <2>2, <3>1 DEF Mutes, Held, SameTasks
    <3>4. ASSUME NEW r \in Rounds, worker'[w].row = task[r].mute, task[r].restore # 0
          PROVE  outbox'[task[r].restore].state = "PENDING"
      <4>1. PICK k \in DOMAIN outbox : k = task[r].restore /\ IsGroup(k) /\ i < k
        BY <2>2, <3>1, <3>4, TaskFacts DEF GInv, TasksOK
      <4>2. outbox[k].state = "PENDING"
        BY <2>2, <3>4, <4>1 DEF GInv, SeenOK
      <4>3. ~Passable(i) /\ outbox[i].state # "SENT"
        BY <3>1 DEF Passable
      <4> QED BY <4>1, <4>2, <4>3, <3>1 DEF Turn
    <3> QED BY <2>2, <3>2, <3>3, <3>4 DEF GInv, SeenOK
  <2>3. CASE seen[w].step = "none" /\ seen'[w] = seen[w]
    BY <2>1, <2>3 DEF GInv, SeenOK
  <2> QED BY <2>1, <2>2, <2>3 DEF Silent
<1>7. PermsOK'
  <2>1. ASSUME perms' = "muted"
        PROVE  \E r \in Rounds : original[r] # NotSaved /\ ~Sent(task[r].restore)'
    <3>1. PICK r \in Rounds : original[r] # NotSaved /\ ~Sent(task[r].restore)
      BY <2>1 DEF GInv, PermsOK
    <3>2. ~Sent(task[r].restore)'
      BY <2>1, <3>1, TaskFacts DEF Sent
    <3> QED BY <3>1, <3>2
  <2>2. ASSUME NEW w \in Workers, NEW r \in Rounds, worker'[w].phase = "answered",
               worker'[w].row # 0, worker'[w].row = task[r].restore
        PROVE  /\ worker'[w].answer = "ok" => perms' = "own"
               /\ worker'[w].answer = "same" => original[r] = NotSaved
    <3>1. IsGroup(worker'[w].row)
      BY <2>2, TaskFacts
    <3>2. worker'[w] = worker[w]
      BY <2>2, <3>1 DEF Silent
    <3> QED BY <2>2, <3>2 DEF GInv, PermsOK
  <2> QED BY <2>1, <2>2 DEF PermsOK
<1>8. SeenOK'
  BY <1>6 DEF SeenOK
<1> QED BY <1>3, <1>4, <1>5, <1>7, <1>8 DEF GInv

LEMMA NotCalling ==
  ASSUME GInv, NEW w \in Workers, worker[w].phase # "ready" \/ ~IsGroup(worker[w].row)
  PROVE  seen[w] = Unseen
BY DEF GInv, SeenOK

(* One row is rewritten: a task only by its worker or the operator. *)
LEMMA RowGroup ==
  ASSUME GInv, OInv', NEW i \in DOMAIN outbox, NEW r \in Row, outbox' = [outbox EXCEPT ![i] = r],
         outbox[i].state # "SENT", Turn(i),
         r.chat = outbox[i].chat, r.kind = outbox[i].kind, r.card = outbox[i].card,
         r.owner = outbox[i].owner, outbox[i].kind = "restore" => r.state # "SENT",
         UNCHANGED roundVars, \A w \in Workers : Silent(w)
  PROVE  GInv'
<1>1. /\ DOMAIN outbox' = DOMAIN outbox /\ outbox'[i] = r
      /\ \A j \in DOMAIN outbox : j # i => outbox'[j] = outbox[j]
  BY RowsAreRows DEF GInv, OInv
<1>2. SameTasks
  BY <1>1 DEF SameTasks
<1>3. \A j \in DOMAIN outbox : Turn(j)
  BY <1>1 DEF Turn
<1>4. UNCHANGED <<roundState, original, task, perms>> /\ GroupTypes'
  BY DEF roundVars, GInv, GroupTypes
<1>5. ASSUME NEW q \in Rounds, task[q].restore # 0, outbox[task[q].restore].state # "SENT"
      PROVE  outbox'[task[q].restore].state # "SENT"
  <2>1. PICK j \in DOMAIN outbox : j = task[q].restore /\ outbox[j].kind = "restore"
    BY <1>5, TaskFacts
  <2> QED BY <2>1, <1>1, <1>5
<1> QED BY <1>1, <1>2, <1>3, <1>4, <1>5, OutboxStep

LEMMA ReleaseGroup ==
  ASSUME GInv, OInv', NEW w \in Workers, worker[w].phase \in {"claimed", "paced", "answered"},
         NEW r \in Row, Release(w, r),
         r.chat = Held(w).chat, r.kind = Held(w).kind, r.card = Held(w).card,
         r.owner = Held(w).owner, Held(w).kind = "restore" => r.state # "SENT",
         UNCHANGED roundVars
  PROVE  GInv'
<1>1. PICK i \in DOMAIN outbox : i = worker[w].row /\ Held(w) = outbox[i]
        /\ outbox[i].state = "INFLIGHT"
  BY HeldFacts DEF GInv
<1>2. outbox' = [outbox EXCEPT ![i] = r] /\ worker' = [worker EXCEPT ![w] = Idle]
  BY <1>1 DEF Release
<1>3. worker'[w] = Idle /\ \A v \in Workers \ {w} : worker'[v] = worker[v]
  BY <1>2, WorkersAreWorkers DEF GInv, OInv
<1>4. seen'[w] = Unseen /\ \A v \in Workers : seen'[v] = seen[v]
  BY NotCalling DEF roundVars
<1>5. \A v \in Workers : Silent(v)
  BY <1>3, <1>4, IdleType DEF Silent, GInv, OInv
<1>6. Turn(i)
  BY <1>1 DEF Turn
<1> QED BY <1>1, <1>2, <1>5, <1>6, RowGroup

LEMMA WithGroup ==
  ASSUME GInv, OInv', NEW w \in Workers, worker[w].phase \in {"claimed", "paced", "answered"},
         NEW state \in States, NEW due \in Nat, NEW note \in BOOLEAN,
         Release(w, With(Held(w), state, due, note)),
         Held(w).kind = "restore" => state # "SENT", UNCHANGED roundVars
  PROVE  GInv'
<1> DEFINE r == With(Held(w), state, due, note)
<1>1. Held(w) \in Row
  BY HeldFacts DEF GInv
<1>2. /\ r \in Row /\ r.chat = Held(w).chat /\ r.kind = Held(w).kind /\ r.card = Held(w).card
      /\ r.owner = Held(w).owner /\ r.state = state
  BY <1>1, WithType
<1> HIDE DEF r
<1> QED BY <1>2, ReleaseGroup DEF r

LEMMA HandedBackGroup ==
  ASSUME GInv, OInv', UNCHANGED roundVars, NEW w \in Workers,
         GiveUp(w) \/ Defer(w) \/ RateLimit(w) \/ CompleteUnsent(w) \/ CompleteFailed(w)
  PROVE  GInv'
<1>1. worker[w].phase \in {"claimed", "paced", "answered"}
  BY DEF GiveUp, Defer, RateLimit, CompleteUnsent, CompleteFailed, Answered
<1>2. PICK r \in Row : HandsBack(w, r)
  BY HandedBack DEF GInv
<1> QED BY <1>1, <1>2, ReleaseGroup DEF HandsBack

LEMMA SentGroup ==
  ASSUME GInv, OInv', UNCHANGED roundVars, NEW w \in Workers, CompleteSent(w) \/ CompletePhoto(w)
  PROVE  GInv'
<1>1. worker[w].phase = "answered" /\ Held(w).kind # "restore"
  BY DEF CompleteSent, CompletePhoto, Answered, MessageKinds, PhotoKinds
<1> DEFINE note == worker[w].answer = "same"
<1>2. \/ Release(w, With(Held(w), "SENT", Cooldown, note))
      \/ Release(w, With(Held(w), "SENT", 0, TRUE))
  BY DEF CompleteSent, CompletePhoto
<1>3. note \in BOOLEAN /\ Cooldown \in Nat
  BY OutboxAssumption
<1> HIDE DEF note
<1> QED BY <1>1, <1>2, <1>3, WithGroup DEF States

(* A message is claimed, or a task behind which nothing waits. *)
LEMMA ClaimGroup ==
  ASSUME GInv, OInv', UNCHANGED roundVars, NEW w \in Workers, Claim(w), ~Overtakes(NextRow)
  PROVE  GInv'
<1>1. PICK i \in DOMAIN outbox : i = NextRow /\ i \in Claimable
  BY NextRowWaits DEF Claim, GInv, OInv
<1>2. /\ outbox[i] \in Row /\ outbox[i].state = "PENDING" /\ outbox[i].owner = bot
      /\ ~Blocked(i) /\ i \in Nat /\ DOMAIN outbox = 1..Len(outbox) /\ Len(outbox) \in Nat
  BY <1>1, RowsAreRows DEF Claimable, Active, GInv, OInv
<1> DEFINE n == IF IsGroup(i) THEN Min({outbox[i].attempts + 1, GiveUpAfter})
                ELSE outbox[i].attempts
           r == [outbox[i] EXCEPT !.state = "INFLIGHT", !.attempts = n]
           held == [Idle EXCEPT !.phase = "claimed", !.row = i, !.edit = outbox[i].card \in cards]
<1>3. outbox' = [outbox EXCEPT ![i] = r]
  BY <1>1, <1>2 DEF Claim
<1>4. worker' = [worker EXCEPT ![w] = held] /\ worker[w] = Idle /\ bound
  BY <1>1 DEF Claim
<1>5. /\ r.chat = outbox[i].chat /\ r.kind = outbox[i].kind
      /\ r.card = outbox[i].card /\ r.owner = outbox[i].owner /\ r.state = "INFLIGHT"
  BY <1>2 DEF Row
<1> HIDE DEF n, r
<1>6. held.phase = "claimed"
  BY DEF Idle
<1> HIDE DEF held
<1>7. worker'[w] = held /\ \A v \in Workers \ {w} : worker'[v] = worker[v]
  BY <1>4, WorkersAreWorkers DEF GInv, OInv
<1>8. ASSUME NEW v \in Workers PROVE Silent(v)
  <2>1. seen'[v] = seen[v]
    BY DEF roundVars
  <2>2. worker[w].phase = "idle"
    BY <1>4, IdleType DEF GInv, OInv
  <2> QED BY <2>1, <2>2, <1>6, <1>7, NotCalling DEF Silent
<1>9. Turn(i)
  <2> SUFFICES ASSUME IsGroup(i), NEW j \in DOMAIN outbox, j < i, IsGroup(j)
               PROVE  outbox[j].state = "SENT" \/ Passable(j)
    BY DEF Turn
  <2>1. j \in 1..(i - 1)
    BY <1>2
  <2>2. SameLane(i, j)
    BY DEF SameLane, GInv, TasksOK
  <2>3. CASE SameOwner(i, j)
    BY <1>2, <2>1, <2>2, <2>3 DEF Blocked
  <2>4. CASE ~SameOwner(i, j)
    BY <1>1, <2>1, <2>4 DEF Overtakes
  <2> QED BY <2>3, <2>4
<1>10. /\ DOMAIN outbox' = DOMAIN outbox /\ outbox'[i] = r
       /\ \A j \in DOMAIN outbox : j # i => outbox'[j] = outbox[j]
  BY <1>3, RowsAreRows DEF GInv, OInv
<1>11. r \in Row
  <2>1. outbox'[i] \in Row
    BY <1>10, RowsWillBeTyped DEF OInv, RowsTyped
  <2> QED BY <2>1, <1>10
<1> QED BY <1>2, <1>3, <1>5, <1>8, <1>9, <1>11, RowGroup

LEMMA TransmitGroup ==
  ASSUME GInv, OInv', UNCHANGED roundVars, NEW w \in Workers, Transmit(w)
  PROVE  GInv'
<1>1. PICK i \in DOMAIN outbox : i = worker[w].row /\ Held(w) = outbox[i] /\ ~IsGroup(i)
        /\ outbox[i].state = "INFLIGHT" /\ outbox[i] \in Row
  <2>1. worker[w].phase # "idle" /\ ~IsGroup(worker[w].row) /\ OInv
    BY DEF Transmit, GInv
  <2> QED BY <2>1, HeldFacts
<1>2. PICK answer \in Answers \ {"none"}, wait \in Waits \cup {0}, arrived \in BOOLEAN :
           /\ answer \in {"ok", "noId"} => arrived
           /\ arrived => answer \in {"ok", "noId", "lost"}
           /\ outbox' = [outbox EXCEPT ![worker[w].row] = Called(Held(w), arrived, worker[w].edit)]
           /\ worker' = [worker EXCEPT ![w] = [worker[w] EXCEPT !.phase = "answered", !.answer = answer,
                                                        !.wait = wait]]
           /\ Gate(w, wait) /\ faults' \in 0..MaxFaults
  BY TransmitEffect DEF GInv
<1> DEFINE e == worker[w].edit
           r == Called(outbox[i], arrived, e)
<1>3. e \in BOOLEAN /\ worker[w] \in WorkerType
  BY WorkersAreWorkers DEF GInv, OInv
<1>4. /\ r \in Row /\ r.chat = outbox[i].chat /\ r.kind = outbox[i].kind
      /\ r.card = outbox[i].card /\ r.owner = outbox[i].owner /\ r.state = "INFLIGHT"
  BY <1>1, <1>3, CalledType
<1>5. outbox' = [outbox EXCEPT ![i] = r]
  BY <1>1, <1>2
<1> HIDE DEF r
<1>6. worker'[w].row = i /\ \A v \in Workers \ {w} : worker'[v] = worker[v]
  BY <1>1, <1>2, <1>3, WorkersAreWorkers DEF GInv, OInv, WorkerType
<1>7. seen'[w] = Unseen /\ \A v \in Workers : seen'[v] = seen[v]
  BY <1>1, NotCalling DEF roundVars
<1>8. \A v \in Workers : Silent(v)
  BY <1>1, <1>6, <1>7 DEF Silent
<1>9. Turn(i)
  BY <1>1 DEF Turn
<1> QED BY <1>1, <1>4, <1>5, <1>8, <1>9, RowGroup

(* Steps that leave every task where it is, or put it back. *)
LEMMA QuietGroup ==
  ASSUME GInv, OInv', SameTasks, \A j \in DOMAIN outbox' \ DOMAIN outbox : ~IsGroup(j)',
         UNCHANGED <<roundState, original, task, perms>>, GroupTypes',
         \A i \in DOMAIN outbox :
           IsGroup(i) => \/ outbox'[i].state = outbox[i].state
                         \/ outbox'[i].state = "PENDING",
         \A w \in Workers : Silent(w)
  PROVE  GInv'
<1>1. \A i \in DOMAIN outbox : Turn(i)
  BY DEF Turn
<1>2. ASSUME NEW r \in Rounds, task[r].restore # 0, outbox[task[r].restore].state # "SENT"
      PROVE  outbox'[task[r].restore].state # "SENT"
  BY <1>2, TaskFacts
<1> QED BY <1>1, <1>2, OutboxStep

LEMMA SameGroup ==
  ASSUME GInv, OInv', UNCHANGED outbox, UNCHANGED <<roundState, original, task, perms>>,
         GroupTypes', \A w \in Workers : Silent(w)
  PROVE  GInv'
<1>1. SameTasks
  BY DEF SameTasks
<1> QED BY <1>1, QuietGroup

LEMMA OtherGroup ==
  ASSUME GInv, OInv', UNCHANGED roundVars,
         \/ \E chat \in Chats, kind \in Kinds, card \in Cards \cup {NoCard} :
              Enqueue(chat, kind, card)
         \/ \E w \in Workers : Pace(w) \/ Recheck(w) \/ LocalFailure(w)
         \/ Disconnect \/ Tick \/ (\E b \in Bots : BindBot(b))
         \/ UNCHANGED vars
  PROVE  GInv'
<1>1. /\ outbox \in [DOMAIN outbox -> Row] /\ DOMAIN outbox = 1..Len(outbox)
      /\ Len(outbox) \in Nat
  BY RowsAreRows DEF GInv, OInv
<1>2. UNCHANGED <<roundState, original, task, perms, seen>> /\ GroupTypes'
  BY DEF roundVars, GInv, GroupTypes
<1>3. ASSUME NEW v \in Workers, worker'[v] = worker[v] PROVE Silent(v)
  BY <1>2, <1>3 DEF Silent
<1>4. ASSUME NEW chat \in Chats, NEW kind \in Kinds, NEW card \in Cards \cup {NoCard},
             Enqueue(chat, kind, card)
      PROVE  GInv'
  <2> DEFINE x == NewRow(chat, kind, card, bot)
  <2>1. kind \in MessageKinds /\ kind \notin GroupKinds /\ kind \in MessageKinds \cup GroupKinds
    BY GroupAssumption DEF MessageKinds, PhotoKinds, GroupKinds
  <2>2. x \in Row /\ outbox \in Seq(Row)
    BY <2>1, NewRowType DEF GInv, OInv, TypeOK
  <2>3. x.kind \notin GroupKinds
    BY <2>1 DEF NewRow
  <2>4. outbox' = Append(outbox, x) /\ UNCHANGED worker
    BY <1>4 DEF Enqueue
  <2> HIDE DEF x
  <2>5. /\ DOMAIN outbox' = 1..(Len(outbox) + 1) /\ outbox'[Len(outbox) + 1] = x
        /\ \A j \in DOMAIN outbox : outbox'[j] = outbox[j]
    BY <2>2, <2>4, RowsAppend
  <2>6. SameTasks
    BY <1>1, <2>5 DEF SameTasks
  <2>7. ASSUME NEW j \in DOMAIN outbox' \ DOMAIN outbox PROVE ~IsGroup(j)'
    <3>1. j = Len(outbox) + 1
      BY <1>1, <2>5
    <3> QED BY <3>1, <2>3, <2>5 DEF IsGroup
  <2>8. \A v \in Workers : Silent(v)
    BY <1>3, <2>4
  <2> QED BY <1>2, <2>5, <2>6, <2>7, <2>8, QuietGroup
<1>5. ASSUME NEW w \in Workers, Pace(w) \/ Recheck(w) \/ LocalFailure(w) PROVE GInv'
  <2>1. UNCHANGED outbox /\ worker[w].phase \in {"claimed", "paced", "answered"}
    BY <1>5 DEF Pace, Recheck, LocalFailure
  <2>2. \A v \in Workers \ {w} : worker'[v] = worker[v]
    BY <1>5, WorkersAreWorkers DEF Pace, Recheck, LocalFailure, GInv, OInv
  <2>3. worker'[w].phase # "answered"
    BY <1>5, WorkersAreWorkers, IdleType DEF Pace, Recheck, LocalFailure, GInv, OInv, WorkerType
  <2>4. seen'[w] = Unseen
    BY <2>1, <1>2, NotCalling
  <2>5. \A v \in Workers : Silent(v)
    BY <2>2, <2>3, <2>4, <1>3 DEF Silent
  <2> QED BY <2>1, <2>5, <1>2, SameGroup
<1>6. ASSUME Disconnect \/ UNCHANGED vars PROVE GInv'
  BY <1>2, <1>3, <1>6, SameGroup DEF Disconnect, vars
<1>7. ASSUME Tick PROVE GInv'
  <2>1. DOMAIN outbox' = DOMAIN outbox /\ UNCHANGED worker
    BY <1>7 DEF Tick
  <2>2. ASSUME NEW j \in DOMAIN outbox
        PROVE  /\ outbox'[j].chat = outbox[j].chat /\ outbox'[j].kind = outbox[j].kind
               /\ outbox'[j].card = outbox[j].card /\ outbox'[j].owner = outbox[j].owner
               /\ outbox'[j].state = outbox[j].state
    <3>1. PICK r \in Row : r = outbox[j]
      BY <1>1
    <3>2. outbox'[j] = [r EXCEPT !.due = Less(@)]
      BY <3>1, <1>7 DEF Tick
    <3> QED BY <3>1, <3>2 DEF Row
  <2>3. SameTasks
    BY <2>1, <2>2 DEF SameTasks
  <2>4. \A v \in Workers : Silent(v)
    BY <1>3, <2>1
  <2> QED BY <1>2, <2>1, <2>2, <2>3, <2>4, QuietGroup
<1>8. ASSUME NEW b \in Bots, BindBot(b) PROVE GInv'
  <2>1. /\ DOMAIN outbox' = DOMAIN outbox
        /\ \A j \in DOMAIN outbox :
             /\ outbox'[j].kind = outbox[j].kind /\ outbox'[j].state = outbox[j].state
             /\ outbox'[j].chat = outbox[j].chat
    BY <1>8, BindEffect DEF GInv
  <2>2. SameTasks
    BY <2>1 DEF SameTasks
  <2>3. UNCHANGED worker
    BY <1>8 DEF BindBot
  <2>4. \A v \in Workers : Silent(v)
    BY <1>3, <2>3
  <2> QED BY <1>2, <2>1, <2>2, <2>4, QuietGroup
<1> QED BY <1>4, <1>5, <1>6, <1>7, <1>8

LEMMA FallbackGroup ==
  ASSUME GInv, OInv', UNCHANGED roundVars, NEW w \in Workers, Fallback(w)
  PROVE  GInv'
<1>1. worker[w].phase = "answered" /\ Held(w).kind = "album"
  BY DEF Fallback, Answered
<1>2. PICK i \in DOMAIN outbox : i = worker[w].row /\ Held(w) = outbox[i]
        /\ outbox[i].state = "INFLIGHT" /\ outbox[i] \in Row
  BY <1>1, HeldFacts DEF GInv
<1> DEFINE r == With(outbox[i], "SENT", outbox[i].due, TRUE)
           t == NewRow(outbox[i].chat, "text", NoCard, bot)
           f == [outbox EXCEPT ![i] = r]
<1>3. /\ r \in Row /\ r.chat = outbox[i].chat /\ r.kind = outbox[i].kind /\ r.state = "SENT"
  BY <1>2 DEF With, Row, States
<1>4. t \in Row /\ t.kind = "text"
  <2>1. bot \in Bots \cup {NoBot} /\ outbox[i].chat \in Chats
    BY <1>2 DEF Row, GInv, OInv, TypeOK
  <2>2. t \in Row
    BY <2>1, NewRowType DEF MessageKinds
  <2> QED BY <2>2 DEF NewRow
<1>5. outbox' = Append(f, t) /\ worker' = [worker EXCEPT ![w] = Idle]
  BY <1>2 DEF Fallback
<1> HIDE DEF r, t
<1>6. outbox \in [DOMAIN outbox -> Row] /\ TypeOK /\ DOMAIN outbox = 1..Len(outbox)
  BY RowsAreRows DEF GInv, OInv
<1>7. f \in [DOMAIN outbox -> Row]
  BY <1>2, <1>3, <1>6
<1>8. f \in Seq(Row) /\ Len(f) = Len(outbox)
  BY <1>6, <1>7, RowsUpdate
<1>9. f[i] = r /\ \A j \in DOMAIN outbox : j # i => f[j] = outbox[j]
  BY <1>2, <1>6
<1> HIDE DEF f
<1>10. /\ DOMAIN outbox' = 1..(Len(outbox) + 1) /\ outbox'[Len(outbox) + 1] = t
       /\ outbox'[i] = r /\ \A j \in DOMAIN outbox : j # i => outbox'[j] = outbox[j]
       /\ Len(outbox) \in Nat
  BY <1>2, <1>4, <1>5, <1>6, <1>8, <1>9, RowsAppend
<1>11. SameTasks
  BY <1>2, <1>3, <1>6, <1>10 DEF SameTasks
<1>12. ASSUME NEW j \in DOMAIN outbox' \ DOMAIN outbox PROVE ~IsGroup(j)'
  <2>1. j = Len(outbox) + 1
    BY <1>6, <1>10
  <2> QED BY <2>1, <1>4, <1>10 DEF IsGroup, GroupKinds
<1>13. ASSUME NEW j \in DOMAIN outbox, IsGroup(j)
       PROVE  outbox'[j].state = outbox[j].state \/ outbox'[j].state = "PENDING"
  <2>1. j # i
    BY <1>1, <1>2, <1>13 DEF IsGroup, GroupKinds
  <2> QED BY <2>1, <1>10
<1>14. \A v \in Workers : Silent(v)
  <2>1. worker'[w] = Idle /\ \A v \in Workers \ {w} : worker'[v] = worker[v]
    BY <1>5, WorkersAreWorkers DEF GInv, OInv
  <2>2. seen'[w] = Unseen /\ \A v \in Workers : seen'[v] = seen[v]
    BY <1>1, NotCalling DEF roundVars
  <2> QED BY <2>1, <2>2, IdleType DEF Silent, GInv, OInv
<1>15. UNCHANGED <<roundState, original, task, perms>> /\ GroupTypes'
  BY DEF roundVars, GInv, GroupTypes
<1> QED BY <1>11, <1>12, <1>13, <1>14, <1>15, QuietGroup

(* A start puts an interrupted task back. *)
LEMMA RestartGroup ==
  ASSUME GInv, OInv', NEW b \in Bots, Restart(b), seen' = [w \in Workers |-> Unseen],
         UNCHANGED <<roundState, original, task, perms>>
  PROVE  GInv'
<1>1. outbox' = [i \in DOMAIN outbox |-> Repaired(outbox[i])] /\ worker' = [w \in Workers |-> Idle]
  BY DEF Restart
<1>2. ASSUME NEW i \in DOMAIN outbox
      PROVE  /\ outbox'[i].chat = outbox[i].chat /\ outbox'[i].kind = outbox[i].kind
             /\ outbox[i].state = "SENT" => outbox'[i].state = "SENT"
             /\ IsGroup(i) => \/ outbox'[i].state = outbox[i].state
                              \/ outbox'[i].state = "PENDING"
  <2>1. PICK r \in Row : r = outbox[i] /\ outbox'[i] = Repaired(r)
    BY <1>1, RowsAreRows DEF GInv, OInv
  <2>2. Repaired(r).chat = r.chat /\ Repaired(r).kind = r.kind
        /\ (r.state # "INFLIGHT" => Repaired(r) = r)
    BY RepairedType
  <2>3. r.state = "INFLIGHT" /\ r.kind \in GroupKinds => Repaired(r).state = "PENDING"
    BY DEF Repaired, With, Row
  <2> QED BY <2>1, <2>2, <2>3 DEF IsGroup
<1>3. DOMAIN outbox' = DOMAIN outbox
  BY <1>1
<1>4. SameTasks
  BY <1>2, <1>3 DEF SameTasks
<1>5. \A v \in Workers : Silent(v)
  BY <1>1, IdleType DEF Silent, GInv, OInv
<1>6. GroupTypes'
  BY DEF GInv, GroupTypes, Unseen, Steps
<1> QED BY <1>2, <1>3, <1>4, <1>5, <1>6, QuietGroup

LEMMA DecideGroup ==
  ASSUME GInv, OInv', UNCHANGED roundVars, NEW i \in DOMAIN outbox, Retry(i) \/ Skip(i)
  PROVE  GInv'
<1>1. outbox[i] \in Row /\ outbox[i].state \in {"FAILED", "UNKNOWN"}
  BY RowsAreRows DEF Retry, Skip, Resolvable, GInv, OInv
<1>2. Turn(i)
  BY <1>1 DEF Turn
<1>3. \A v \in Workers : Silent(v)
  BY DEF Silent, roundVars, Retry, Skip
<1>4. CASE Retry(i)
  <2> DEFINE p == With(outbox[i], "PENDING", 0, FALSE)
             r == [p EXCEPT !.retries = @ + 1]
  <2>1. outbox' = [outbox EXCEPT ![i] = r]
    BY <1>4 DEF Retry
  <2>2. /\ p \in Row /\ p.chat = outbox[i].chat /\ p.kind = outbox[i].kind
        /\ p.card = outbox[i].card /\ p.owner = outbox[i].owner /\ p.state = "PENDING"
    BY <1>1 DEF With, Row, States
  <2> HIDE DEF p
  <2>3. /\ r \in Row /\ r.chat = p.chat /\ r.kind = p.kind
        /\ r.card = p.card /\ r.owner = p.owner /\ r.state = p.state
    BY <2>2 DEF Row
  <2> HIDE DEF r
  <2> QED BY <1>1, <1>2, <1>3, <2>1, <2>2, <2>3, RowGroup
<1>5. CASE Skip(i)
  <2> DEFINE r == With(outbox[i], "SENT", outbox[i].due, TRUE)
  <2>1. outbox' = [outbox EXCEPT ![i] = r] /\ outbox[i].kind # "restore"
    BY <1>5 DEF Skip
  <2>2. /\ r \in Row /\ r.chat = outbox[i].chat /\ r.kind = outbox[i].kind
        /\ r.card = outbox[i].card /\ r.owner = outbox[i].owner
    BY <1>1 DEF With, Row, States
  <2> HIDE DEF r
  <2> QED BY <1>1, <1>2, <1>3, <2>1, <2>2, RowGroup
<1> QED BY <1>4, <1>5

(* An operator who confirms a restore has restored the group. *)
LEMMA AckGroup ==
  ASSUME GInv, OInv', NEW i \in DOMAIN outbox, GroupAck(i)
  PROVE  GInv'
<1>1. outbox[i] \in Row /\ outbox[i].state \in {"FAILED", "UNKNOWN"}
  BY RowsAreRows DEF GroupAck, Ack, Resolvable, GInv, OInv
<1>2. UNCHANGED <<roundState, original, task, seen, worker>>
      /\ perms' = (IF outbox[i].kind = "restore" THEN "own" ELSE perms)
  BY DEF GroupAck, Ack
<1> DEFINE r == With(outbox[i], "SENT", outbox[i].due, TRUE)
<1>3. outbox' = [outbox EXCEPT ![i] = r]
  BY DEF GroupAck, Ack
<1>4. /\ r \in Row /\ r.chat = outbox[i].chat /\ r.kind = outbox[i].kind
  BY <1>1 DEF With, Row, States
<1> HIDE DEF r
<1>5. /\ DOMAIN outbox' = DOMAIN outbox /\ outbox'[i] = r
      /\ \A j \in DOMAIN outbox : j # i => outbox'[j] = outbox[j]
  BY <1>3, RowsAreRows DEF GInv, OInv
<1>6. SameTasks
  BY <1>1, <1>4, <1>5 DEF SameTasks
<1>7. \A j \in DOMAIN outbox : Turn(j)
  BY <1>1, <1>5 DEF Turn
<1>8. \A v \in Workers : Silent(v)
  BY <1>2 DEF Silent
<1>9. GroupTypes'
  BY <1>2 DEF GInv, GroupTypes, Permissions
<1>10. ASSUME perms' # "own", NEW q \in Rounds, task[q].restore # 0,
              outbox[task[q].restore].state # "SENT"
       PROVE  outbox'[task[q].restore].state # "SENT"
  <2>1. PICK j \in DOMAIN outbox : j = task[q].restore /\ outbox[j].kind = "restore"
    BY <1>10, TaskFacts
  <2>2. j # i
    BY <2>1, <1>2, <1>10
  <2> QED BY <2>1, <2>2, <1>5, <1>10
<1>11. perms' = perms \/ perms' = "own"
  BY <1>2
<1> QED BY <1>2, <1>5, <1>6, <1>7, <1>8, <1>9, <1>10, <1>11, OutboxStep

(* The answer to a task is recorded: the restore of a round is through only *)
(* with the group restored, or with nothing to restore.                     *)
LEMMA RecordedGroup ==
  ASSUME GInv, OInv', NEW w \in Workers, RecordGroup(w)
  PROVE  GInv'
<1>1. /\ UNCHANGED roundVars /\ worker[w].phase = "answered" /\ IsGroup(worker[w].row)
      /\ worker' = [worker EXCEPT ![w] = Idle]
  BY RecordEffect DEF GInv, Release, gvars, roundVars
<1>2. PICK state \in {"SENT", "FAILED", "PENDING", "UNKNOWN"}, due \in Nat, note \in BOOLEAN :
        /\ Release(w, With(Held(w), state, due, note))
        /\ state = "SENT" => worker[w].answer \in {"ok", "same"} /\ note
  BY RecordEffect DEF GInv
<1>3. PICK i \in DOMAIN outbox : i = worker[w].row /\ Held(w) = outbox[i]
        /\ outbox[i].state = "INFLIGHT" /\ outbox[i] \in Row
  BY <1>1, HeldFacts DEF GInv
<1> DEFINE r == With(outbox[i], state, due, note)
<1>4. outbox' = [outbox EXCEPT ![i] = r]
  BY <1>2, <1>3 DEF Release
<1>5. r \in Row /\ r.chat = outbox[i].chat /\ r.kind = outbox[i].kind /\ r.state = state
  <2>1. state \in States
    BY DEF States
  <2> QED BY <2>1, <1>3, WithType
<1> HIDE DEF r
<1>6. /\ DOMAIN outbox' = DOMAIN outbox /\ outbox'[i] = r
      /\ \A j \in DOMAIN outbox : j # i => outbox'[j] = outbox[j]
  BY <1>4, RowsAreRows DEF GInv, OInv
<1>7. SameTasks
  BY <1>3, <1>5, <1>6 DEF SameTasks
<1>8. \A j \in DOMAIN outbox : Turn(j)
  BY <1>3, <1>6 DEF Turn
<1>9. \A v \in Workers : Silent(v)
  <2>1. worker'[w] = Idle /\ \A v \in Workers \ {w} : worker'[v] = worker[v]
    BY <1>1, WorkersAreWorkers DEF GInv, OInv
  <2>2. seen'[w] = Unseen /\ \A v \in Workers : seen'[v] = seen[v]
    BY <1>1, NotCalling DEF roundVars
  <2> QED BY <2>1, <2>2, IdleType DEF Silent, GInv, OInv
<1>10. UNCHANGED <<roundState, original, task, perms>> /\ GroupTypes'
  BY <1>1 DEF roundVars, GInv, GroupTypes
<1>11. ASSUME perms' # "own", NEW q \in Rounds, task[q].restore # 0,
              outbox[task[q].restore].state # "SENT",
              outbox'[task[q].restore].state = "SENT"
       PROVE  original[q] = NotSaved
  <2>1. PICK j \in DOMAIN outbox : j = task[q].restore
    BY <1>11, TaskFacts
  <2>2. j = i /\ state = "SENT"
    BY <2>1, <1>5, <1>6, <1>11
  <2>3. worker[w].answer \in {"ok", "same"}
    BY <1>2, <2>2
  <2>4. worker[w].answer = "same"
    BY <1>1, <1>3, <1>10, <1>11, <2>1, <2>2, <2>3 DEF GInv, PermsOK
  <2> QED BY <1>1, <1>3, <1>11, <2>1, <2>2, <2>4 DEF GInv, PermsOK
<1> QED BY <1>6, <1>7, <1>8, <1>9, <1>10, <1>11, OutboxStep

(* A round's next task goes behind every row there is. *)
LEMMA QueueGroup ==
  ASSUME GInv, OInv', RoundsOK', GroupTypes', NEW r \in Rounds, NEW kind \in GroupKinds,
         QueueTask(r, kind), UNCHANGED <<original, perms, seen, worker>>,
         roundState[r] # "ended", task[r].restore = 0,
         kind = "mute" <=> task[r].mute = 0
  PROVE  GInv'
<1> DEFINE n == Len(outbox) + 1
           t == NewRow(Group, kind, NoCard, bot)
<1>1. DOMAIN outbox = 1..Len(outbox) /\ Len(outbox) \in Nat /\ outbox \in Seq(Row)
  BY RowsAreRows DEF GInv, OInv, TypeOK
<1>2. t \in Row /\ t.kind = kind /\ t.chat = Group /\ t.state = "PENDING"
  <2>1. bot \in Bots \cup {NoBot} /\ Group \in Chats /\ kind \in MessageKinds \cup GroupKinds
    BY OutboxAssumption DEF GInv, OInv, TypeOK
  <2>2. t \in Row
    BY <2>1, NewRowType
  <2> QED BY <2>2 DEF NewRow
<1>3. outbox' = Append(outbox, t) /\ task' = [task EXCEPT ![r][kind] = n]
  BY DEF QueueTask
<1> HIDE DEF t
<1>4. /\ DOMAIN outbox' = 1..n /\ outbox'[n] = t /\ n \in Nat /\ n \notin DOMAIN outbox /\ n > 0
      /\ \A j \in DOMAIN outbox : outbox'[j] = outbox[j] /\ j \in DOMAIN outbox' /\ j < n
      /\ \A j \in DOMAIN outbox' : j = n \/ j \in DOMAIN outbox
  BY <1>1, <1>2, <1>3, RowsAppend
<1> HIDE DEF n
<1>5. /\ \A q \in Rounds \ {r} : task'[q] = task[q]
      /\ kind = "mute" => task'[r].mute = n /\ task'[r].restore = 0
      /\ kind = "restore" => task'[r].restore = n /\ task'[r].mute = task[r].mute
      /\ kind \in {"mute", "restore"}
  BY <1>3 DEF GInv, GroupTypes, GroupKinds
<1>6. \A q \in Rounds : r < q => task[q].mute = 0 /\ task[q].restore = 0 /\ original[q] = NotSaved
  <2> SUFFICES ASSUME NEW q \in Rounds, r < q PROVE roundState[q] = "open"
    BY DEF GInv, RoundsOK
  <2>1. r \in 1..(q - 1)
    BY TaskFacts DEF Rounds
  <2>2. roundState[q] \in {"open", "CLOSED", "ended"}
    BY DEF GInv, GroupTypes
  <2> QED BY <2>1, <2>2 DEF GInv, RoundsOK
<1>7. \A j \in DOMAIN outbox : IsGroup(j)' <=> IsGroup(j)
  BY <1>4 DEF IsGroup
<1>8. \A q \in Rounds : \A s \in 1..(q - 1) : s \in Rounds /\ s \in Nat /\ q \in Nat /\ s < q
  BY TaskFacts
<1>9. r \in Nat
  BY TaskFacts
<1>10. TasksOK'
  <2>1. ASSUME NEW q \in Rounds
        PROVE  /\ task'[q].mute # 0 => /\ task'[q].mute \in DOMAIN outbox'
                                       /\ outbox'[task'[q].mute].kind = "mute"
               /\ task'[q].restore # 0 => /\ task'[q].restore \in DOMAIN outbox'
                                          /\ outbox'[task'[q].restore].kind = "restore"
                                          /\ task'[q].mute < task'[q].restore
    <3>1. CASE q # r
      BY <3>1, <1>4, <1>5, TaskFacts DEF GInv, TasksOK
    <3>2. CASE q = r
      BY <3>2, <1>2, <1>4, <1>5, TaskFacts
    <3> QED BY <3>1, <3>2
  <2>2. ASSUME NEW q \in Rounds, NEW s \in 1..(q - 1), task'[q].mute # 0
        PROVE  task'[s].mute < task'[q].mute /\ task'[s].restore < task'[q].mute
    <3>1. s \in Rounds /\ s \in Nat /\ q \in Nat /\ s < q
      BY <1>8
    <3>2. s # r
      BY <2>2, <3>1, <1>5, <1>6
    <3>3. task'[s] = task[s] /\ (task[s].mute = 0 \/ task[s].mute \in DOMAIN outbox)
          /\ (task[s].restore = 0 \/ task[s].restore \in DOMAIN outbox)
      BY <3>1, <3>2, <1>5, TaskFacts
    <3>4. CASE q = r /\ kind = "mute"
      BY <3>3, <3>4, <1>4, <1>5
    <3>5. CASE ~(q = r /\ kind = "mute")
      <4>1. task'[q].mute = task[q].mute
        BY <3>5, <1>5
      <4> QED BY <2>2, <3>1, <3>3, <4>1 DEF GInv, TasksOK
    <3> QED BY <3>4, <3>5
  <2>3. ASSUME NEW i \in DOMAIN outbox', IsGroup(i)'
        PROVE  outbox'[i].chat = Group /\ \E q \in Rounds : i \in {task'[q].mute, task'[q].restore}
    <3>1. CASE i = n
      BY <3>1, <1>2, <1>4, <1>5
    <3>2. CASE i \in DOMAIN outbox
      <4>1. PICK q \in Rounds : i \in {task[q].mute, task[q].restore}
        BY <3>2, <2>3, <1>7 DEF GInv, TasksOK
      <4>2. i # 0
        BY <3>2, <1>1
      <4>3. i \in {task'[q].mute, task'[q].restore}
        BY <4>1, <4>2, <1>5
      <4> QED BY <4>3, <3>2, <2>3, <1>4, <1>7 DEF GInv, TasksOK
    <3> QED BY <3>1, <3>2, <1>4
  <2> QED BY <2>1, <2>2, <2>3 DEF TasksOK
<1>11. Turns'
  <2>1. ASSUME NEW i \in DOMAIN outbox', NEW j \in DOMAIN outbox', IsGroup(i)',
               outbox'[i].state # "PENDING", j < i, outbox'[j].kind = "restore"
        PROVE  outbox'[j].state = "SENT"
    <3>1. i \in DOMAIN outbox
      BY <2>1, <1>2, <1>4
    <3>2. j \in DOMAIN outbox
      BY <2>1, <3>1, <1>1, <1>4
    <3> QED BY <2>1, <3>1, <3>2, <1>4, <1>7 DEF GInv, Turns
  <2>2. ASSUME NEW q \in Rounds, original'[q] # NotSaved, NEW s \in 1..(q - 1),
               task'[s].restore # 0
        PROVE  outbox'[task'[s].restore].state = "SENT"
    <3>1. s \in Rounds /\ s < q /\ s # r
      BY <2>2, <1>6, <1>8
    <3>2. task'[s] = task[s] /\ task[s].restore \in DOMAIN outbox
      BY <2>2, <3>1, <1>5, TaskFacts
    <3>3. outbox[task[s].restore].state = "SENT"
      BY <2>2, <3>2 DEF GInv, Turns
    <3> QED BY <3>2, <3>3, <1>4
  <2> QED BY <2>1, <2>2 DEF Turns
<1>12. ASSUME NEW w \in Workers, worker[w].phase # "idle"
       PROVE  /\ worker[w].row \in DOMAIN outbox /\ worker[w].row # 0 /\ worker[w].row # n
              /\ Mutes(w)' <=> Mutes(w)
  <2>1. worker[w].row \in DOMAIN outbox
    BY <1>12, HeldFacts DEF GInv
  <2> QED BY <2>1, <1>1, <1>4 DEF Mutes, Held
<1>13. SeenOK'
  <2> SUFFICES ASSUME NEW w \in Workers
               PROVE  /\ seen'[w].step # "none" => worker'[w].phase = "ready" /\ IsGroup(worker[w].row)'
                      /\ seen'[w].step \in {"fetch", "save"} => Mutes(w)'
                      /\ seen'[w].step = "none" => seen'[w] = Unseen
                      /\ seen'[w].step \in {"save", "set"} => seen'[w].permissions = "own"
                      /\ \A q \in Rounds : worker'[w].row = task'[q].mute /\ seen'[w].step # "none"
                           => /\ seen'[w].step = "set" <=> original'[q] # NotSaved
                              /\ task'[q].restore # 0 => outbox'[task'[q].restore].state = "PENDING"
    BY DEF SeenOK
  <2>1. CASE seen[w].step = "none"
    BY <2>1 DEF GInv, SeenOK
  <2>2. CASE seen[w].step # "none"
    <3>1. worker[w].phase = "ready" /\ IsGroup(worker[w].row)
      BY <2>2 DEF GInv, SeenOK
    <3>2. /\ worker[w].row \in DOMAIN outbox /\ worker[w].row # 0 /\ worker[w].row # n
          /\ Mutes(w)' <=> Mutes(w)
      BY <3>1, <1>12
    <3>3. IsGroup(worker[w].row)'
      BY <3>1, <3>2, <1>4 DEF IsGroup
    <3>4. ASSUME NEW q \in Rounds, worker'[w].row = task'[q].mute
          PROVE  /\ seen'[w].step = "set" <=> original'[q] # NotSaved
                 /\ task'[q].restore # 0 => outbox'[task'[q].restore].state = "PENDING"
      <4>1. worker[w].row = task[q].mute
        BY <3>2, <3>4, <1>5
      <4>2. /\ seen[w].step = "set" <=> original[q] # NotSaved
            /\ task[q].restore # 0 => outbox[task[q].restore].state = "PENDING"
        BY <2>2, <4>1 DEF GInv, SeenOK
      <4>3. ASSUME task'[q].restore # 0 PROVE outbox'[task'[q].restore].state = "PENDING"
        <5>1. CASE task'[q].restore = n
          BY <5>1, <1>2, <1>4
        <5>2. CASE task'[q].restore # n
          BY <5>2, <4>2, <4>3, <1>4, <1>5, TaskFacts
        <5> QED BY <5>1, <5>2
      <4> QED BY <4>2, <4>3
    <3> QED BY <2>2, <3>1, <3>2, <3>3, <3>4 DEF GInv, SeenOK
  <2> QED BY <2>1, <2>2
<1>14. PermsOK'
  <2>1. ASSUME perms' = "muted"
        PROVE  \E q \in Rounds : original'[q] # NotSaved /\ ~Sent(task[q].restore)'
    <3>1. PICK q \in Rounds : original[q] # NotSaved /\ ~Sent(task[q].restore)
      BY <2>1 DEF GInv, PermsOK
    <3>2. CASE task'[q].restore = n
      BY <3>1, <3>2, <1>2, <1>4 DEF Sent
    <3>3. CASE task'[q].restore # n
      BY <3>1, <3>3, <1>4, <1>5, TaskFacts DEF Sent
    <3> QED BY <3>2, <3>3
  <2>2. ASSUME NEW w \in Workers, NEW q \in Rounds, worker'[w].phase = "answered",
               worker'[w].row # 0, worker'[w].row = task'[q].restore
        PROVE  /\ worker'[w].answer = "ok" => perms' = "own"
               /\ worker'[w].answer = "same" => original'[q] = NotSaved
    <3>1. worker[w].row # n
      BY <2>2, <1>12
    <3>2. worker[w].row = task[q].restore
      BY <2>2, <3>1, <1>5
    <3> QED BY <2>2, <3>2 DEF GInv, PermsOK
  <2> QED BY <2>1, <2>2 DEF PermsOK
<1> QED BY <1>10, <1>11, <1>13, <1>14 DEF GInv

LEMMA RoundsTurnGroup ==
  ASSUME GInv, OInv', RoundsOK', GroupTypes',
         UNCHANGED <<outbox, task, original, perms, seen, worker>>
  PROVE  GInv'
<1>1. TasksOK' /\ Turns' /\ PermsOK'
  BY DEF GInv, TasksOK, Turns, PermsOK, IsGroup, Sent
<1>2. SeenOK'
  BY DEF GInv, SeenOK, Mutes, Held, IsGroup
<1> QED BY <1>1, <1>2 DEF GInv

LEMMA CloseGroup ==
  ASSUME GInv, OInv', NEW r \in Rounds, NEW mute \in BOOLEAN, CloseRound(r, mute)
  PROVE  GInv'
<1>1. /\ roundState[r] = "open" /\ \A s \in 1..(r - 1) : roundState[s] = "ended"
      /\ roundState' = [roundState EXCEPT ![r] = "CLOSED"]
      /\ UNCHANGED <<original, perms, seen, worker>>
  BY DEF CloseRound
<1>2. task[r].mute = 0 /\ task[r].restore = 0 /\ original[r] = NotSaved
  BY <1>1 DEF GInv, RoundsOK
<1>3. roundState'[r] = "CLOSED" /\ \A q \in Rounds \ {r} : roundState'[q] = roundState[q]
  BY <1>1 DEF GInv, GroupTypes
<1>4. \A q \in Rounds : \A s \in 1..(q - 1) : s \in Rounds /\ s # q
  BY TaskFacts
<1>5. /\ \A q \in Rounds \ {r} : task'[q] = task[q]
      /\ task'[r].restore = 0
  <2>1. CASE mute
    BY <2>1, <1>2 DEF CloseRound, QueueTask, GInv, GroupTypes
  <2>2. CASE ~mute
    BY <2>2, <1>2 DEF CloseRound
  <2> QED BY <2>1, <2>2
<1>6. RoundsOK'
  <2>1. ASSUME NEW q \in Rounds, roundState'[q] # "open", NEW s \in 1..(q - 1)
        PROVE  roundState'[s] = "ended"
    BY <1>1, <1>3, <1>4, <2>1 DEF GInv, RoundsOK
  <2>2. ASSUME NEW q \in Rounds
        PROVE  /\ roundState'[q] = "open" => task'[q].mute = 0
               /\ task'[q].restore # 0 => roundState'[q] = "ended" /\ task'[q].mute # 0
               /\ roundState'[q] = "ended" /\ task'[q].mute # 0 => task'[q].restore # 0
               /\ original'[q] # NotSaved => original'[q] = "own" /\ task'[q].mute # 0
    BY <1>1, <1>2, <1>3, <1>5 DEF GInv, RoundsOK
  <2> QED BY <2>1, <2>2 DEF RoundsOK
<1>7. CASE mute
  <2>1. QueueTask(r, "mute")
    BY <1>7 DEF CloseRound
  <2>2. "mute" \in GroupKinds
    BY DEF GroupKinds
  <2>3. GroupTypes'
    <3>1. Len(outbox) + 1 \in Nat
      BY RowsAreRows DEF GInv, OInv
    <3> QED BY <2>1, <1>1, <3>1 DEF GInv, GroupTypes, QueueTask
  <2> QED BY <2>1, <2>2, <2>3, <1>1, <1>2, <1>6, QueueGroup
<1>8. CASE ~mute
  <2>1. UNCHANGED <<outbox, task>>
    BY <1>8 DEF CloseRound
  <2>2. GroupTypes'
    BY <2>1, <1>1 DEF GInv, GroupTypes
  <2> QED BY <2>1, <2>2, <1>1, <1>6, RoundsTurnGroup
<1> QED BY <1>7, <1>8

LEMMA EndGroup == ASSUME GInv, OInv', NEW r \in Rounds, EndRound(r) PROVE GInv'
<1>1. /\ roundState[r] = "CLOSED" /\ roundState' = [roundState EXCEPT ![r] = "ended"]
      /\ UNCHANGED <<original, perms, seen, worker>>
  BY DEF EndRound
<1>2. task[r].restore = 0
  BY <1>1 DEF GInv, RoundsOK
<1>3. roundState'[r] = "ended" /\ \A q \in Rounds \ {r} : roundState'[q] = roundState[q]
  BY <1>1 DEF GInv, GroupTypes
<1>4. \A q \in Rounds : \A s \in 1..(q - 1) : s \in Rounds /\ s # q
  BY TaskFacts
<1>5. /\ \A q \in Rounds \ {r} : task'[q] = task[q]
      /\ task'[r].mute = task[r].mute /\ (task[r].mute # 0 <=> task'[r].restore # 0)
  <2>1. CASE task[r].mute # 0
    <3>1. Len(outbox) + 1 # 0
      BY RowsAreRows DEF GInv, OInv
    <3> QED BY <2>1, <3>1 DEF EndRound, QueueTask, GInv, GroupTypes
  <2>2. CASE task[r].mute = 0
    BY <2>2, <1>2 DEF EndRound
  <2> QED BY <2>1, <2>2
<1>6. RoundsOK'
  <2>1. ASSUME NEW q \in Rounds, roundState'[q] # "open", NEW s \in 1..(q - 1)
        PROVE  roundState'[s] = "ended"
    BY <1>1, <1>3, <1>4, <2>1 DEF GInv, RoundsOK
  <2>2. ASSUME NEW q \in Rounds
        PROVE  /\ roundState'[q] = "open" => task'[q].mute = 0
               /\ task'[q].restore # 0 => roundState'[q] = "ended" /\ task'[q].mute # 0
               /\ roundState'[q] = "ended" /\ task'[q].mute # 0 => task'[q].restore # 0
               /\ original'[q] # NotSaved => original'[q] = "own" /\ task'[q].mute # 0
    BY <1>1, <1>2, <1>3, <1>5 DEF GInv, RoundsOK
  <2> QED BY <2>1, <2>2 DEF RoundsOK
<1>7. CASE task[r].mute # 0
  <2>1. QueueTask(r, "restore")
    BY <1>7 DEF EndRound
  <2>2. "restore" \in GroupKinds
    BY DEF GroupKinds
  <2>3. GroupTypes'
    <3>1. Len(outbox) + 1 \in Nat
      BY RowsAreRows DEF GInv, OInv
    <3> QED BY <2>1, <1>1, <3>1 DEF GInv, GroupTypes, QueueTask
  <2> QED BY <2>1, <2>2, <2>3, <1>1, <1>2, <1>6, <1>7, QueueGroup
<1>8. CASE task[r].mute = 0
  <2>1. UNCHANGED <<outbox, task>>
    BY <1>8 DEF EndRound
  <2>2. GroupTypes'
    BY <2>1, <1>1 DEF GInv, GroupTypes
  <2> QED BY <2>1, <2>2, <1>1, <1>6, RoundsTurnGroup
<1> QED BY <1>7, <1>8

(* The task a worker is carrying out is of one round. *)
LEMMA RoundFacts ==
  ASSUME GInv, NEW w \in Workers, worker[w].phase # "idle", IsGroup(worker[w].row)
  PROVE  LET r == RoundOf(w)
             i == worker[w].row
         IN /\ r \in Rounds /\ i \in DOMAIN outbox /\ i # 0 /\ i \in Nat
            /\ outbox[i].state = "INFLIGHT"
            /\ \A v \in Workers \ {w} : worker[v].row # i
            /\ Mutes(w) => i = task[r].mute
            /\ ~Mutes(w) => i = task[r].restore
            /\ \A q \in Rounds : i = task[q].mute => q = r /\ Mutes(w)
            /\ \A q \in Rounds : i = task[q].restore => q = r /\ ~Mutes(w)
<1>0. /\ worker[w].row \in DOMAIN outbox /\ Held(w) = outbox[worker[w].row]
      /\ Held(w).state = "INFLIGHT" /\ \A v \in Workers \ {w} : worker[v].row # worker[w].row
  BY HeldFacts DEF GInv
<1>1. PICK i \in DOMAIN outbox : i = worker[w].row /\ Held(w) = outbox[i]
        /\ outbox[i].state = "INFLIGHT" /\ \A v \in Workers \ {w} : worker[v].row # i
  BY <1>0
<1>2. i # 0 /\ i \in Nat
  BY RowsAreRows DEF GInv, OInv
<1>3. \E r \in Rounds : i \in {task[r].mute, task[r].restore}
  BY <1>1 DEF GInv, TasksOK
<1> DEFINE c == CHOOSE r \in Rounds : i \in {task[r].mute, task[r].restore}
<1>4. c \in Rounds /\ i \in {task[c].mute, task[c].restore} /\ c = RoundOf(w)
  <2>1. c \in Rounds /\ i \in {task[c].mute, task[c].restore}
    BY <1>3
  <2>2. c = RoundOf(w)
    BY <1>1 DEF RoundOf
  <2> QED BY <2>1, <2>2
<1> HIDE DEF c
<1>5. PICK r \in Rounds : r = RoundOf(w) /\ i \in {task[r].mute, task[r].restore}
  BY <1>4
<1>6. Mutes(w) <=> outbox[i].kind = "mute"
  BY <1>1 DEF Mutes
<1>7. (Mutes(w) => i = task[r].mute) /\ (~Mutes(w) => i = task[r].restore)
  BY <1>5, <1>6, OneRound
<1>8. ASSUME NEW q \in Rounds
      PROVE  (i = task[q].mute => q = r /\ Mutes(w)) /\ (i = task[q].restore => q = r /\ ~Mutes(w))
  <2>1. i \in {task[q].mute, task[q].restore} => q = r
    BY <1>5, OneRound
  <2>2. i = task[q].mute => outbox[i].kind = "mute"
    BY <1>2, TaskFacts
  <2>3. i = task[q].restore => outbox[i].kind = "restore"
    BY <1>2, TaskFacts
  <2> QED BY <2>1, <2>2, <2>3, <1>6
<1> QED BY <1>1, <1>2, <1>5, <1>7, <1>8

(* While a mute is carried out every round before is restored, no round    *)
(* after it is muted, and its own restore waits.                           *)
LEMMA MuteAlone ==
  ASSUME GInv, NEW w \in Workers, seen[w].step # "none", Mutes(w)
  PROVE  LET r == RoundOf(w)
         IN /\ task[r].restore # 0 => outbox[task[r].restore].state = "PENDING"
            /\ \A s \in Rounds : s < r /\ task[s].restore # 0 => outbox[task[s].restore].state = "SENT"
            /\ \A s \in Rounds : s < r /\ task[s].mute # 0 => task[s].restore # 0
            /\ \A s \in Rounds : r < s /\ task[s].restore # 0 => outbox[task[s].restore].state = "PENDING"
            /\ \A s \in Rounds : r < s => original[s] = NotSaved
<1>1. worker[w].phase = "ready" /\ IsGroup(worker[w].row)
  BY DEF GInv, SeenOK
<1>2. PICK r \in Rounds, i \in DOMAIN outbox :
        /\ r = RoundOf(w) /\ i = worker[w].row /\ i = task[r].mute /\ i # 0 /\ i \in Nat
        /\ outbox[i].state = "INFLIGHT"
  BY <1>1, RoundFacts
<1>3. task[r].restore # 0 => outbox[task[r].restore].state = "PENDING"
  BY <1>2 DEF GInv, SeenOK
<1>4. \A s \in Rounds : s < r => s \in 1..(r - 1)
  BY TaskFacts DEF Rounds
<1>5. ASSUME NEW s \in Rounds, s < r, task[s].restore # 0
      PROVE  outbox[task[s].restore].state = "SENT"
  <2>1. task[s].restore < i
    BY <1>2, <1>4, <1>5 DEF GInv, TasksOK
  <2> QED BY <2>1, <1>1, <1>2, <1>5, TaskFacts DEF GInv, Turns
<1>6. roundState[r] # "open" /\ \A s \in Rounds : s < r => roundState[s] = "ended"
  BY <1>2, <1>4 DEF GInv, RoundsOK
<1>7. ASSUME NEW s \in Rounds, s < r, task[s].mute # 0 PROVE task[s].restore # 0
  BY <1>6, <1>7 DEF GInv, RoundsOK
<1>8. ASSUME NEW s \in Rounds, r < s, task[s].mute # 0
      PROVE  r \in 1..(s - 1) /\ task[r].restore # 0 /\ task[r].restore < task[s].mute
  <2>1. r \in 1..(s - 1)
    BY <1>8, TaskFacts DEF Rounds
  <2>2. roundState[r] = "ended"
    BY <1>8, <2>1 DEF GInv, RoundsOK
  <2>3. task[r].restore # 0
    BY <2>2, <1>2 DEF GInv, RoundsOK
  <2> QED BY <1>8, <2>1, <2>3 DEF GInv, TasksOK
<1>9. ASSUME NEW s \in Rounds, r < s, task[s].restore # 0
      PROVE  outbox[task[s].restore].state = "PENDING"
  <2>1. task[s].mute # 0 /\ task[s].mute < task[s].restore
    BY <1>9, TaskFacts DEF GInv, TasksOK
  <2>2. task[r].restore # 0 /\ task[r].restore < task[s].restore
    BY <1>8, <1>9, <2>1, TaskFacts
  <2>3. outbox[task[r].restore].state # "SENT"
    BY <2>2, <1>3
  <2> QED BY <2>2, <2>3, <1>9, TaskFacts DEF GInv, Turns
<1>10. ASSUME NEW s \in Rounds, r < s PROVE original[s] = NotSaved
  <2> SUFFICES ASSUME original[s] # NotSaved PROVE FALSE
    OBVIOUS
  <2>1. task[s].mute # 0
    BY DEF GInv, RoundsOK
  <2>2. r \in 1..(s - 1) /\ task[r].restore # 0
    BY <1>8, <1>10, <2>1
  <2> QED BY <2>2, <1>3 DEF GInv, Turns
<1> QED BY <1>2, <1>3, <1>5, <1>7, <1>9, <1>10

(* So nothing is saved but the group's own permissions. *)
LEMMA FetchedOwn ==
  ASSUME GInv, NEW w \in Workers, seen[w].step = "fetch"
  PROVE  perms = "own"
<1> SUFFICES ASSUME perms = "muted" PROVE FALSE
  BY DEF GInv, GroupTypes, Permissions
<1>1. Mutes(w) /\ worker[w].phase = "ready" /\ IsGroup(worker[w].row)
  BY DEF GInv, SeenOK
<1>2. PICK r \in Rounds : r = RoundOf(w) /\ worker[w].row = task[r].mute
  BY <1>1, RoundFacts
<1>3. original[r] = NotSaved
  BY <1>2 DEF GInv, SeenOK
<1>4. PICK s \in Rounds : original[s] # NotSaved /\ ~Sent(task[s].restore)
  BY DEF GInv, PermsOK
<1>5. s < r \/ r < s
  BY <1>3, <1>4, TaskFacts
<1>6. ~(r < s)
  BY <1>1, <1>2, <1>4, MuteAlone
<1>7. s < r /\ task[s].mute # 0
  BY <1>4, <1>5, <1>6 DEF GInv, RoundsOK
<1>8. task[s].restore # 0 /\ outbox[task[s].restore].state = "SENT"
  BY <1>1, <1>2, <1>7, MuteAlone
<1> QED BY <1>4, <1>8 DEF Sent

(* No restore is being carried out, or has been answered, beside a mute. *)
LEMMA NoRestoreBeside ==
  ASSUME GInv, NEW w \in Workers, seen[w].step # "none", Mutes(w),
         NEW v \in Workers, worker[v].phase # "idle", NEW q \in Rounds,
         worker[v].row = task[q].restore, task[q].restore # 0
  PROVE  FALSE
<1>1. worker[w].phase = "ready" /\ IsGroup(worker[w].row)
  BY DEF GInv, SeenOK
<1>2. PICK r \in Rounds : r = RoundOf(w)
  BY <1>1, RoundFacts
<1>3. outbox[task[q].restore].state = "INFLIGHT"
  BY HeldFacts DEF GInv
<1>4. q < r \/ q = r \/ r < q
  BY TaskFacts
<1> QED BY <1>2, <1>3, <1>4, MuteAlone

(* A worker's call changes what it has read and answers, and with a mute   *)
(* what is saved for its round.                                            *)
Read(w, step, permissions) ==
  /\ UNCHANGED worker
  /\ seen' = [seen EXCEPT ![w] = [step |-> step, permissions |-> permissions]]

Told(w, answer) ==
  /\ seen' = [seen EXCEPT ![w] = Unseen]
  /\ worker'[w].phase = "answered" /\ worker'[w].row = worker[w].row /\ worker'[w].answer = answer
  /\ \A v \in Workers \ {w} : worker'[v] = worker[v]

LEMMA RespondTells ==
  ASSUME OInv, NEW w \in Workers, NEW answer, NEW wait, Respond(w, answer, wait)
  PROVE  Told(w, answer)
BY WorkersAreWorkers DEF Respond, Told, OInv, WorkerType

LEMMA AdvanceReads ==
  ASSUME NEW w, NEW step, NEW permissions, Advance(w, step, permissions)
  PROVE  Read(w, step, permissions)
BY DEF Advance, Read

LEMMA CallGroup ==
  ASSUME GInv, OInv', NEW w \in Workers, worker[w].phase = "ready", IsGroup(worker[w].row),
         UNCHANGED <<outbox, roundState, task>>, NEW r \in Rounds, r = RoundOf(w),
         original' \in [Rounds -> Permissions \cup {NotSaved}],
         \A q \in Rounds \ {r} : original'[q] = original[q],
         \/ original'[r] = original[r]
         \/ Mutes(w) /\ original'[r] = "own" /\ seen[w].step # "none",
         \/ perms' \in {perms, "own"}
         \/ Mutes(w) /\ original[r] # NotSaved /\ seen[w].step # "none" /\ perms' \in Permissions,
         \/ \E step \in Steps \ {"none"}, permissions \in Permissions \cup {NotSaved} :
              /\ Read(w, step, permissions)
              /\ step \in {"fetch", "save"} => Mutes(w)
              /\ step \in {"save", "set"} => permissions = "own"
              /\ Mutes(w) => /\ step = "set" <=> original'[r] # NotSaved
                             /\ task[r].restore # 0 => outbox[task[r].restore].state = "PENDING"
         \/ \E answer \in GroupAnswers :
              /\ Told(w, answer)
              /\ answer = "ok" /\ ~Mutes(w) => perms' = "own"
              /\ answer = "same" /\ ~Mutes(w) => original'[r] = NotSaved
  PROVE  GInv'
<1>1. PICK i \in DOMAIN outbox :
        /\ i = worker[w].row /\ i # 0 /\ i \in Nat /\ outbox[i].state = "INFLIGHT"
        /\ \A v \in Workers \ {w} : worker[v].row # i
        /\ Mutes(w) => i = task[r].mute
        /\ ~Mutes(w) => i = task[r].restore
        /\ \A q \in Rounds : i = task[q].mute => q = r /\ Mutes(w)
        /\ \A q \in Rounds : i = task[q].restore => q = r /\ ~Mutes(w)
  BY RoundFacts
<1>2. \A q \in Rounds : original[q] # NotSaved => original'[q] # NotSaved
  BY DEF NotSaved
<1>3. /\ \A v \in Workers \ {w} : worker'[v] = worker[v] /\ seen'[v] = seen[v]
      /\ worker'[w].row = i /\ worker'[w].phase \in {"ready", "answered"}
  BY <1>1 DEF Read, Told, GInv, GroupTypes
<1>4. /\ roundState' = roundState /\ task' = task /\ outbox' = outbox
      /\ \A j : IsGroup(j)' <=> IsGroup(j)
  BY DEF IsGroup
<1>5. GroupTypes'
  <2>1. perms' \in Permissions
    BY DEF GInv, GroupTypes, Permissions
  <2>2. seen' \in [Workers -> [step : Steps, permissions : Permissions \cup {NotSaved}]]
    BY DEF Read, Told, Unseen, Steps, GInv, GroupTypes
  <2> QED BY <2>1, <2>2 DEF GInv, GroupTypes
<1>6. RoundsOK'
  <2>1. ASSUME NEW q \in Rounds, original'[q] # NotSaved
        PROVE  original'[q] = "own" /\ task[q].mute # 0
    BY <1>1, <2>1 DEF GInv, RoundsOK
  <2> QED BY <2>1, <1>4 DEF GInv, RoundsOK
<1>7. TasksOK'
  BY <1>4 DEF GInv, TasksOK
<1>8. Turns'
  <2>1. ASSUME NEW q \in Rounds, original'[q] # NotSaved, NEW s \in 1..(q - 1),
               task[s].restore # 0
        PROVE  outbox[task[s].restore].state = "SENT"
    <3>1. CASE original[q] # NotSaved
      BY <2>1, <3>1 DEF GInv, Turns
    <3>2. CASE original[q] = NotSaved
      <4>1. q = r /\ Mutes(w) /\ seen[w].step # "none"
        BY <2>1, <3>2
      <4>2. s \in Rounds /\ s < r
        BY <4>1, TaskFacts
      <4> QED BY <4>1, <4>2, <2>1, MuteAlone
    <3> QED BY <3>1, <3>2
  <2> QED BY <2>1, <1>4 DEF GInv, Turns
<1>9. SeenOK'
  <2> SUFFICES ASSUME NEW v \in Workers
               PROVE  /\ seen'[v].step # "none" => worker'[v].phase = "ready" /\ IsGroup(worker[v].row)'
                      /\ seen'[v].step \in {"fetch", "save"} => Mutes(v)'
                      /\ seen'[v].step = "none" => seen'[v] = Unseen
                      /\ seen'[v].step \in {"save", "set"} => seen'[v].permissions = "own"
                      /\ \A q \in Rounds : worker'[v].row = task'[q].mute /\ seen'[v].step # "none"
                           => /\ seen'[v].step = "set" <=> original'[q] # NotSaved
                              /\ task'[q].restore # 0 => outbox'[task'[q].restore].state = "PENDING"
    BY DEF SeenOK
  <2>1. CASE v # w
    <3>1. worker'[v] = worker[v] /\ seen'[v] = seen[v] /\ worker[v].row # i
      BY <1>1, <1>3, <2>1
    <3>2. Mutes(v)' <=> Mutes(v)
      BY <3>1, <1>4 DEF Mutes, Held
    <3>3. IsGroup(worker[v].row)' <=> IsGroup(worker[v].row)
      BY <3>1, <1>4 DEF IsGroup
    <3>4. ASSUME NEW q \in Rounds, worker[v].row = task[q].mute
          PROVE  original'[q] = original[q]
      BY <3>1, <3>4, <1>1
    <3> QED BY <3>1, <3>2, <3>3, <3>4, <1>4 DEF GInv, SeenOK
  <2>2. CASE v = w /\ seen'[w] = Unseen
    BY <2>2 DEF Unseen
  <2>3. CASE v = w /\ seen'[w] # Unseen
    <3>1. PICK step \in Steps \ {"none"}, permissions \in Permissions \cup {NotSaved} :
            /\ Read(w, step, permissions)
            /\ step \in {"fetch", "save"} => Mutes(w)
            /\ step \in {"save", "set"} => permissions = "own"
            /\ Mutes(w) => /\ step = "set" <=> original'[r] # NotSaved
                           /\ task[r].restore # 0 => outbox[task[r].restore].state = "PENDING"
      BY <2>3 DEF Told, GInv, GroupTypes
    <3>2. seen'[w].step = step /\ seen'[w].permissions = permissions /\ worker' = worker
      BY <3>1 DEF Read, GInv, GroupTypes
    <3>3. (Mutes(w)' <=> Mutes(w)) /\ (IsGroup(worker[w].row)' <=> IsGroup(worker[w].row))
      BY <3>2, <1>4 DEF Mutes, Held, IsGroup
    <3>4. \A q \in Rounds : worker[w].row = task[q].mute => q = r /\ Mutes(w)
      BY <1>1
    <3> QED BY <3>1, <3>2, <3>3, <3>4, <1>4, <2>3
  <2> QED BY <2>1, <2>2, <2>3
<1>10. PermsOK'
  <2>1. ASSUME perms' = "muted"
        PROVE  \E q \in Rounds : original'[q] # NotSaved /\ ~Sent(task[q].restore)'
    <3>1. CASE perms = "muted"
      <4>1. PICK q \in Rounds : original[q] # NotSaved /\ ~Sent(task[q].restore)
        BY <3>1 DEF GInv, PermsOK
      <4> QED BY <4>1, <1>2, <1>4 DEF Sent
    <3>2. CASE perms # "muted"
      <4>1. Mutes(w) /\ original[r] # NotSaved /\ seen[w].step # "none"
        BY <2>1, <3>2
      <4>2. ~Sent(task[r].restore)
        BY <4>1, MuteAlone DEF Sent
      <4> QED BY <4>1, <4>2, <1>2, <1>4 DEF Sent
    <3> QED BY <3>1, <3>2
  <2>2. ASSUME NEW v \in Workers, NEW q \in Rounds, worker'[v].phase = "answered",
               worker'[v].row # 0, worker'[v].row = task[q].restore
        PROVE  /\ worker'[v].answer = "ok" => perms' = "own"
               /\ worker'[v].answer = "same" => original'[q] = NotSaved
    <3>1. CASE v # w
      <4>1. worker'[v] = worker[v] /\ worker[v].row # i /\ worker[v].phase # "idle"
        BY <1>1, <1>3, <2>2, <3>1
      <4>2. ~(Mutes(w) /\ seen[w].step # "none")
        BY <2>2, <4>1, NoRestoreBeside
      <4>3. original'[q] = original[q] /\ perms' \in {perms, "own"}
        BY <4>2
      <4> QED BY <2>2, <4>1, <4>3 DEF GInv, PermsOK
    <3>2. CASE v = w
      <4>1. q = r /\ ~Mutes(w)
        BY <1>1, <1>3, <2>2, <3>2
      <4>2. ~(UNCHANGED worker)
        BY <2>2, <3>2
      <4> QED BY <3>2, <4>1, <4>2 DEF Told, Read
    <3> QED BY <3>1, <3>2
  <2> QED BY <2>1, <2>2, <1>4 DEF PermsOK
<1> QED BY <1>5, <1>6, <1>7, <1>8, <1>9, <1>10 DEF GInv

LEMMA ReadStateGroup == ASSUME GInv, OInv', NEW w \in Workers, ReadState(w) PROVE GInv'
<1>1. worker[w].phase = "ready" /\ IsGroup(worker[w].row) /\ UNCHANGED <<outbox, roundState, task>>
      /\ UNCHANGED <<original, perms>>
  BY DEF ReadState, AtStep
<1>2. PICK r \in Rounds : r = RoundOf(w) /\ (Mutes(w) => worker[w].row = task[r].mute)
  BY <1>1, RoundFacts
<1>3. original' \in [Rounds -> Permissions \cup {NotSaved}]
      /\ \A q \in Rounds : original'[q] = original[q]
  BY <1>1 DEF GInv, GroupTypes
<1>4. CASE /\ IF Mutes(w) THEN roundState[r] # "CLOSED" ELSE original[r] = NotSaved
           /\ Respond(w, "same", 0)
  <2>1. Told(w, "same") /\ "same" \in GroupAnswers /\ "same" # "ok"
    BY <1>4, RespondTells DEF GInv, GroupAnswers
  <2>2. ~Mutes(w) => original'[r] = NotSaved
    BY <1>3, <1>4
  <2> QED BY <1>1, <1>2, <1>3, <2>1, <2>2, CallGroup
<1>5. CASE /\ ~(IF Mutes(w) THEN roundState[r] # "CLOSED" ELSE original[r] = NotSaved)
           /\ Advance(w, IF original[r] = NotSaved THEN "fetch" ELSE "set", original[r])
  <2>1. PICK step \in {"fetch", "set"} :
          step = (IF original[r] = NotSaved THEN "fetch" ELSE "set")
    OBVIOUS
  <2>2. Read(w, step, original[r]) /\ step \in Steps \ {"none"}
    BY <1>5, <2>1, AdvanceReads DEF Steps
  <2>3. original[r] \in Permissions \cup {NotSaved}
    BY DEF GInv, GroupTypes
  <2>4. step \in {"fetch", "save"} => Mutes(w)
    BY <1>5, <2>1
  <2>5. step \in {"save", "set"} => original[r] = "own"
    BY <2>1 DEF GInv, RoundsOK
  <2>6. Mutes(w) => task[r].restore = 0
    BY <1>5 DEF GInv, RoundsOK
  <2>7. step = "set" <=> original'[r] # NotSaved
    BY <1>3, <2>1
  <2> QED BY <1>1, <1>2, <1>3, <2>2, <2>3, <2>4, <2>5, <2>6, <2>7, CallGroup
<1> QED BY <1>2, <1>4, <1>5 DEF ReadState

(* A call that fails, after which the permissions may have been set. *)
LEMMA FailsGroup ==
  ASSUME GInv, OInv', NEW w \in Workers, worker[w].phase = "ready", IsGroup(worker[w].row),
         UNCHANGED <<outbox, roundState, task, original>>, Fails(w),
         \/ perms' \in {perms, "own"}
         \/ Mutes(w) /\ original[RoundOf(w)] # NotSaved /\ seen[w].step # "none"
            /\ perms' \in Permissions
  PROVE  GInv'
<1>1. PICK answer \in {"lost", "refused", "limited"}, wait \in Waits \cup {0} :
        Respond(w, answer, wait)
  BY DEF Fails
<1>2. Told(w, answer) /\ answer \in GroupAnswers /\ answer # "ok" /\ answer # "same"
  BY <1>1, RespondTells DEF GInv, GroupAnswers
<1>3. PICK r \in Rounds : r = RoundOf(w)
  BY RoundFacts
<1>4. original' \in [Rounds -> Permissions \cup {NotSaved}]
      /\ \A q \in Rounds : original'[q] = original[q]
  BY DEF GInv, GroupTypes
<1> QED BY <1>2, <1>3, <1>4, CallGroup

LEMMA GetChatGroup == ASSUME GInv, OInv', NEW w \in Workers, GetChat(w) PROVE GInv'
<1>1. worker[w].phase = "ready" /\ IsGroup(worker[w].row) /\ seen[w].step = "fetch"
      /\ UNCHANGED <<outbox, roundState, task>> /\ UNCHANGED <<original, perms>>
  BY DEF GetChat, AtStep
<1>2. CASE Fails(w)
  BY <1>1, <1>2, FailsGroup
<1>3. CASE Advance(w, "save", perms)
  <2>1. perms = "own" /\ Mutes(w) /\ "own" \in Permissions
    BY <1>1, FetchedOwn DEF GInv, SeenOK, Permissions
  <2>2. Read(w, "save", "own") /\ "save" \in Steps \ {"none"}
    BY <1>3, <2>1, AdvanceReads DEF Steps
  <2>3. PICK r \in Rounds : r = RoundOf(w) /\ worker[w].row = task[r].mute
    BY <1>1, <2>1, RoundFacts
  <2>4. original[r] = NotSaved /\ (task[r].restore # 0 => outbox[task[r].restore].state = "PENDING")
    BY <1>1, <2>3 DEF GInv, SeenOK
  <2>5. original' \in [Rounds -> Permissions \cup {NotSaved}]
        /\ \A q \in Rounds : original'[q] = original[q]
    BY <1>1 DEF GInv, GroupTypes
  <2> QED BY <1>1, <2>1, <2>2, <2>3, <2>4, <2>5, CallGroup
<1> QED BY <1>2, <1>3 DEF GetChat

LEMMA SaveGroup == ASSUME GInv, OInv', NEW w \in Workers, SaveSnapshot(w) PROVE GInv'
<1>1. worker[w].phase = "ready" /\ IsGroup(worker[w].row) /\ seen[w].step = "save"
      /\ UNCHANGED <<outbox, roundState, task>> /\ UNCHANGED perms
  BY DEF SaveSnapshot, AtStep
<1>2. Mutes(w) /\ seen[w].permissions = "own" /\ "own" \in Permissions /\ "own" # NotSaved
  BY <1>1 DEF GInv, SeenOK, Permissions, NotSaved
<1>3. PICK r \in Rounds : r = RoundOf(w) /\ worker[w].row = task[r].mute
  BY <1>1, <1>2, RoundFacts
<1>4. original[r] = NotSaved /\ (task[r].restore # 0 => outbox[task[r].restore].state = "PENDING")
  BY <1>1, <1>3 DEF GInv, SeenOK
<1>5. /\ original' \in [Rounds -> Permissions \cup {NotSaved}] /\ original'[r] = "own"
      /\ \A q \in Rounds \ {r} : original'[q] = original[q]
  BY <1>2, <1>3, <1>4 DEF SaveSnapshot, GInv, GroupTypes
<1>6. CASE Respond(w, "same", 0)
  <2>1. Told(w, "same") /\ "same" \in GroupAnswers
    BY <1>6, RespondTells DEF GInv, GroupAnswers
  <2> QED BY <1>1, <1>2, <1>3, <1>5, <2>1, CallGroup
<1>7. CASE Advance(w, "set", original'[r])
  <2>1. Read(w, "set", "own") /\ "set" \in Steps \ {"none"}
    BY <1>5, <1>7, AdvanceReads DEF Steps
  <2> QED BY <1>1, <1>2, <1>3, <1>4, <1>5, <2>1, CallGroup
<1> QED BY <1>3, <1>6, <1>7 DEF SaveSnapshot

LEMMA SetGroup == ASSUME GInv, OInv', NEW w \in Workers, SetPermissions(w) PROVE GInv'
<1>1. worker[w].phase = "ready" /\ IsGroup(worker[w].row) /\ seen[w].step = "set"
      /\ UNCHANGED <<outbox, roundState, task>> /\ UNCHANGED original
  BY DEF SetPermissions, AtStep
<1>2. seen[w].permissions = "own" /\ perms \in Permissions
  BY <1>1 DEF GInv, SeenOK, GroupTypes
<1>3. PICK r \in Rounds : r = RoundOf(w) /\ (Mutes(w) => worker[w].row = task[r].mute)
  BY <1>1, RoundFacts
<1>4. Mutes(w) => original[r] # NotSaved
  BY <1>1, <1>3 DEF GInv, SeenOK
<1>5. /\ Mutes(w) => perms' \in {perms, "muted"} /\ perms' \in Permissions
      /\ ~Mutes(w) => perms' \in {perms, "own"}
  BY <1>2 DEF SetPermissions, Permissions
<1>6. \/ perms' \in {perms, "own"}
      \/ Mutes(w) /\ original[r] # NotSaved /\ seen[w].step # "none" /\ perms' \in Permissions
  BY <1>1, <1>4, <1>5
<1>7. original' \in [Rounds -> Permissions \cup {NotSaved}]
      /\ \A q \in Rounds : original'[q] = original[q]
  BY <1>1 DEF GInv, GroupTypes
<1>8. CASE Respond(w, "ok", 0) /\ perms' = (IF Mutes(w) THEN "muted" ELSE seen[w].permissions)
  <2>1. Told(w, "ok") /\ "ok" \in GroupAnswers /\ "ok" # "same"
    BY <1>8, RespondTells DEF GInv, GroupAnswers
  <2>2. ~Mutes(w) => perms' = "own"
    BY <1>2, <1>8
  <2> QED BY <1>1, <1>3, <1>6, <1>7, <2>1, <2>2, CallGroup
<1>9. CASE Fails(w)
  BY <1>1, <1>3, <1>6, <1>9, FailsGroup
<1> QED BY <1>8, <1>9 DEF SetPermissions

LEMMA GroupNextGInv == ASSUME GInv, [GroupNext]_allVars, ~crossed' PROVE GInv'
<1>1. OInv'
  BY GroupNextOInv DEF GInv
<1>2. ASSUME NEW w \in Workers, GroupClaim(w) PROVE GInv'
  <2>1. Claim(w) /\ ~Overtakes(NextRow) /\ UNCHANGED roundVars
    BY <1>2 DEF GroupClaim, roundVars
  <2> QED BY <1>1, <2>1, ClaimGroup
<1>3. ASSUME NEW w \in Workers, Send(w), UNCHANGED gvars PROVE GInv'
  <2>1. UNCHANGED roundVars
    BY <1>3 DEF gvars, roundVars
  <2>2. CASE Transmit(w)
    BY <1>1, <2>1, <2>2, TransmitGroup
  <2>3. CASE Fallback(w)
    BY <1>1, <2>1, <2>3, FallbackGroup
  <2>4. CASE Pace(w) \/ Recheck(w)
    BY <1>1, <2>1, <2>4, OtherGroup
  <2>5. CASE GiveUp(w) \/ Defer(w) \/ RateLimit(w) \/ CompleteUnsent(w) \/ CompleteFailed(w)
    BY <1>1, <2>1, <2>5, HandedBackGroup
  <2>6. CASE CompleteSent(w) \/ CompletePhoto(w)
    BY <1>1, <2>1, <2>6, SentGroup
  <2> QED BY <1>3, <2>2, <2>3, <2>4, <2>5, <2>6 DEF Send, Record
<1>4. ASSUME NEW w \in Workers, GroupWork(w) PROVE GInv'
  BY <1>1, <1>2, <1>3, <1>4, ReadStateGroup, GetChatGroup, SaveGroup, SetGroup, RecordedGroup
     DEF GroupWork
<1>5. CASE UNCHANGED allVars
  BY <1>1, <1>5, OtherGroup DEF allVars, gvars, roundVars
<1>6. CASE /\ UNCHANGED gvars
           /\ \/ \E chat \in Chats, kind \in Kinds, card \in Cards \cup {NoCard} :
                   Enqueue(chat, kind, card)
              \/ \E w \in Workers : LocalFailure(w)
              \/ Disconnect \/ Tick \/ (\E b \in Bots : BindBot(b))
  <2>1. UNCHANGED roundVars
    BY <1>6 DEF gvars, roundVars
  <2> QED BY <1>1, <1>6, <2>1, OtherGroup
<1>7. ASSUME NEW i \in DOMAIN outbox, \/ (Retry(i) \/ Skip(i)) /\ UNCHANGED gvars
                                      \/ GroupAck(i)
      PROVE  GInv'
  <2>1. CASE (Retry(i) \/ Skip(i)) /\ UNCHANGED gvars
    <3>1. UNCHANGED roundVars
      BY <2>1 DEF gvars, roundVars
    <3> QED BY <1>1, <2>1, <3>1, DecideGroup
  <2> QED BY <1>1, <1>7, <2>1, AckGroup
<1>8. ASSUME NEW b \in Bots, Restart(b), seen' = [w \in Workers |-> Unseen],
             UNCHANGED <<roundState, original, task, perms>>
      PROVE  GInv'
  BY <1>1, <1>8, RestartGroup
<1>9. ASSUME NEW r \in Rounds, (\E mute \in BOOLEAN : CloseRound(r, mute)) \/ EndRound(r)
      PROVE  GInv'
  BY <1>1, <1>9, CloseGroup, EndGroup
<1> QED BY <1>4, <1>5, <1>6, <1>7, <1>8, <1>9 DEF GroupNext

LEMMA InitGInv == GroupInit => GInv
<1> SUFFICES ASSUME GroupInit PROVE GInv
  OBVIOUS
<1>1. OInv
  BY InitOInv DEF GroupInit
<1>2. /\ roundState = [r \in Rounds |-> "open"] /\ original = [r \in Rounds |-> NotSaved]
      /\ task = [r \in Rounds |-> [mute |-> 0, restore |-> 0]]
      /\ perms = "own" /\ seen = [w \in Workers |-> Unseen]
  BY DEF GroupInit
<1>3. GroupTypes
  BY <1>2 DEF GroupTypes, Permissions, Unseen, Steps
<1>4. \A i \in DOMAIN outbox : ~IsGroup(i)
  <2>1. DOMAIN outbox = DOMAIN OldRows /\ \A i \in DOMAIN outbox : outbox[i].kind = OldRows[i].kind
    BY DEF GroupInit, Init, NewRow
  <2> QED BY <2>1, GroupAssumption DEF IsGroup, MessageKinds, PhotoKinds, GroupKinds
<1>5. ASSUME NEW r \in Rounds
      PROVE  /\ roundState[r] = "open" /\ original[r] = NotSaved /\ task[r].mute = 0
             /\ task[r].restore = 0 /\ \A s \in 1..(r - 1) : s \in Rounds
  BY <1>2, GroupAssumption DEF Rounds
<1>6. RoundsOK /\ TasksOK /\ Turns
  BY <1>4, <1>5 DEF RoundsOK, TasksOK, Turns
<1>7. SeenOK /\ PermsOK
  <2>1. \A w \in Workers : seen[w] = Unseen
    BY <1>2
  <2> QED BY <2>1, <1>2, <1>5 DEF SeenOK, PermsOK, Unseen
<1> QED BY <1>1, <1>3, <1>6, <1>7 DEF GInv

(* The tasks are right as long as none has overtaken another bot's. *)
Uncrossed == ~crossed => GInv

LEMMA GroupNextUncrossed ==
  ASSUME crossed \in BOOLEAN, Uncrossed, [GroupNext]_allVars
  PROVE  Uncrossed'
<1>1. ~crossed' => ~crossed
  BY DEF GroupNext, GroupWork, GroupClaim, ReadState, GetChat, SaveSnapshot, SetPermissions,
         RecordGroup, CloseRound, EndRound, GroupAck, gvars, allVars
<1> QED BY <1>1, GroupNextGInv DEF Uncrossed

-----------------------------------------------------------------------------
(* The types of rounds and tasks, overtaken or not *)

(* Every task is of a round, and a round that has not ended has no restore. *)
TaskRows ==
  /\ \A r \in Rounds : /\ task[r].mute \in 0..Len(outbox) /\ task[r].restore \in 0..Len(outbox)
                       /\ roundState[r] = "open" => task[r].mute = 0
                       /\ roundState[r] # "ended" => task[r].restore = 0
  /\ \A i \in DOMAIN outbox : IsGroup(i) => \E r \in Rounds : i \in {task[r].mute, task[r].restore}

SeenTypes == \A w \in Workers : seen[w].step \in {"save", "set"} => seen[w].permissions \in Permissions

TInv == OInv /\ GroupTypes /\ TaskRows /\ SeenTypes /\ crossed \in BOOLEAN

(* No row becomes a task, and none stops being one. *)
SameKinds ==
  /\ DOMAIN outbox \subseteq DOMAIN outbox'
  /\ \A j \in DOMAIN outbox : outbox'[j].kind = outbox[j].kind
  /\ \A j \in DOMAIN outbox' \ DOMAIN outbox : ~IsGroup(j)'

LEMMA RowKinds ==
  ASSUME OInv, NEW i \in DOMAIN outbox, NEW r, outbox' = [outbox EXCEPT ![i] = r],
         r.kind = outbox[i].kind
  PROVE  SameKinds
BY RowsAreRows DEF SameKinds, OInv

LEMMA ReleaseKinds ==
  ASSUME OInv, NEW w \in Workers, worker[w].phase # "idle", NEW r \in Row, Release(w, r),
         r.kind = Held(w).kind
  PROVE  SameKinds
<1>1. worker[w].row \in DOMAIN outbox /\ Held(w) = outbox[worker[w].row]
  BY HeldFacts
<1> QED BY <1>1, RowKinds DEF Release

LEMMA SendKinds == ASSUME OInv, NEW w \in Workers, Send(w) PROVE SameKinds
<1>1. CASE UNCHANGED outbox
  BY <1>1 DEF SameKinds
<1>2. CASE GiveUp(w) \/ Defer(w) \/ RateLimit(w) \/ CompleteUnsent(w) \/ CompleteFailed(w)
  <2>1. worker[w].phase # "idle" /\ \E r \in Row : HandsBack(w, r)
    BY <1>2, HandedBack
  <2> QED BY <2>1, ReleaseKinds DEF HandsBack
<1>3. CASE CompleteSent(w) \/ CompletePhoto(w)
  <2>1. worker[w].phase # "idle"
    BY <1>3 DEF CompleteSent, CompletePhoto, Answered
  <2>2. Held(w) \in Row
    BY <2>1, HeldFacts
  <2> DEFINE note == worker[w].answer = "same"
             r == With(Held(w), "SENT", Cooldown, note)
             s == With(Held(w), "SENT", 0, TRUE)
  <2>3. note \in BOOLEAN /\ Cooldown \in Nat
    BY OutboxAssumption
  <2>4. Release(w, r) \/ Release(w, s)
    BY <1>3 DEF CompleteSent, CompletePhoto
  <2> HIDE DEF note
  <2>5. "SENT" \in States /\ 0 \in Nat /\ TRUE \in BOOLEAN
    BY DEF States
  <2>6. r \in Row /\ r.kind = Held(w).kind
    BY <2>2, <2>3, <2>5, WithType
  <2>7. s \in Row /\ s.kind = Held(w).kind
    BY <2>2 DEF With, Row, States
  <2> HIDE DEF r, s
  <2> QED BY <2>1, <2>4, <2>6, <2>7, ReleaseKinds
<1>4. CASE Transmit(w)
  <2>1. worker[w].phase # "idle" /\ worker[w].edit \in BOOLEAN
    BY <1>4, WorkersAreWorkers DEF Transmit, OInv, WorkerType
  <2>2. worker[w].row \in DOMAIN outbox /\ Held(w) \in Row /\ Held(w) = outbox[worker[w].row]
    BY <2>1, HeldFacts
  <2>3. PICK arrived \in BOOLEAN :
          outbox' = [outbox EXCEPT ![worker[w].row] = Called(Held(w), arrived, worker[w].edit)]
    BY <1>4, TransmitEffect
  <2>4. Called(Held(w), arrived, worker[w].edit).kind = Held(w).kind
    BY <2>1, <2>2, CalledType
  <2> QED BY <2>2, <2>3, <2>4, RowKinds
<1>5. CASE Fallback(w)
  <2>1. worker[w].phase # "idle"
    BY <1>5 DEF Fallback, Answered
  <2>2. PICK i \in DOMAIN outbox : i = worker[w].row /\ Held(w) = outbox[i] /\ outbox[i] \in Row
    BY <2>1, HeldFacts
  <2> DEFINE r == With(outbox[i], "SENT", outbox[i].due, TRUE)
             t == NewRow(outbox[i].chat, "text", NoCard, bot)
             f == [outbox EXCEPT ![i] = r]
  <2>3. outbox[i].due \in Nat /\ outbox[i].chat \in Chats /\ bot \in Bots \cup {NoBot}
    BY <2>2 DEF Row, OInv, TypeOK
  <2>4. r \in Row /\ r.kind = outbox[i].kind
    BY <2>2, <2>3 DEF With, Row, States
  <2>5. t \in Row
    BY <2>3, NewRowType DEF MessageKinds
  <2>6. t.kind = "text"
    BY DEF NewRow
  <2>7. outbox' = Append(f, t)
    BY <2>2, <1>5 DEF Fallback
  <2> HIDE DEF r, t
  <2>8. outbox \in [DOMAIN outbox -> Row] /\ DOMAIN outbox = 1..Len(outbox) /\ Len(outbox) \in Nat
    BY RowsAreRows DEF OInv
  <2>9. f \in [DOMAIN outbox -> Row]
    BY <2>2, <2>4, <2>8
  <2>10. f \in Seq(Row) /\ Len(f) = Len(outbox)
    BY <2>9, <2>8, RowsUpdate DEF OInv
  <2>11. \A j \in DOMAIN outbox : f[j].kind = outbox[j].kind
    BY <2>2, <2>4, <2>8
  <2> HIDE DEF f
  <2>12. /\ DOMAIN outbox' = 1..(Len(outbox) + 1) /\ outbox'[Len(outbox) + 1] = t
         /\ \A j \in DOMAIN outbox : outbox'[j] = f[j]
    BY <2>5, <2>7, <2>8, <2>10, RowsAppend
  <2>13. ASSUME NEW j \in DOMAIN outbox' \ DOMAIN outbox PROVE ~IsGroup(j)'
    <3>1. j = Len(outbox) + 1
      BY <2>8, <2>12
    <3> QED BY <3>1, <2>6, <2>12 DEF IsGroup, GroupKinds
  <2> QED BY <2>8, <2>11, <2>12, <2>13 DEF SameKinds
<1>6. CASE Pace(w) \/ Recheck(w)
  BY <1>1, <1>6 DEF Pace, Recheck
<1> QED BY <1>2, <1>3, <1>4, <1>5, <1>6 DEF Send, Record

LEMMA ClaimKinds == ASSUME OInv, NEW w \in Workers, Claim(w) PROVE SameKinds
<1>1. PICK i \in DOMAIN outbox : i = NextRow
  BY NextRowWaits DEF Claim, OInv
<1> DEFINE n == IF IsGroup(i) THEN Min({outbox[i].attempts + 1, GiveUpAfter})
                ELSE outbox[i].attempts
           r == [outbox[i] EXCEPT !.state = "INFLIGHT", !.attempts = n]
<1>2. outbox[i] \in Row
  BY RowsAreRows DEF OInv
<1>3. outbox' = [outbox EXCEPT ![i] = r]
  BY <1>1, <1>2 DEF Claim
<1>4. r.kind = outbox[i].kind
  BY <1>2 DEF Row
<1> HIDE DEF r
<1> QED BY <1>3, <1>4, RowKinds

LEMMA EnqueueKinds ==
  ASSUME OInv, NEW chat \in Chats, NEW kind \in Kinds, NEW card \in Cards \cup {NoCard},
         Enqueue(chat, kind, card)
  PROVE  SameKinds
<1> DEFINE x == NewRow(chat, kind, card, bot)
<1>1. kind \in MessageKinds /\ kind \notin GroupKinds /\ kind \in MessageKinds \cup GroupKinds
  BY GroupAssumption DEF MessageKinds, PhotoKinds, GroupKinds
<1>2. x \in Row
  BY <1>1, NewRowType DEF OInv, TypeOK
<1>3. x.kind \notin GroupKinds
  BY <1>1 DEF NewRow
<1>4. outbox' = Append(outbox, x) /\ outbox \in Seq(Row)
  BY DEF Enqueue, OInv, TypeOK
<1> HIDE DEF x
<1>5. /\ DOMAIN outbox' = 1..(Len(outbox) + 1) /\ outbox'[Len(outbox) + 1] = x
      /\ DOMAIN outbox = 1..Len(outbox) /\ Len(outbox) \in Nat
      /\ \A j \in DOMAIN outbox : outbox'[j] = outbox[j]
  BY <1>2, <1>4, RowsAppend
<1>6. ASSUME NEW j \in DOMAIN outbox' \ DOMAIN outbox PROVE ~IsGroup(j)'
  <2>1. j = Len(outbox) + 1
    BY <1>5
  <2> QED BY <2>1, <1>3, <1>5 DEF IsGroup
<1> QED BY <1>5, <1>6 DEF SameKinds

LEMMA DecideKinds ==
  ASSUME OInv, NEW i \in DOMAIN outbox, Retry(i) \/ Ack(i) \/ Skip(i)
  PROVE  SameKinds
<1>1. outbox[i] \in Row
  BY RowsAreRows DEF OInv
<1> DEFINE p == With(outbox[i], "PENDING", 0, FALSE)
           r == [p EXCEPT !.retries = @ + 1]
           s == With(outbox[i], "SENT", outbox[i].due, TRUE)
<1>2. outbox' = [outbox EXCEPT ![i] = r] \/ outbox' = [outbox EXCEPT ![i] = s]
  BY DEF Retry, Ack, Skip
<1>3. p \in Row /\ p.kind = outbox[i].kind
  BY <1>1 DEF With, Row, States
<1>4. s.kind = outbox[i].kind
  BY <1>1 DEF With, Row
<1> HIDE DEF p, s
<1>5. r.kind = outbox[i].kind
  BY <1>3 DEF Row
<1> HIDE DEF r
<1> QED BY <1>2, <1>4, <1>5, RowKinds

LEMMA ProcessKinds ==
  ASSUME OInv, \/ Disconnect \/ Tick \/ \E b \in Bots : Restart(b) \/ BindBot(b)
               \/ \E w \in Workers : LocalFailure(w)
  PROVE  SameKinds
<1>1. CASE UNCHANGED outbox
  BY <1>1 DEF SameKinds
<1>2. CASE Tick
  <2>1. DOMAIN outbox' = DOMAIN outbox
    BY <1>2 DEF Tick
  <2>2. ASSUME NEW j \in DOMAIN outbox PROVE outbox'[j].kind = outbox[j].kind
    <3>1. PICK r \in Row : r = outbox[j]
      BY RowsAreRows DEF OInv
    <3>2. outbox'[j] = [r EXCEPT !.due = Less(@)]
      BY <3>1, <1>2 DEF Tick
    <3> QED BY <3>1, <3>2 DEF Row
  <2> QED BY <2>1, <2>2 DEF SameKinds
<1>3. ASSUME NEW b \in Bots, BindBot(b) PROVE SameKinds
  BY <1>3, BindEffect DEF SameKinds
<1>4. ASSUME NEW b \in Bots, Restart(b) PROVE SameKinds
  <2>1. DOMAIN outbox' = DOMAIN outbox /\ \A j \in DOMAIN outbox : outbox'[j] = Repaired(outbox[j])
    BY <1>4 DEF Restart
  <2>2. \A j \in DOMAIN outbox : outbox[j] \in Row
    BY RowsAreRows DEF OInv
  <2> QED BY <2>1, <2>2, RepairedType DEF SameKinds
<1> QED BY <1>1, <1>2, <1>3, <1>4 DEF Disconnect, LocalFailure

LEMMA KindsKeepTasks ==
  ASSUME TInv, OInv', SameKinds, UNCHANGED <<roundState, task>>
  PROVE  TaskRows'
<1>0. outbox \in Seq(Row) /\ outbox' \in Seq(Row)
  BY DEF TInv, OInv, TypeOK, Row
<1>1. /\ DOMAIN outbox = 1..Len(outbox) /\ Len(outbox) \in Nat
      /\ DOMAIN outbox' = 1..Len(outbox') /\ Len(outbox') \in Nat
  BY <1>0, LenProperties
<1>2. 0..Len(outbox) \subseteq 0..Len(outbox')
  BY <1>1 DEF SameKinds
<1>3. ASSUME NEW i \in DOMAIN outbox', IsGroup(i)'
      PROVE  \E r \in Rounds : i \in {task[r].mute, task[r].restore}
  <2>1. i \in DOMAIN outbox /\ IsGroup(i)
    BY <1>3 DEF SameKinds, IsGroup
  <2> QED BY <2>1 DEF TInv, TaskRows
<1> QED BY <1>2, <1>3 DEF TInv, TaskRows

(* Steps that touch no round. *)
LEMMA QuietTypes ==
  ASSUME TInv, OInv', SameKinds, UNCHANGED <<roundState, original, task>>,
         perms' = perms \/ perms' = "own",
         UNCHANGED seen \/ seen' = [w \in Workers |-> Unseen], crossed' \in BOOLEAN
  PROVE  TInv'
<1>1. GroupTypes'
  BY DEF TInv, GroupTypes, Permissions, Unseen, Steps
<1>2. SeenTypes'
  BY DEF TInv, SeenTypes, Unseen
<1> QED BY <1>1, <1>2, KindsKeepTasks DEF TInv

LEMMA RoundIsOne ==
  ASSUME TInv, NEW w \in Workers, worker[w].phase # "idle", IsGroup(worker[w].row)
  PROVE  RoundOf(w) \in Rounds
<1>1. worker[w].row \in DOMAIN outbox
  BY HeldFacts DEF TInv
<1>2. \E r \in Rounds : worker[w].row \in {task[r].mute, task[r].restore}
  BY <1>1 DEF TInv, TaskRows
<1> QED BY <1>2 DEF RoundOf

(* A call, whatever it answers, reads and saves permissions. *)
LEMMA CallTypes == ASSUME TInv, OInv', NEW w \in Workers, Calls(w) PROVE TInv'
<1>1. /\ UNCHANGED <<outbox, roundState, task>>
      /\ worker[w].phase = "ready" /\ IsGroup(worker[w].row) /\ UNCHANGED crossed
  BY DEF Calls, ReadState, GetChat, SaveSnapshot, SetPermissions, AtStep
<1>2. PICK r \in Rounds : r = RoundOf(w)
  BY <1>1, RoundIsOne
<1>3. TaskRows'
  BY <1>1 DEF TInv, TaskRows, IsGroup
<1>4. /\ original[r] \in Permissions \cup {NotSaved} /\ perms \in Permissions
      /\ seen[w].permissions \in Permissions \cup {NotSaved}
      /\ seen[w].step \in {"save", "set"} => seen[w].permissions \in Permissions
  BY DEF TInv, GroupTypes, SeenTypes
<1> DEFINE Goes(step, permissions) ==
             seen' = [seen EXCEPT ![w] = [step |-> step, permissions |-> permissions]]
           Stops == seen' = [seen EXCEPT ![w] = Unseen]
<1>5. \A answer, wait : Respond(w, answer, wait) => Stops
  BY DEF Respond
<1>6. \A step, permissions : Advance(w, step, permissions) => Goes(step, permissions)
  BY DEF Advance
<1>7. Fails(w) => Stops
  BY <1>5 DEF Fails
<1>a. ASSUME NEW x, seen' = [seen EXCEPT ![w] = x],
             x.step \in {"save", "set"} => x.permissions \in Permissions
      PROVE  SeenTypes'
  <2>1. seen \in [Workers -> [step : Steps, permissions : Permissions \cup {NotSaved}]] /\ SeenTypes
    BY DEF TInv, GroupTypes
  <2> QED BY <1>a, <2>1 DEF SeenTypes
<1>8. CASE ReadState(w)
  <2>1. UNCHANGED <<original, perms>>
    BY <1>8 DEF ReadState
  <2>2. \/ Stops
        \/ Goes("fetch", original[r])
        \/ Goes("set", original[r]) /\ original[r] # NotSaved
    BY <1>2, <1>5, <1>6, <1>8 DEF ReadState
  <2>3. PICK p \in Permissions \cup {NotSaved} : p = original[r]
    BY <1>4
  <2>4. NotSaved \notin Permissions
    BY DEF Permissions, NotSaved
  <2>5. Stops \/ Goes("fetch", p) \/ (Goes("set", p) /\ p \in Permissions)
    BY <2>2, <2>3, <2>4
  <2>6. GroupTypes'
    <3>1. \E x \in [step : Steps, permissions : Permissions \cup {NotSaved}] :
            seen' = [seen EXCEPT ![w] = x]
      BY <2>5 DEF Steps, Unseen
    <3> QED BY <1>1, <2>1, <3>1 DEF TInv, GroupTypes
  <2>7. SeenTypes'
    <3>1. CASE Stops
      <4>1. Unseen.step = "none"
        BY DEF Unseen
      <4> QED BY <3>1, <4>1, <1>a
    <3>2. CASE Goes("fetch", p)
      <4> DEFINE x == [step |-> "fetch", permissions |-> p]
      <4>1. x.step = "fetch"
        OBVIOUS
      <4> HIDE DEF x
      <4>2. seen' = [seen EXCEPT ![w] = x]
        BY <3>2 DEF x
      <4> QED BY <4>1, <4>2, <1>a
    <3>3. CASE Goes("set", p) /\ p \in Permissions
      <4> DEFINE x == [step |-> "set", permissions |-> p]
      <4>1. x.permissions \in Permissions
        BY <3>3
      <4> HIDE DEF x
      <4>2. seen' = [seen EXCEPT ![w] = x]
        BY <3>3 DEF x
      <4> QED BY <4>1, <4>2, <1>a
    <3> QED BY <2>5, <3>1, <3>2, <3>3
  <2> QED BY <1>1, <1>3, <2>6, <2>7 DEF TInv
<1>9. CASE GetChat(w)
  <2>1. UNCHANGED <<original, perms>>
    BY <1>9 DEF GetChat
  <2>2. Stops \/ Goes("save", perms)
    BY <1>6, <1>7, <1>9 DEF GetChat
  <2>3. GroupTypes'
    BY <1>1, <1>4, <2>1, <2>2 DEF TInv, GroupTypes, Steps, Unseen
  <2>4. SeenTypes'
    BY <1>4, <2>2 DEF TInv, GroupTypes, SeenTypes, Unseen
  <2> QED BY <1>1, <1>3, <2>3, <2>4 DEF TInv
<1>10. CASE SaveSnapshot(w)
  <2> DEFINE p == IF original[r] = NotSaved THEN seen[w].permissions ELSE original[r]
  <2>1. UNCHANGED perms /\ original' = [original EXCEPT ![r] = p]
    BY <1>2, <1>10 DEF SaveSnapshot
  <2>2. p \in Permissions
    BY <1>4, <1>10 DEF SaveSnapshot, AtStep
  <2> HIDE DEF p
  <2>3. original'[r] = p
    BY <2>1 DEF TInv, GroupTypes
  <2>4. Stops \/ Goes("set", p)
    BY <1>2, <1>5, <1>6, <1>10, <2>3 DEF SaveSnapshot
  <2>5. GroupTypes'
    BY <1>1, <2>1, <2>2, <2>4 DEF TInv, GroupTypes, Steps, Unseen
  <2>6. SeenTypes'
    BY <2>2, <2>4 DEF TInv, GroupTypes, SeenTypes, Unseen
  <2> QED BY <1>1, <1>3, <2>5, <2>6 DEF TInv
<1>11. CASE SetPermissions(w)
  <2>1. UNCHANGED original /\ Stops
    BY <1>5, <1>7, <1>11 DEF SetPermissions
  <2>2. perms' \in {perms, "muted", seen[w].permissions}
    BY <1>11 DEF SetPermissions
  <2>3. seen[w].permissions \in Permissions
    BY <1>4, <1>11 DEF SetPermissions, AtStep
  <2>4. GroupTypes'
    BY <1>1, <1>4, <2>1, <2>2, <2>3 DEF TInv, GroupTypes, Steps, Unseen, Permissions
  <2>5. SeenTypes'
    BY <2>1 DEF TInv, GroupTypes, SeenTypes, Unseen
  <2> QED BY <1>1, <1>3, <2>4, <2>5 DEF TInv
<1> QED BY <1>8, <1>9, <1>10, <1>11 DEF Calls

LEMMA RecordTypes == ASSUME TInv, OInv', NEW w \in Workers, RecordGroup(w) PROVE TInv'
<1>1. UNCHANGED gvars /\ worker[w].phase = "answered"
  BY RecordEffect DEF TInv
<1>2. PICK state \in {"SENT", "FAILED", "PENDING", "UNKNOWN"}, due \in Nat, note \in BOOLEAN :
        Release(w, With(Held(w), state, due, note))
  BY RecordEffect DEF TInv
<1> DEFINE r == With(Held(w), state, due, note)
<1>3. Held(w) \in Row /\ state \in States
  BY <1>1, HeldFacts DEF TInv, States
<1>4. r \in Row /\ r.kind = Held(w).kind
  BY <1>3, WithType
<1> HIDE DEF r
<1>5. SameKinds
  BY <1>1, <1>2, <1>4, ReleaseKinds DEF TInv, r
<1> QED BY <1>1, <1>5, QuietTypes DEF gvars, TInv

(* A round's next task is one more row. *)
LEMMA QueueTypes ==
  ASSUME TInv, OInv', NEW r \in Rounds, NEW kind \in GroupKinds, QueueTask(r, kind),
         kind = "mute" => task[r].mute = 0 /\ roundState' = [roundState EXCEPT ![r] = "CLOSED"],
         kind = "restore" => roundState' = [roundState EXCEPT ![r] = "ended"],
         task[r].restore = 0, UNCHANGED <<original, perms, seen, crossed>>
  PROVE  TInv'
<1> DEFINE n == Len(outbox) + 1
           t == NewRow(Group, kind, NoCard, bot)
<1>1. outbox' = Append(outbox, t) /\ task' = [task EXCEPT ![r][kind] = n]
  BY DEF QueueTask
<1>2. t \in Row
  <2>1. bot \in Bots \cup {NoBot} /\ Group \in Chats /\ kind \in MessageKinds \cup GroupKinds
    BY OutboxAssumption DEF TInv, OInv, TypeOK
  <2> QED BY <2>1, NewRowType
<1>3. outbox \in Seq(Row)
  BY DEF TInv, OInv, TypeOK
<1> HIDE DEF t
<1>4. /\ DOMAIN outbox' = 1..n /\ Len(outbox') = n /\ n \in Nat /\ n > 0
      /\ DOMAIN outbox = 1..Len(outbox) /\ Len(outbox) \in Nat
      /\ \A j \in DOMAIN outbox : outbox'[j] = outbox[j]
  BY <1>1, <1>2, <1>3, RowsAppend
<1>5. 0..Len(outbox) \subseteq 0..Len(outbox') /\ n \in 0..Len(outbox')
  BY <1>4
<1>6. \A j \in DOMAIN outbox' : j = n \/ j \in DOMAIN outbox
  BY <1>4
<1>7. \A j \in DOMAIN outbox : j # 0
  BY <1>4
<1> HIDE DEF n
<1>8. /\ \A q \in Rounds \ {r} : task'[q] = task[q] /\ roundState'[q] = roundState[q]
      /\ kind = "mute" => task'[r].mute = n /\ task'[r].restore = 0 /\ roundState'[r] = "CLOSED"
      /\ kind = "restore" => task'[r].restore = n /\ task'[r].mute = task[r].mute
                             /\ roundState'[r] = "ended"
      /\ kind \in {"mute", "restore"}
  BY <1>1 DEF TInv, GroupTypes, GroupKinds
<1>9. GroupTypes'
  BY <1>1, <1>4 DEF TInv, GroupTypes, GroupKinds
<1>10. ASSUME NEW q \in Rounds
       PROVE  /\ task'[q].mute \in 0..Len(outbox') /\ task'[q].restore \in 0..Len(outbox')
              /\ roundState'[q] = "open" => task'[q].mute = 0
              /\ roundState'[q] # "ended" => task'[q].restore = 0
  <2>1. /\ task[q].mute \in 0..Len(outbox') /\ task[q].restore \in 0..Len(outbox')
        /\ 0 \in 0..Len(outbox')
    BY <1>4, <1>5 DEF TInv, TaskRows
  <2> QED BY <2>1, <1>5, <1>8 DEF TInv, TaskRows
<1>11. ASSUME NEW i \in DOMAIN outbox', IsGroup(i)'
       PROVE  \E q \in Rounds : i \in {task'[q].mute, task'[q].restore}
  <2>1. CASE i = n
    BY <2>1, <1>8
  <2>2. CASE i \in DOMAIN outbox
    <3>1. IsGroup(i)
      BY <2>2, <1>4, <1>11 DEF IsGroup
    <3>2. PICK q \in Rounds : i \in {task[q].mute, task[q].restore}
      BY <2>2, <3>1 DEF TInv, TaskRows
    <3>3. i \in {task'[q].mute, task'[q].restore}
      BY <3>2, <2>2, <1>7, <1>8
    <3> QED BY <3>3
  <2> QED BY <2>1, <2>2, <1>6, <1>11
<1>12. TaskRows'
  BY <1>10, <1>11 DEF TaskRows
<1>13. SeenTypes'
  BY DEF TInv, SeenTypes
<1> QED BY <1>9, <1>12, <1>13 DEF TInv

LEMMA TurnTypes ==
  ASSUME TInv, OInv', NEW r \in Rounds, NEW to \in {"CLOSED", "ended"},
         roundState[r] # "ended", roundState' = [roundState EXCEPT ![r] = to],
         to = "ended" \/ roundState[r] = "open",
         UNCHANGED <<outbox, task, original, perms, seen, crossed>>
  PROVE  TInv'
<1>1. GroupTypes'
  BY DEF TInv, GroupTypes
<1>2. TaskRows'
  BY DEF TInv, GroupTypes, TaskRows, IsGroup
<1>3. SeenTypes'
  BY DEF TInv, SeenTypes
<1> QED BY <1>1, <1>2, <1>3 DEF TInv

LEMMA RoundTypes ==
  ASSUME TInv, OInv', NEW r \in Rounds, (\E mute \in BOOLEAN : CloseRound(r, mute)) \/ EndRound(r)
  PROVE  TInv'
<1>1. task[r].restore = 0 /\ UNCHANGED <<original, perms, seen, crossed>>
      /\ (roundState[r] = "open" => task[r].mute = 0)
  BY DEF CloseRound, EndRound, TInv, TaskRows
<1>2. CASE roundState[r] = "open" /\ roundState' = [roundState EXCEPT ![r] = "CLOSED"]
  BY <1>1, <1>2, QueueTypes, TurnTypes DEF CloseRound, EndRound, GroupKinds
<1>3. CASE roundState[r] = "CLOSED" /\ roundState' = [roundState EXCEPT ![r] = "ended"]
  BY <1>1, <1>3, QueueTypes, TurnTypes DEF CloseRound, EndRound, GroupKinds
<1> QED BY <1>2, <1>3 DEF CloseRound, EndRound

LEMMA GroupNextTInv == ASSUME TInv, [GroupNext]_allVars PROVE TInv'
<1>1. OInv'
  BY GroupNextOInv DEF TInv
<1>2. ASSUME SameKinds, UNCHANGED roundVars, crossed' \in BOOLEAN PROVE TInv'
  BY <1>1, <1>2, QuietTypes DEF roundVars
<1>3. ASSUME SameKinds, UNCHANGED gvars PROVE TInv'
  BY <1>2, <1>3 DEF gvars, roundVars, TInv
<1>4. ASSUME NEW w \in Workers, GroupClaim(w) PROVE TInv'
  <2>1. SameKinds
    BY <1>4, ClaimKinds DEF GroupClaim, TInv
  <2>2. UNCHANGED roundVars /\ crossed' \in BOOLEAN
    BY <1>4 DEF GroupClaim, roundVars, TInv, Overtakes
  <2> QED BY <1>2, <2>1, <2>2
<1>5. ASSUME NEW w \in Workers, Send(w), UNCHANGED gvars PROVE TInv'
  BY <1>3, <1>5, SendKinds DEF TInv
<1>6. ASSUME NEW w \in Workers, GroupWork(w) PROVE TInv'
  BY <1>1, <1>4, <1>5, <1>6, CallTypes, RecordTypes DEF GroupWork, Calls
<1>7. CASE UNCHANGED allVars
  <2>1. SameKinds /\ UNCHANGED gvars
    BY <1>7 DEF allVars, vars, SameKinds
  <2> QED BY <1>3, <2>1
<1>8. ASSUME NEW chat \in Chats, NEW kind \in Kinds, NEW card \in Cards \cup {NoCard},
             Enqueue(chat, kind, card), UNCHANGED gvars
      PROVE  TInv'
  BY <1>3, <1>8, EnqueueKinds DEF TInv
<1>9. CASE /\ UNCHANGED gvars
           /\ \/ Disconnect \/ Tick \/ \E b \in Bots : BindBot(b)
              \/ \E w \in Workers : LocalFailure(w)
  BY <1>3, <1>9, ProcessKinds DEF TInv
<1>10. ASSUME NEW i \in DOMAIN outbox, \/ (Retry(i) \/ Skip(i)) /\ UNCHANGED gvars
                                       \/ GroupAck(i)
       PROVE  TInv'
  <2>1. SameKinds
    BY <1>10, DecideKinds DEF GroupAck, TInv
  <2>2. CASE UNCHANGED gvars
    BY <1>3, <2>1, <2>2
  <2>3. CASE GroupAck(i)
    <3>1. UNCHANGED <<roundState, original, task, seen, crossed>> /\ (perms' = perms \/ perms' = "own")
      BY <2>3 DEF GroupAck
    <3> QED BY <1>1, <2>1, <3>1, QuietTypes DEF TInv
  <2> QED BY <1>10, <2>2, <2>3
<1>11. ASSUME NEW b \in Bots, Restart(b), seen' = [w \in Workers |-> Unseen],
              UNCHANGED <<roundState, original, task, perms, crossed>>
       PROVE  TInv'
  <2>1. SameKinds
    BY <1>11, ProcessKinds DEF TInv
  <2> QED BY <1>1, <1>11, <2>1, QuietTypes DEF TInv
<1>12. ASSUME NEW r \in Rounds, (\E mute \in BOOLEAN : CloseRound(r, mute)) \/ EndRound(r)
       PROVE  TInv'
  BY <1>1, <1>12, RoundTypes
<1> QED BY <1>6, <1>7, <1>8, <1>9, <1>10, <1>11, <1>12 DEF GroupNext

LEMMA InitTInv == GroupInit => TInv /\ Uncrossed
<1> SUFFICES ASSUME GroupInit PROVE TInv /\ Uncrossed
  OBVIOUS
<1>1. GInv /\ crossed = FALSE
  BY InitGInv DEF GroupInit
<1>2. TaskRows
  <2>1. Len(outbox) \in Nat
    BY <1>1, RowsAreRows DEF GInv, OInv
  <2>2. ASSUME NEW r \in Rounds PROVE task[r].mute = 0 /\ task[r].restore = 0
    BY <2>2 DEF GroupInit
  <2> QED BY <1>1, <2>1, <2>2 DEF TaskRows, GInv, TasksOK
<1>3. SeenTypes
  BY DEF GroupInit, SeenTypes, Unseen
<1> QED BY <1>1, <1>2, <1>3 DEF TInv, GInv, Uncrossed

LEMMA SnapshotsFollow == TInv /\ Uncrossed => NeverSnapshotsMuted
<1> SUFFICES ASSUME TInv, Uncrossed PROVE NeverSnapshotsMuted
  OBVIOUS
<1>1. ASSUME NEW r \in Rounds
      PROVE  task[r] \in [mute : 0..Len(outbox), restore : 0..Len(outbox)]
  <2>1. task[r] \in [mute : Nat, restore : Nat]
    BY DEF TInv, GroupTypes
  <2>2. task[r].mute \in 0..Len(outbox) /\ task[r].restore \in 0..Len(outbox)
    BY DEF TInv, TaskRows
  <2> QED BY <2>1, <2>2
<1>2. task \in [Rounds -> [mute : 0..Len(outbox), restore : 0..Len(outbox)]]
  BY <1>1 DEF TInv, GroupTypes
<1>3. GroupTypeOK
  BY <1>2 DEF TInv, GroupTypes, GroupTypeOK, OInv
<1>4. ~crossed => \A r \in Rounds : original[r] # "muted"
  BY DEF Uncrossed, GInv, RoundsOK, NotSaved
<1> QED BY <1>3, <1>4 DEF NeverSnapshotsMuted

LEMMA RestoredFollows == Uncrossed => RestoredStays
<1> SUFFICES ASSUME GInv, NEW r \in Rounds, Sent(task[r].restore),
                    r = MaxRounds \/ roundState[r + 1] = "open", perms = "muted"
             PROVE  FALSE
  BY DEF Uncrossed, RestoredStays, GInv, GroupTypes, Permissions
<1>1. PICK s \in Rounds : original[s] # NotSaved /\ ~Sent(task[s].restore) /\ task[s].mute # 0
  BY DEF GInv, PermsOK, RoundsOK
<1>2. r \in Nat /\ s \in Nat /\ s # r /\ MaxRounds \in Nat /\ r <= MaxRounds /\ s <= MaxRounds
  BY <1>1, TaskFacts, GroupAssumption DEF Rounds
<1>3. roundState[s] # "open"
  BY <1>1 DEF GInv, RoundsOK
<1>4. CASE r < s
  <2>1. r + 1 \in Rounds /\ (r + 1 = s \/ r + 1 \in 1..(s - 1))
    BY <1>2, <1>4 DEF Rounds
  <2>2. roundState[r + 1] # "open"
    BY <1>3, <2>1 DEF GInv, RoundsOK
  <2> QED BY <1>2, <1>4, <2>2
<1>5. CASE s < r
  <2>1. task[r].restore # 0 /\ outbox[task[r].restore].state = "SENT"
    BY DEF Sent
  <2>2. task[r].mute # 0 /\ roundState[r] = "ended"
    BY <2>1 DEF GInv, RoundsOK
  <2>3. s \in 1..(r - 1)
    BY <1>2, <1>5 DEF Rounds
  <2>4. task[s].restore # 0
    BY <1>1, <2>2, <2>3 DEF GInv, RoundsOK
  <2>5. task[s].restore < task[r].mute /\ task[r].mute < task[r].restore
    BY <2>1, <2>2, <2>3 DEF GInv, TasksOK
  <2>6. task[s].restore < task[r].restore
    BY <2>5, TaskFacts
  <2>7. outbox[task[s].restore].state = "SENT"
    BY <2>1, <2>4, <2>6, TaskFacts DEF GInv, Turns
  <2> QED BY <1>1, <2>4, <2>7 DEF Sent
<1> QED BY <1>2, <1>4, <1>5

(* Whatever fails, crashes or is tried again and whichever bots are in use, *)
(* what is saved with a round is never the permissions of a group that is   *)
(* muted (group_permissions.go:57), unless a task has overtaken a task of   *)
(* another bot, which active_outbox does not show it (outbox.go:241).       *)
THEOREM SnapshotsAreTrue == GroupSpec => []NeverSnapshotsMuted
<1>1. ASSUME TInv, Uncrossed, [GroupNext]_allVars PROVE (TInv /\ Uncrossed)'
  BY <1>1, GroupNextTInv, GroupNextUncrossed DEF TInv
<1> QED BY <1>1, InitTInv, SnapshotsFollow, PTL DEF GroupSpec

(* And once a round's restore is through, nothing mutes the group before   *)
(* the next round closes: the mutes of earlier rounds are over by then.    *)
THEOREM RestoresStay == GroupSpec => []RestoredStays
<1>1. ASSUME TInv, Uncrossed, [GroupNext]_allVars PROVE (TInv /\ Uncrossed)'
  BY <1>1, GroupNextTInv, GroupNextUncrossed DEF TInv
<1> QED BY <1>1, InitTInv, RestoredFollows, PTL DEF GroupSpec
=============================================================================
