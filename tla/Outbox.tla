------------------------------- MODULE Outbox -------------------------------
(***************************************************************************)
(* The outbox and the workers that empty it: internal/app/outbox.go and    *)
(* delivery.go, the start-up repair of schema.go, BindBot of bot_switch.go,*)
(* and the sending side of internal/telegram (client.go, delivery.go,      *)
(* scheduler.go).  Four workers claim rows in transactions of their own,   *)
(* call Telegram outside any transaction and record the answer in another  *)
(* transaction; the process may die between any two of these steps.        *)
(*                                                                         *)
(* Group permission rows (mute, restore) share the table and the claim     *)
(* query; what a worker does with them is in module GroupPermissions.      *)
(*                                                                         *)
(* Times are what is left of them: Tick takes a second off every one.      *)
(***************************************************************************)
EXTENDS Integers, Sequences, FiniteSets, FiniteSetsExt

CONSTANTS
  Bots,          \* identities a token may belong to (getMe)
  FirstBot,      \* the bot configured when the behaviour starts
  NoBot,         \* meta.bot_id or outbox_bots.bot_id not set
  Chats,
  Group,         \* the configured group: round cards are posted there
  Workers,
  Kinds,         \* kinds of message the program produces
  Cards,         \* editable cards, one for each round
  NoCard,        \* a row that is not about a card
  OldRows,       \* rows an older version left: [chat, kind, card]
  Waits,         \* retry_after of a 429, in seconds
  Cooldown,      \* seconds a chat rests after a message
  GiveUpAfter,   \* attempts of a permission change (5)
  MaxRows,       \* bound of the model: rows produced, fallbacks aside
  MaxRetries,    \* bound of the model: operator retries of a row
  MaxFaults,     \* bound of the model: failures of the network or the disk
  MaxRestarts    \* bound of the model: restarts of the process or of Run

GroupKinds   == {"mute", "restore"}
PhotoKinds   == {"album", "photo", "captioned"}
MessageKinds == {"text"} \cup PhotoKinds

States == {"PENDING", "INFLIGHT", "SENT", "FAILED", "UNKNOWN"}

MaxWait == Max(Waits \cup {0}) + 1

ASSUME OutboxAssumption ==
  /\ FirstBot \in Bots /\ NoBot \notin Bots /\ Group \in Chats /\ NoCard \notin Cards
  /\ Kinds \subseteq MessageKinds \cup GroupKinds
  /\ Waits \subseteq Nat /\ IsFiniteSet(Waits) /\ Cooldown \in Nat
  /\ GiveUpAfter \in Nat \ {0} /\ MaxFaults \in Nat /\ MaxRestarts \in Nat

(* A row about a card is a text for the group (outbox.go:139). *)
ASSUME OldRowsAssumption ==
  /\ OldRows \in Seq([chat : Chats, kind : MessageKinds \cup GroupKinds,
                      card : Cards \cup {NoCard}])
  /\ \A n \in DOMAIN OldRows :
       OldRows[n].card # NoCard => OldRows[n].kind = "text" /\ OldRows[n].chat = Group

VARIABLES
  outbox,      \* the rows of the table, by id
  bot,         \* meta.bot_id: the bot the tables are bound to
  sessions,    \* bots that have a row in bot_sessions
  cards,       \* cards: the round cards bot has posted and can edit
  botCards,    \* bot_cards: the same, set aside for the other bots
  pause,       \* meta.telegram_send_not_before
  botPause,    \* bot_sessions.pause_until
  configured,  \* memory: whose token the process runs with
  bound,       \* memory: BindBot has succeeded, the workers run
  ended,       \* memory: Run met an error that is not tried again
  memPause,    \* memory: sendScheduler.paused
  worker,      \* memory: what each worker holds
  owed,        \* history: what is left of the longest wait a bot was told
  lost,        \* history: the same, of waits that died with the process
  unsaved,     \* history: this Run was told a wait and could not save it
  ahead,       \* history: workers that no wait could stop any more
  faults, restarts   \* bounds of the model

tables  == <<bot, sessions, cards, botCards, pause, botPause>>
process == <<configured, bound, ended, restarts>>
waits   == <<owed, lost, unsaved, ahead>>

vars == <<outbox, tables, process, memPause, worker, waits, faults>>

Phases  == {"idle", "claimed", "paced", "ready", "answered"}
Answers == {"none", "ok", "noId", "same", "lost", "refused", "limited", "unsent", "local"}

Idle == [phase |-> "idle", row |-> 0, edit |-> FALSE, answer |-> "none", wait |-> 0]

(* delivered, fresh and retries are history: how often the row was         *)
(* transmitted, whether as a new message, and how often an operator        *)
(* retried it.  noted is last_error, of rows that are SENT.                *)
Row == [chat : Chats, kind : MessageKinds \cup GroupKinds, card : Cards \cup {NoCard},
        state : States, due : Nat, attempts : 0..GiveUpAfter, noted : BOOLEAN,
        owner : Bots \cup {NoBot}, delivered : Nat, fresh : BOOLEAN, retries : Nat]

TypeOK ==
  /\ outbox \in Seq(Row)
  /\ bot \in Bots \cup {NoBot} /\ sessions \subseteq Bots
  /\ cards \subseteq Cards /\ botCards \in [Bots -> SUBSET Cards]
  /\ pause \in 0..MaxWait
  /\ botPause \in [Bots -> 0..MaxWait]
  /\ configured \in Bots /\ bound \in BOOLEAN /\ ended \in BOOLEAN
  /\ memPause \in 0..MaxWait
  /\ worker \in [Workers -> [phase : Phases, row : 0..Len(outbox), edit : BOOLEAN,
                             answer : Answers, wait : 0..MaxWait]]
  /\ owed \in [Bots -> 0..MaxWait] /\ lost \in [Bots -> 0..MaxWait]
  /\ unsaved \in BOOLEAN /\ ahead \subseteq Workers
  /\ faults \in 0..MaxFaults /\ restarts \in 0..MaxRestarts

NewRow(chat, kind, card, owner) ==
  [chat |-> chat, kind |-> kind, card |-> card, state |-> "PENDING", due |-> 0,
   attempts |-> 0, noted |-> FALSE, owner |-> owner, delivered |-> 0, fresh |-> FALSE, retries |-> 0]

Init ==
  /\ configured = FirstBot /\ bound = FALSE /\ ended = FALSE
  /\ bot \in IF OldRows = << >> THEN {NoBot} ELSE {FirstBot}
  /\ outbox = [n \in DOMAIN OldRows |->
                 NewRow(OldRows[n].chat, OldRows[n].kind, OldRows[n].card, NoBot)]
  /\ sessions = {} /\ cards = {} /\ botCards = [b \in Bots |-> {}]
  /\ pause = 0 /\ botPause = [b \in Bots |-> 0]
  /\ memPause = 0 /\ worker = [w \in Workers |-> Idle]
  /\ owed = [b \in Bots |-> 0] /\ lost = [b \in Bots |-> 0]
  /\ unsaved = FALSE /\ ahead = {}
  /\ faults = 0 /\ restarts = 0
-----------------------------------------------------------------------------
(* Rows.                                                                   *)

IsGroup(i)     == outbox[i].kind \in GroupKinds

(* A plausible slip: permission changes queue up behind messages. *)
SameChat(i, j) == outbox[i].chat = outbox[j].chat

SameLane(i, j) == outbox[i].chat = outbox[j].chat /\ (IsGroup(i) <=> IsGroup(j))
SameOwner(i, j) == outbox[i].owner = outbox[j].owner

(* The view active_outbox: the rows of the bot the tables are bound to.    *)
Active(i) == outbox[i].owner = bot

(* A plausible slip: no failed permission change holds up another. *)
PassableGroup(j) == /\ outbox[j].kind \in GroupKinds
                    /\ outbox[j].state \in {"FAILED", "UNKNOWN"}

(* A mute that failed does not hold up the restore behind it. *)
Passable(j) == /\ outbox[j].kind = "mute"
               /\ outbox[j].state \in {"FAILED", "UNKNOWN"}

(* A plausible slip: a message that fails holds up every chat. *)
BlockedByAnyChat(i) ==
  \E j \in 1..(i - 1) : /\ SameOwner(i, j)
                        /\ outbox[j].state # "SENT" /\ ~Passable(j)

Blocked(i) ==
  \E j \in 1..(i - 1) : /\ SameLane(i, j) /\ SameOwner(i, j)
                        /\ outbox[j].state # "SENT" /\ ~Passable(j)

Resting(chat) ==
  \E j \in DOMAIN outbox : /\ outbox[j].chat = chat /\ Active(j)
                           /\ outbox[j].state = "SENT" /\ outbox[j].due > 0

Claimable == { i \in DOMAIN outbox : /\ outbox[i].state = "PENDING" /\ outbox[i].due = 0
                                     /\ Active(i) /\ ~Blocked(i) /\ ~Resting(outbox[i].chat) }

(* Permission changes first, then the oldest. *)
NextRow == LET first == { i \in Claimable : IsGroup(i) }
           IN Min(IF first # {} THEN first ELSE Claimable)

(* What the worker that holds row i writes: r is the row it leaves behind. *)
Release(w, r) == /\ outbox' = [outbox EXCEPT ![worker[w].row] = r]
                 /\ worker' = [worker EXCEPT ![w] = Idle]

With(r, state, due, noted) ==
  [r EXCEPT !.state = state, !.due = due, !.noted = (state = "SENT" /\ noted)]

Held(w) == outbox[worker[w].row]
-----------------------------------------------------------------------------
(* A command queues a message in its own transaction.  The trigger         *)
(* outbox_capture_bot gives it to the bot the tables are bound to.         *)
Enqueue(chat, kind, card) ==
  /\ Len(outbox) < MaxRows
  /\ card # NoCard => kind = "text" /\ chat = Group
  /\ outbox' = Append(outbox, NewRow(chat, kind, card, bot))
  /\ UNCHANGED <<tables, process, memPause, worker, waits, faults>>

(* SendOne: claim the next row.  A pause stops every claim. *)
Claim(w) ==
  /\ bound /\ worker[w] = Idle /\ pause = 0 /\ Claimable # {}
  /\ LET i == NextRow
         r == outbox[i]
     IN /\ outbox' = [outbox EXCEPT ![i].state = "INFLIGHT",
                        ![i].attempts = IF IsGroup(i) THEN Min({@ + 1, GiveUpAfter}) ELSE @]
        /\ worker' = [worker EXCEPT ![w] = [Idle EXCEPT !.phase = "claimed", !.row = i,
                                              !.edit = r.card \in cards]]
  /\ UNCHANGED <<tables, process, memPause, waits, faults>>

(* waitToSend gives up after fifteen seconds behind the scheduler's pause. *)
GiveUp(w) ==
  /\ worker[w].phase = "claimed" /\ memPause > 0
  /\ Release(w, With(Held(w), "PENDING", 1, TRUE))
  /\ UNCHANGED <<tables, process, memPause, waits, faults>>

(* sendScheduler.wait lets the worker through. *)
Pace(w) ==
  /\ worker[w].phase = "claimed" /\ memPause = 0
  /\ worker' = [worker EXCEPT ![w].phase = "paced"]
  /\ UNCHANGED <<outbox, tables, process, memPause, waits, faults>>

(* DeferLimitedOutbox: another worker may have met a limit meanwhile. *)
Defer(w) ==
  /\ worker[w].phase = "paced" /\ pause > 0
  /\ LET r == Held(w)
     IN Release(w, [With(r, "PENDING", Max({r.due, pause}), FALSE) EXCEPT
                      !.attempts = IF @ = 0 THEN 0 ELSE @ - 1])
  /\ UNCHANGED <<tables, process, memPause, waits, faults>>

(* A plausible slip: no second look at the pause before sending. *)
RecheckNothing(w) ==
  /\ worker[w].phase = "paced"
  /\ worker' = [worker EXCEPT ![w].phase = "ready"]
  /\ UNCHANGED <<outbox, tables, process, memPause, waits, faults>>

Recheck(w) ==
  /\ worker[w].phase = "paced" /\ pause = 0
  /\ worker' = [worker EXCEPT ![w].phase = "ready"]
  /\ UNCHANGED <<outbox, tables, process, memPause, waits, faults>>

(* The call.  "lost" is every answer that does not tell whether the message *)
(* went out: no answer, one that cannot be read, a 5xx.  "same" is 400,     *)
(* message is not modified; "local" a photo that cannot be read or composed.*)
CanAnswer(r, edit, answer) ==
  CASE answer = "same"  -> edit /\ r.kind = "text"
    [] answer = "local" -> r.kind \in PhotoKinds
    [] OTHER            -> answer # "none"

Arrives(answer) == CASE answer \in {"ok", "noId"} -> {TRUE}
                     [] answer = "lost"           -> BOOLEAN
                     [] OTHER                     -> {FALSE}

(* A network that works answers "ok" (or "same" to an edit already made);  *)
(* every other answer is a fault.                                          *)
Charge(answer) ==
  /\ faults' = IF answer \in {"ok", "same"} THEN faults ELSE faults + 1
  /\ faults' <= MaxFaults

(* A limit gates the other workers from here on, in memory.  History: the  *)
(* bot is told to wait, and workers past the scheduler are ahead of that.  *)
Gate(w, wait) ==
  /\ memPause' = Max({memPause, wait})
  /\ owed' = [owed EXCEPT ![bot] = Max({@, wait})]
  /\ ahead' = IF wait = 0 THEN ahead \ {w}
              ELSE { v \in Workers \ {w} : worker[v].phase \in {"paced", "ready"} }
  /\ UNCHANGED <<lost, unsaved>>

Transmit(w) ==
  /\ worker[w].phase = "ready" /\ ~IsGroup(worker[w].row)
  /\ \E answer \in Answers, wait \in Waits \cup {0} :
       /\ CanAnswer(Held(w), worker[w].edit, answer)
       /\ answer = "limited" <=> wait # 0
       /\ Charge(answer)
       /\ \E arrived \in Arrives(answer) :
            outbox' = [outbox EXCEPT
                         ![worker[w].row].delivered = IF arrived THEN @ + 1 ELSE @,
                         ![worker[w].row].fresh = @ \/ (arrived /\ ~worker[w].edit)]
       /\ worker' = [worker EXCEPT ![w].phase = "answered", ![w].answer = answer,
                                   ![w].wait = wait]
       /\ Gate(w, wait)
  /\ UNCHANGED <<tables, process>>
-----------------------------------------------------------------------------
(* Recording the answer.                                                   *)

Answered(w, kinds, answers) ==
  /\ worker[w].phase = "answered"
  /\ Held(w).kind \in kinds /\ worker[w].answer \in answers

(* History: a wait that is saved in full stops every worker that has not   *)
(* looked at the pause yet.                                                *)
Saved(until) ==
  /\ ahead' = IF until < owed[bot] THEN ahead
              ELSE { v \in ahead : worker[v].phase = "ready" }
  /\ UNCHANGED <<owed, lost, unsaved>>

(* A plausible slip: the bot's own copy of the pause is forgotten. *)
RateLimitUnshared(w) ==
  /\ Answered(w, MessageKinds \cup GroupKinds, {"limited"})
  /\ LET until == Max({pause, worker[w].wait + 1})
     IN /\ pause' = until
        /\ Release(w, With(Held(w), "PENDING", until, TRUE))
        /\ Saved(until)
  /\ UNCHANGED <<bot, sessions, cards, botCards, botPause, process, memPause, faults>>

(* 429: the pause, the bot's own copy of it and the row's retry, together. *)
RateLimit(w) ==
  /\ Answered(w, MessageKinds \cup GroupKinds, {"limited"})
  /\ LET until == Max({pause, worker[w].wait + 1})
     IN /\ pause' = until
        /\ botPause' = IF bot \in sessions THEN [botPause EXCEPT ![bot] = until] ELSE botPause
        /\ Release(w, With(Held(w), "PENDING", until, TRUE))
        /\ Saved(until)
  /\ UNCHANGED <<bot, sessions, cards, botCards, process, memPause, faults>>

(* CompleteOutbox, CompleteMedia: sent, with the card it can be edited by. *)
CompleteSent(w) ==
  /\ Answered(w, MessageKinds, {"ok", "same"})
  /\ Release(w, With(Held(w), "SENT", Cooldown, worker[w].answer = "same"))
  /\ cards' = cards \cup ({Held(w).card} \ {NoCard})
  /\ UNCHANGED <<bot, sessions, botCards, pause, botPause, process, memPause, waits, faults>>

(* The request never left: it may be repeated safely. *)
CompleteUnsent(w) ==
  /\ Answered(w, MessageKinds, {"unsent"})
  /\ Release(w, With(Held(w), "PENDING", 1, TRUE))
  /\ UNCHANGED <<tables, process, memPause, waits, faults>>

(* A text or a picture with its text waits for the operator. *)
CompleteFailed(w) ==
  /\ Answered(w, {"text", "captioned"}, {"refused", "local", "lost", "noId"})
  /\ Release(w, With(Held(w), IF worker[w].answer \in {"refused", "local"}
                              THEN "FAILED" ELSE "UNKNOWN", 0, FALSE))
  /\ UNCHANGED <<tables, process, memPause, waits, faults>>

(* A picture of its own is dropped, visibly, for the text that follows it. *)
CompletePhoto(w) ==
  /\ Answered(w, {"photo"}, {"refused", "local", "lost", "noId"})
  /\ Release(w, With(Held(w), "SENT", 0, TRUE))
  /\ UNCHANGED <<tables, process, memPause, waits, faults>>

(* FallbackMedia: the heroes' picture is replaced by its text. *)
Fallback(w) ==
  /\ Answered(w, {"album"}, {"refused", "local", "lost", "noId"})
  /\ outbox' = Append([outbox EXCEPT ![worker[w].row] = With(@, "SENT", @.due, TRUE)],
                      NewRow(Held(w).chat, "text", NoCard, bot))
  /\ worker' = [worker EXCEPT ![w] = Idle]
  /\ UNCHANGED <<tables, process, memPause, waits, faults>>

Record(w) ==
  \/ RateLimit(w) \/ CompleteSent(w) \/ CompleteUnsent(w)
  \/ CompleteFailed(w) \/ CompletePhoto(w) \/ Fallback(w)

(* persistDelivery: four attempts to save the answer (or that the worker   *)
(* gives up) have failed, or the second look at the pause has; the row     *)
(* stays INFLIGHT until a restart.                                         *)
LocalFailure(w) ==
  /\ worker[w].phase \in {"claimed", "paced", "answered"}
  /\ faults < MaxFaults /\ faults' = faults + 1
  /\ worker' = [worker EXCEPT ![w] = Idle]
  /\ unsaved' = (unsaved \/ worker[w].answer = "limited") /\ ahead' = ahead \ {w}
  /\ UNCHANGED <<outbox, tables, process, memPause, owed, lost>>
-----------------------------------------------------------------------------
(* ResolveOutbox: the operator's decision on a row that failed.            *)

(* A plausible slip: a row that is being sent may be decided on. *)
ResolvableInFlight(i) == Active(i) /\ outbox[i].state \in {"INFLIGHT", "FAILED", "UNKNOWN"}

Resolvable(i) == Active(i) /\ outbox[i].state \in {"FAILED", "UNKNOWN"}

Retry(i) ==
  /\ Resolvable(i) /\ outbox[i].retries < MaxRetries
  /\ outbox' = [outbox EXCEPT ![i] = [With(outbox[i], "PENDING", 0, FALSE) EXCEPT
                                        !.retries = @ + 1]]
  /\ UNCHANGED <<tables, process, memPause, worker, waits, faults>>

(* For a card the operator must give the message that was really posted. *)
Ack(i) ==
  /\ Resolvable(i)
  /\ outbox[i].card # NoCard => outbox[i].delivered > 0
  /\ outbox' = [outbox EXCEPT ![i] = With(@, "SENT", @.due, TRUE)]
  /\ cards' = cards \cup ({outbox[i].card} \ {NoCard})
  /\ UNCHANGED <<bot, sessions, botCards, pause, botPause, process, memPause, worker,
                 waits, faults>>

Skip(i) ==
  /\ Resolvable(i) /\ outbox[i].kind # "restore" /\ outbox[i].card = NoCard
  /\ outbox' = [outbox EXCEPT ![i] = With(@, "SENT", @.due, TRUE)]
  /\ UNCHANGED <<tables, process, memPause, worker, waits, faults>>
-----------------------------------------------------------------------------
(* The process.                                                            *)

(* A plausible slip: an interrupted send is queued again. *)
RequeuedAll(r) ==
  IF r.state # "INFLIGHT" THEN r ELSE With(r, "PENDING", r.due, FALSE)

(* What Service.initialize makes of a row at start. *)
Repaired(r) ==
  IF r.state # "INFLIGHT" THEN r
  ELSE IF r.kind \in GroupKinds THEN With(r, "PENDING", r.due, FALSE)
  ELSE IF r.kind = "photo" THEN With(r, "SENT", r.due, TRUE)
  ELSE With(r, "UNKNOWN", r.due, FALSE)

(* A wait nobody could save is gone with the memory of the process.        *)
Forget ==
  /\ memPause' = 0 /\ unsaved' = FALSE /\ ahead' = {}
  /\ lost' = [b \in Bots |->
                IF /\ b = bot /\ owed[b] > Max({pause, lost[b]})
                   /\ unsaved \/ \E w \in Workers : worker[w].answer = "limited"
                THEN owed[b] ELSE lost[b]]
  /\ UNCHANGED owed

(* The process dies at any step, or is restarted with another token. *)
Restart(b) ==
  /\ restarts < MaxRestarts /\ restarts' = restarts + 1
  /\ configured' = b /\ bound' = FALSE /\ ended' = FALSE
  /\ outbox' = [i \in DOMAIN outbox |-> Repaired(outbox[i])]
  /\ worker' = [w \in Workers |-> Idle] /\ Forget
  /\ UNCHANGED <<tables, faults>>

(* Run returns with an error, once its workers are done.  It is run again, *)
(* unless the error is of a kind that needs attention.                     *)
Disconnect ==
  /\ ~ended /\ restarts < MaxRestarts /\ restarts' = restarts + 1
  /\ \A w \in Workers : worker[w] = Idle
  /\ bound' = FALSE /\ ended' \in BOOLEAN /\ (bound \/ ended') /\ Forget
  /\ UNCHANGED <<outbox, tables, configured, worker, faults>>

(* A plausible slip: the cards of the bot that leaves are not put aside. *)
BindDroppingCards(b) ==
  LET old == IF bot = NoBot THEN b ELSE bot
  IN /\ ~bound /\ ~ended /\ configured = b /\ bound' = TRUE /\ bot' = b
     /\ outbox' = IF old \in sessions THEN outbox
                  ELSE [i \in DOMAIN outbox |->
                          IF outbox[i].owner = NoBot THEN [outbox[i] EXCEPT !.owner = old]
                          ELSE outbox[i]]
     /\ sessions' = sessions \cup {old, b}
     /\ cards' = {}
     /\ pause' = IF old = b THEN pause ELSE botPause[b]
     /\ UNCHANGED <<botCards, botPause, configured, ended, memPause, worker, waits, faults,
                    restarts>>

(* BindBot: Run binds the tables to the bot its token belongs to. *)
BindBot(b) ==
  LET old == IF bot = NoBot THEN b ELSE bot
  IN /\ ~bound /\ ~ended /\ configured = b /\ bound' = TRUE /\ bot' = b
     /\ outbox' = IF old \in sessions THEN outbox
                  ELSE [i \in DOMAIN outbox |->
                          IF outbox[i].owner = NoBot THEN [outbox[i] EXCEPT !.owner = old]
                          ELSE outbox[i]]
     /\ sessions' = sessions \cup {old, b}
     /\ IF old = b THEN UNCHANGED <<cards, botCards, pause>>
        ELSE /\ botCards' = [botCards EXCEPT ![old] = cards]
             /\ cards' = botCards[b]
             /\ pause' = botPause[b]
     /\ UNCHANGED <<botPause, configured, ended, memPause, worker, waits, faults, restarts>>

Less(n) == IF n = 0 THEN 0 ELSE n - 1

(* A second passes. *)
Tick ==
  /\ outbox' = [i \in DOMAIN outbox |-> [outbox[i] EXCEPT !.due = Less(@)]]
  /\ pause' = Less(pause) /\ memPause' = Less(memPause)
  /\ botPause' = [b \in Bots |-> Less(botPause[b])]
  /\ owed' = [b \in Bots |-> Less(owed[b])] /\ lost' = [b \in Bots |-> Less(lost[b])]
  /\ UNCHANGED <<bot, sessions, cards, botCards, process, worker, unsaved, ahead, faults>>
-----------------------------------------------------------------------------
Send(w) ==
  GiveUp(w) \/ Pace(w) \/ Defer(w) \/ Recheck(w) \/ Transmit(w) \/ Record(w)

Work(w) == Claim(w) \/ Send(w)

Operator == \E i \in DOMAIN outbox : Retry(i) \/ Ack(i) \/ Skip(i)

Next ==
  \/ \E chat \in Chats, kind \in Kinds, card \in Cards \cup {NoCard} : Enqueue(chat, kind, card)
  \/ \E w \in Workers : Work(w) \/ LocalFailure(w)
  \/ Operator
  \/ \E b \in Bots : Restart(b) \/ BindBot(b)
  \/ Disconnect \/ Tick

Spec == Init /\ [][Next]_vars

(* The workers are goroutines that loop, Run is run again until it has     *)
(* ended for good (main.go:148), and time passes.  Nobody is obliged to    *)
(* queue, to decide or to restart anything.                                *)
Fairness == /\ \A w \in Workers : WF_vars(Work(w))
            /\ \A b \in Bots : WF_vars(BindBot(b))
            /\ WF_vars(Tick)

FairSpec == Spec /\ Fairness
-----------------------------------------------------------------------------
(* Properties.                                                             *)

(* A row a worker holds is INFLIGHT and no other worker holds it, so that  *)
(* no answer is recorded on a row somebody else has moved on (the updates  *)
(* of outbox.go that end in "WHERE state='INFLIGHT'" change one row).      *)
(* (With the types.)                                                       *)
HeldAlone ==
  /\ TypeOK
  /\ \A w \in Workers : worker[w] # Idle =>
       /\ Held(w).state = "INFLIGHT" /\ Active(worker[w].row)
       /\ \A v \in Workers \ {w} : worker[v].row # worker[w].row

OfOneCard(i, j) ==
  outbox[i].card # NoCard /\ outbox[i].card = outbox[j].card /\ SameOwner(i, j)

(* Of the rows of a round card, each bot posts one; every other version of *)
(* the card edits a message that this bot, and not another one, has posted *)
(* (cards, bot_cards), over switches of bots and an operator's decisions.  *)
(* (A row that may not have arrived can be posted again, if the operator   *)
(* says so: see ImplementsDelivery.)                                       *)
CardPostedOnce ==
  \A i \in DOMAIN outbox :
    /\ outbox[i].fresh =>
         \A j \in DOMAIN outbox \ {i} : OfOneCard(i, j) => ~outbox[j].fresh
    /\ outbox[i].card # NoCard /\ outbox[i].delivered > 0 =>
         \E j \in DOMAIN outbox : OfOneCard(i, j) /\ outbox[j].fresh

(* Whatever bot is in use, the wait Telegram asks of each in a 429 stands  *)
(* from that answer until its end, over lost connections, restarts and     *)
(* switches back and forth (delivery.go:19): it is in the tables, or else  *)
(* the scheduler of this process holds it, with the worker that is to save *)
(* it or has failed to.  The exception is `lost': a process that ends with *)
(* the answer not yet saved takes the wait with it.                        *)
PauseKept ==
  \A b \in Bots :
    \/ owed[b] <= lost[b]
    \/ owed[b] <= IF b = bot THEN pause ELSE botPause[b]
    \/ /\ b = bot /\ owed[b] <= memPause
       /\ unsaved \/ \E w \in Workers : owed[b] <= worker[w].wait

(* While the bot in use is to wait, no message is sent (delivery.go:50),   *)
(* over restarts and switches too, save by workers that the wait finds     *)
(* past the scheduler and, once it is saved, past their second look: each  *)
(* of them sends one, "requests cannot be recalled".                       *)
WaitRespected ==
  [][\A w \in Workers : /\ worker[w].phase = "ready" /\ worker'[w].phase = "answered"
                        /\ owed[bot] > lost[bot]
                        => w \in ahead]_vars

(* What keeps row i from leaving, for good or until an operator or a       *)
(* restart comes: an earlier row of its lane, or itself, that waits for a  *)
(* decision or was left INFLIGHT by a worker that could not save its       *)
(* answer; another bot in use; or a Run that has ended for good.           *)
Stuck(i) ==
  \/ ended \/ outbox[i].owner # configured
  \/ \E j \in 1..i : /\ SameLane(i, j) /\ SameOwner(i, j)
                     /\ \/ outbox[j].state \in {"FAILED", "UNKNOWN"}
                        \/ /\ outbox[j].state = "INFLIGHT"
                           /\ \A w \in Workers : worker[w].row # j

(* Every message leaves or is stuck where an operator sees why: pauses,    *)
(* rests, retries and the other chats never hold a row up for ever.  (Each *)
(* row and its fallback, and two changes of the group's permissions.)      *)
EveryRowLeaves ==
  \A n \in 1..(2 * MaxRows + 2) :
    (n \in DOMAIN outbox)
      ~> (n \in DOMAIN outbox /\ (outbox[n].state = "SENT" \/ Stuck(n)))

(* The promise: module Delivery.  A message may be transmitted while it is *)
(* pending, while a worker that has not called yet holds it, and while one *)
(* that knows it did not arrive is about to say so.  A permission change   *)
(* is repeated until it is over; its lane is not that of its chat.         *)
Licensed(i) ==
  \/ outbox[i].state = "PENDING"
  \/ IsGroup(i) /\ outbox[i].state # "SENT"
  \/ \E w \in Workers : /\ worker[w].row = i
                        /\ \/ worker[w].phase \in {"claimed", "paced", "ready"}
                           \/ worker[w].answer \in {"limited", "unsent"}

Items == [i \in DOMAIN outbox |->
            [lane |-> <<outbox[i].chat, IsGroup(i)>>, owner |-> outbox[i].owner,
             licensed |-> Licensed(i), done |-> outbox[i].state = "SENT",
             noted |-> outbox[i].noted, sent |-> outbox[i].delivered,
             renewed |-> IF IsGroup(i) THEN 0 ELSE outbox[i].retries]]

D == INSTANCE Delivery WITH
       items <- Items, Lanes <- Chats \X BOOLEAN,
       Backlog <- [n \in DOMAIN OldRows |-> <<OldRows[n].chat, OldRows[n].kind \in GroupKinds>>]

ImplementsDelivery == D!Spec
=============================================================================
