------------------------------ MODULE Updates -------------------------------
(***************************************************************************)
(* Receiving: the poll loop of Run (internal/telegram/client.go),          *)
(* HandleUpdate and Offset (internal/app/telegram.go), scopedUpdateID and  *)
(* BindBot (bot_switch.go).  Telegram numbers each bot's updates by itself, *)
(* gives them out again until a poll asks for a later one, and forgets them *)
(* then.  A crash may fall between any two steps; the token may change.    *)
(*                                                                         *)
(* Every update is a bet; it is accepted if the round is open when it is   *)
(* handled.  What accepting does to the ledger is in module RiftLedger.    *)
(***************************************************************************)
EXTENDS Integers, Sequences, FiniteSets, FiniteSetsExt

CONSTANTS
  Bots,
  FirstBot,      \* the bot configured when the behaviour starts
  NoBot,         \* meta.bot_id not set
  OldUpdates,    \* updates handled by a version without bot sessions: the numbers possible
  BatchLimit,    \* updates in one answer of getUpdates (50)
  MaxUpdate,     \* bound of the model: updates sent to each bot
  MaxFaults,     \* bound of the model: failed polls and failed transactions
  MaxRestarts,   \* bound of the model: restarts of the process or of Run
  MaxToggles     \* bound of the model: openings and closings of the round

NoSession == -1          \* no row in bot_sessions
Undecided == "undecided"
Requests  == Bots \X (1..MaxUpdate)

ASSUME UpdatesAssumption ==
  /\ FirstBot \in Bots /\ NoBot \notin Bots /\ OldUpdates \subseteq 0..MaxUpdate
  /\ BatchLimit \in Nat \ {0} /\ MaxUpdate \in Nat

VARIABLES
  sent,          \* at Telegram: how many updates each bot has been sent
  forgotten,     \* at Telegram: updates below this one are not given out again
  bot,           \* meta.bot_id
  metaOffset,    \* meta.tg_offset
  offset,        \* bot_sessions.offset, by bot
  ids,           \* bot_update_ids: [id, bot, update]
  handled,       \* tg_updates: internal ids
  open,          \* the round accepts bets
  decision,      \* the reply each update was given
  effects,       \* history: bets accepted, by update
  configured, bound,   \* memory: the bot in use, and whether Run has bound it
  ended,         \* memory: Run met an error that is not tried again
  batch,         \* memory: updates of the last poll that are still to be handled
  faults, restarts, toggles   \* bounds of the model

telegram == <<sent, forgotten>>
tables   == <<bot, metaOffset, offset, ids, handled, decision, effects>>
process  == <<configured, bound, ended>>
bounds   == <<faults, restarts, toggles>>
vars     == <<telegram, tables, process, batch, open, bounds>>

TypeOK ==
  /\ sent \in [Bots -> 0..MaxUpdate] /\ forgotten \in [Bots -> 0..(MaxUpdate + 1)]
  /\ bot \in Bots \cup {NoBot} /\ metaOffset \in 0..(MaxUpdate + 1)
  /\ offset \in [Bots -> 0..(MaxUpdate + 1) \cup {NoSession}]
  /\ ids \subseteq [id : Nat \ {0}, bot : Bots, update : 1..MaxUpdate]
  /\ handled \subseteq Nat \ {0} /\ open \in BOOLEAN
  /\ decision \in [Requests -> {Undecided, "accepted", "refused"}]
  /\ effects \in [Requests -> Nat]
  /\ configured \in Bots /\ bound \in BOOLEAN /\ ended \in BOOLEAN
  /\ batch \in Seq(1..MaxUpdate)

(* A new database, or one that an older version left, which had polled for *)
(* the last of its updates but not yet for the next one.                   *)
Init ==
  /\ configured = FirstBot /\ bound = FALSE /\ ended = FALSE /\ batch = << >> /\ open = TRUE
  /\ \E old \in OldUpdates :
       /\ bot = IF old = 0 THEN NoBot ELSE FirstBot
       /\ sent = [b \in Bots |-> IF b = FirstBot THEN old ELSE 0]
       /\ metaOffset = IF old = 0 THEN 0 ELSE old + 1
       /\ handled = 1..old
       /\ decision = [q \in Requests |-> IF q[1] = FirstBot /\ q[2] <= old
                                         THEN "refused" ELSE Undecided]
  /\ forgotten = [b \in Bots |-> 0]
  /\ offset = [b \in Bots |-> NoSession] /\ ids = {}
  /\ effects = [q \in Requests |-> 0]
  /\ faults = 0 /\ restarts = 0 /\ toggles = 0
-----------------------------------------------------------------------------
(* Players and the operator. *)
PlayerSends(b) ==
  /\ sent[b] < MaxUpdate /\ sent' = [sent EXCEPT ![b] = @ + 1]
  /\ UNCHANGED <<forgotten, tables, process, batch, open, bounds>>

Toggle ==
  /\ toggles < MaxToggles /\ toggles' = toggles + 1 /\ open' = ~open
  /\ UNCHANGED <<telegram, tables, process, batch, faults, restarts>>
-----------------------------------------------------------------------------
(* Offset: the session's, or the older version's. *)
Offset == IF bot # NoBot /\ offset[bot] # NoSession THEN offset[bot] ELSE metaOffset

(* getUpdates: what is asked for is remembered, whether the answer arrives *)
(* or not; the oldest updates come first.                                  *)
GiveOut(b, from) == LET due == { u \in 1..sent[b] : u >= Max({from, forgotten[b]}) }
                        n == Min({BatchLimit, Cardinality(due)})
                    IN [k \in 1..n |-> Min(due) + k - 1]

Poll ==
  /\ bound /\ batch = << >>
  /\ forgotten' = [forgotten EXCEPT ![bot] = Max({@, Offset})]
  /\ \/ batch' = GiveOut(bot, Offset) /\ UNCHANGED faults
     \/ faults < MaxFaults /\ faults' = faults + 1 /\ UNCHANGED batch
  /\ UNCHANGED <<sent, tables, process, open, restarts, toggles>>

(* scopedUpdateID: the update's own number when no other bot has it, or    *)
(* else a number nobody has (AUTOINCREMENT).                               *)
Known(b, u) == { i \in ids : i.bot = b /\ i.update = u }

(* A plausible slip: Telegram's number as it is, whatever bot it is from. *)
RawID(b, u) == u

ScopedID(b, u) ==
  IF Known(b, u) # {} THEN (CHOOSE i \in Known(b, u) : TRUE).id
  ELSE IF \A i \in ids : i.id # u THEN u
  ELSE Max({ i.id : i \in ids }) + 1

(* A plausible slip: what was refused is not consumed. *)
ConsumeAccepted(b, u, id) ==
  IF open
  THEN /\ handled' = handled \cup {id}
       /\ metaOffset' = u + 1
       /\ offset' = IF offset[b] = NoSession THEN offset ELSE [offset EXCEPT ![b] = u + 1]
  ELSE UNCHANGED <<handled, metaOffset, offset>>

(* The id, the offset of the older versions and the session's offset. *)
Consume(b, u, id) ==
  /\ handled' = handled \cup {id}
  /\ metaOffset' = u + 1
  /\ offset' = IF offset[b] = NoSession THEN offset ELSE [offset EXCEPT ![b] = u + 1]

(* HandleUpdate, one transaction: an update handled before is passed over. *)
(* A refused bet is rolled back to a savepoint, and consumed like any.     *)
HandleUpdate ==
  LET u == Head(batch)
      id == ScopedID(bot, u)
      q == <<bot, u>>
  IN /\ bound /\ batch # << >> /\ batch' = Tail(batch)
     /\ ids' = ids \cup {[id |-> id, bot |-> bot, update |-> u]}
     /\ \/ id \in handled /\ UNCHANGED <<handled, metaOffset, offset, decision, effects>>
        \/ /\ id \notin handled
           /\ Consume(bot, u, id)
           /\ decision' = [decision EXCEPT ![q] = IF open THEN "accepted" ELSE "refused"]
           /\ effects' = IF open THEN [effects EXCEPT ![q] = @ + 1] ELSE effects
     /\ UNCHANGED <<telegram, bot, process, open, bounds>>

(* The transaction fails as a whole: the rest of the batch is left alone   *)
(* and polled for again.                                                   *)
HandleFails ==
  /\ bound /\ batch # << >> /\ faults < MaxFaults /\ faults' = faults + 1
  /\ batch' = << >>
  /\ UNCHANGED <<telegram, tables, process, open, restarts, toggles>>
-----------------------------------------------------------------------------
(* The process dies at any step, or is restarted with another token. *)
Restart(b) ==
  /\ restarts < MaxRestarts /\ restarts' = restarts + 1
  /\ configured' = b /\ bound' = FALSE /\ ended' = FALSE /\ batch' = << >>
  /\ UNCHANGED <<telegram, tables, open, faults, toggles>>

(* Run returns with an error, its own or BindBot's.  It is run again, save *)
(* after an error that needs attention: a refusal by Telegram, another bot *)
(* than the one named, an Offset that cannot be read.                      *)
RunEnds ==
  /\ ~ended /\ restarts < MaxRestarts /\ restarts' = restarts + 1
  /\ batch = << >> /\ bound' = FALSE /\ ended' \in BOOLEAN /\ (bound \/ ended')
  /\ UNCHANGED <<telegram, tables, configured, batch, open, faults, toggles>>

(* A plausible slip: a bot takes over the position of the one before it. *)
BindSharing ==
  /\ ~bound /\ ~ended /\ bound' = TRUE /\ bot' = configured
  /\ offset' = [offset EXCEPT ![configured] = metaOffset]
  /\ UNCHANGED <<telegram, metaOffset, ids, handled, decision, effects, configured,
                 ended, batch, open, bounds>>

(* BindBot: what an older version handled becomes the old bot's; the offset *)
(* in meta becomes the new bot's.                                           *)
BindBot ==
  LET old == IF bot = NoBot THEN configured ELSE bot
      start(b) == IF offset[b] = NoSession THEN 0 ELSE offset[b]
  IN /\ ~bound /\ ~ended /\ bound' = TRUE /\ bot' = configured
     /\ ids' = IF offset[old] # NoSession THEN ids
               ELSE ids \cup { [id |-> u, bot |-> old, update |-> u] :
                                 u \in { v \in handled : \A i \in ids : i.id # v } }
     /\ offset' = [b \in Bots |-> IF b \in {old, configured} THEN start(b) ELSE offset[b]]
     /\ metaOffset' = IF old = configured THEN metaOffset ELSE start(configured)
     /\ UNCHANGED <<telegram, handled, decision, effects, configured, ended, batch, open,
                    bounds>>

Next ==
  \/ \E b \in Bots : PlayerSends(b) \/ Restart(b)
  \/ Toggle \/ Poll \/ HandleUpdate \/ HandleFails \/ RunEnds \/ BindBot

Spec == Init /\ [][Next]_vars

(* Run polls for ever, is run again until it has ended for good, and       *)
(* handles a batch to its end.                                             *)
FairSpec == Spec /\ WF_vars(BindBot) /\ WF_vars(Poll) /\ WF_vars(HandleUpdate)
-----------------------------------------------------------------------------
(* Properties.                                                             *)

(* Telegram forgets an update only when it has been decided: nothing is    *)
(* lost between the poll, the transaction, a crash and another bot whose   *)
(* updates have the same numbers.  (With the types.)                       *)
NothingForgotten ==
  /\ TypeOK
  /\ \A b \in Bots, u \in 1..MaxUpdate : u < forgotten[b] => decision[<<b, u>>] # Undecided

(* Two updates never share an internal id, from which the keys of replies  *)
(* and balance requests are made, nor has an update two.                   *)
IdsAreUnique ==
  \A i, j \in ids : i.id = j.id \/ (i.bot = j.bot /\ i.update = j.update) => i = j

(* Each update is decided once, and the decision stands: a redelivered bet *)
(* is not accepted twice, and a refused one not later (telegram.go:70).    *)
O == INSTANCE Once WITH Accepting <- {"accepted"}, Declining <- {"refused"}
ImplementsOnce == O!Spec

(* All that Telegram would give out to b has been handled before: an       *)
(* update that is passed over does not move the offset.                    *)
Clogged(b) ==
  LET next == GiveOut(b, IF b = bot THEN Offset ELSE offset[b])
  IN Len(next) = BatchLimit /\ \A k \in DOMAIN next : decision[<<b, next[k]>>] # Undecided

(* Every update sent to the bot in use is decided, over lost polls, failed *)
(* transactions and crashes, as long as this bot stays in use and Run has  *)
(* not ended for good.  The exception is an installation whose older       *)
(* version left a whole batch that Telegram does not know to be handled:   *)
(* the first binding starts from 0 and never gets past it.                 *)
EveryUpdateDecided ==
  \A q \in Requests :
    (sent[q[1]] >= q[2])
      ~> (decision[q] # Undecided \/ configured # q[1] \/ ended \/ Clogged(q[1]))
=============================================================================
