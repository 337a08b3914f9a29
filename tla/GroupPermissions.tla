-------------------------- MODULE GroupPermissions --------------------------
(***************************************************************************)
(* Muting the group while a round is closed and restoring it afterwards    *)
(* (internal/app/group_permissions.go, internal/telegram/                  *)
(* group_permissions.go), composed with the outbox whose group lane        *)
(* carries the two tasks.  Before its first change a worker reads the      *)
(* permissions of the group from Telegram and saves them with the round.   *)
(*                                                                         *)
(* Permissions are two values: those the group has by itself and those     *)
(* that keep its members from writing.                                     *)
(***************************************************************************)
EXTENDS Outbox

CONSTANT MaxRounds   \* bound of the model: rounds

(* The group's tasks are queued by CloseRound and EndRound and nobody else. *)
ASSUME GroupAssumption ==
  /\ MaxRounds \in Nat
  /\ Kinds \subseteq MessageKinds
  /\ \A n \in DOMAIN OldRows : OldRows[n].kind \in MessageKinds

VARIABLES
  roundState,    \* rounds.state: "open" before CLOSED, "ended" after it
  original,      \* group_permissions.original, by round
  task,          \* outbox ids of a round's two tasks, 0 before they exist
  perms,         \* the permissions of the group, at Telegram
  seen,          \* memory: what the worker of a task has read, and its step
  crossed        \* history: a task of one bot overtook a task of another

gvars == <<roundState, original, task, perms, seen, crossed>>

Rounds      == 1..MaxRounds
Permissions == {"own", "muted"}
NotSaved    == ""
Steps       == {"none", "fetch", "save", "set"}
Unseen      == [step |-> "none", permissions |-> NotSaved]

GroupTypeOK ==
  /\ TypeOK
  /\ roundState \in [Rounds -> {"open", "CLOSED", "ended"}]
  /\ original \in [Rounds -> Permissions \cup {NotSaved}]
  /\ task \in [Rounds -> [mute : 0..Len(outbox), restore : 0..Len(outbox)]]
  /\ perms \in Permissions
  /\ seen \in [Workers -> [step : Steps, permissions : Permissions \cup {NotSaved}]]
  /\ crossed \in BOOLEAN

GroupInit ==
  /\ Init
  /\ roundState = [r \in Rounds |-> "open"] /\ original = [r \in Rounds |-> NotSaved]
  /\ task = [r \in Rounds |-> [mute |-> 0, restore |-> 0]]
  /\ perms = "own" /\ seen = [w \in Workers |-> Unseen] /\ crossed = FALSE

(* The round a worker's task is about. *)
RoundOf(w) == CHOOSE r \in Rounds : worker[w].row \in {task[r].mute, task[r].restore}
Mutes(w)   == Held(w).kind = "mute"
-----------------------------------------------------------------------------
QueueTask(r, kind) ==
  /\ outbox' = Append(outbox, NewRow(Group, kind, NoCard, bot))
  /\ task' = [task EXCEPT ![r][kind] = Len(outbox) + 1]

(* CloseRound: with "mute on close" set, the task and its record.  Rounds  *)
(* follow one another: the next one closes after this one has ended.       *)
CloseRound(r, mute) ==
  /\ roundState[r] = "open" /\ \A s \in 1..(r - 1) : roundState[s] = "ended"
  /\ roundState' = [roundState EXCEPT ![r] = "CLOSED"]
  /\ IF mute
     THEN QueueTask(r, "mute")
     ELSE UNCHANGED <<outbox, task>>
  /\ UNCHANGED <<tables, process, memPause, worker, waits, faults, original, perms, seen,
                 crossed>>

(* Settle and CancelRound: restore what CloseRound recorded. *)
EndRound(r) ==
  /\ roundState[r] = "CLOSED"
  /\ roundState' = [roundState EXCEPT ![r] = "ended"]
  /\ IF task[r].mute # 0
     THEN QueueTask(r, "restore")
     ELSE UNCHANGED <<outbox, task>>
  /\ UNCHANGED <<tables, process, memPause, worker, waits, faults, original, perms, seen,
                 crossed>>
-----------------------------------------------------------------------------
(* applyGroupPermission, step by step.                                     *)

AtStep(w, step) ==
  /\ worker[w].phase = "ready" /\ IsGroup(worker[w].row) /\ seen[w].step = step

Respond(w, answer, wait) ==
  /\ worker' = [worker EXCEPT ![w].phase = "answered", ![w].answer = answer,
                              ![w].wait = wait]
  /\ Gate(w, wait)
  /\ seen' = [seen EXCEPT ![w] = Unseen]

Advance(w, step, permissions) ==
  /\ seen' = [seen EXCEPT ![w] = [step |-> step, permissions |-> permissions]]
  /\ UNCHANGED <<worker, memPause, waits>>

(* A plausible slip: a late mute is carried out all the same. *)
ReadStateLate(w) ==
  LET r == RoundOf(w)
  IN /\ AtStep(w, "none")
     /\ IF ~Mutes(w) /\ original[r] = NotSaved
        THEN Respond(w, "same", 0)
        ELSE Advance(w, IF original[r] = NotSaved THEN "fetch" ELSE "set", original[r])
     /\ UNCHANGED <<outbox, tables, process, faults, roundState, original, task, perms, crossed>>

(* A late mute and a restore of nothing have nothing to do. *)
ReadState(w) ==
  LET r == RoundOf(w)
  IN /\ AtStep(w, "none")
     /\ IF IF Mutes(w) THEN roundState[r] # "CLOSED" ELSE original[r] = NotSaved
        THEN Respond(w, "same", 0)
        ELSE Advance(w, IF original[r] = NotSaved THEN "fetch" ELSE "set", original[r])
     /\ UNCHANGED <<outbox, tables, process, faults, roundState, original, task, perms, crossed>>

(* The calls: "lost" is every failure but a 4xx. *)
Fails(w) ==
  \E answer \in {"lost", "refused", "limited"}, wait \in Waits \cup {0} :
    /\ answer = "limited" <=> wait # 0
    /\ Charge(answer)
    /\ Respond(w, answer, wait)

GetChat(w) ==
  /\ AtStep(w, "fetch")
  /\ \/ Advance(w, "save", perms) /\ Charge("ok")
     \/ Fails(w)
  /\ UNCHANGED <<outbox, tables, process, roundState, original, task, perms, crossed>>

(* SaveGroupPermissions, never over what is saved, and the second look at  *)
(* the round (a transaction of its own; nothing between them can tell).    *)
SaveSnapshot(w) ==
  LET r == RoundOf(w)
  IN /\ AtStep(w, "save")
     /\ original' = [original EXCEPT ![r] = IF @ = NotSaved THEN seen[w].permissions ELSE @]
     /\ IF roundState[r] # "CLOSED" THEN Respond(w, "same", 0)
        ELSE Advance(w, "set", original'[r])
     /\ UNCHANGED <<outbox, tables, process, faults, roundState, task, perms, crossed>>

SetPermissions(w) ==
  LET wanted == IF Mutes(w) THEN "muted" ELSE seen[w].permissions
  IN /\ AtStep(w, "set")
     /\ \/ Respond(w, "ok", 0) /\ Charge("ok") /\ perms' = wanted
        \/ Fails(w) /\ perms' \in (IF worker'[w].answer = "lost" THEN {perms, wanted}
                                   ELSE {perms})
     /\ UNCHANGED <<outbox, tables, process, roundState, original, task, crossed>>

(* sendGroupPermission: failures are tried again, a few times. *)
RecordGroup(w) ==
  /\ Answered(w, GroupKinds, {"ok", "same", "lost", "refused"})
  /\ LET r == Held(w)
         again == r.attempts < GiveUpAfter
         answer == worker[w].answer
     IN Release(w, IF answer \in {"ok", "same"} THEN With(r, "SENT", 0, TRUE)
                   ELSE IF answer = "refused" THEN With(r, "FAILED", 1, FALSE)
                   ELSE With(r, IF again THEN "PENDING" ELSE "UNKNOWN", 1, FALSE))
  /\ UNCHANGED <<tables, process, memPause, waits, faults, gvars>>

(* active_outbox shows a bot its own rows only: an earlier task that        *)
(* another bot was to carry out does not hold back row i.                  *)
Overtakes(i) ==
  IsGroup(i) /\ \E j \in 1..(i - 1) : /\ IsGroup(j) /\ ~SameOwner(i, j)
                                      /\ outbox[j].state # "SENT" /\ ~Passable(j)

GroupClaim(w) ==
  /\ Claim(w) /\ crossed' = (crossed \/ Overtakes(NextRow))
  /\ UNCHANGED <<roundState, original, task, perms, seen>>

GroupWork(w) ==
  \/ GroupClaim(w)
  \/ Send(w) /\ UNCHANGED gvars
  \/ ReadState(w) \/ GetChat(w) \/ SaveSnapshot(w) \/ SetPermissions(w) \/ RecordGroup(w)
-----------------------------------------------------------------------------
(* An operator confirms a restore after restoring the group by hand. *)
GroupAck(i) ==
  /\ Ack(i)
  /\ perms' = IF outbox[i].kind = "restore" THEN "own" ELSE perms
  /\ UNCHANGED <<roundState, original, task, seen, crossed>>

GroupNext ==
  \/ \E r \in Rounds, mute \in BOOLEAN : CloseRound(r, mute)
  \/ \E r \in Rounds : EndRound(r)
  \/ \E w \in Workers : GroupWork(w) \/ (LocalFailure(w) /\ UNCHANGED gvars)
  \/ \E chat \in Chats, kind \in Kinds, card \in Cards \cup {NoCard} :
       Enqueue(chat, kind, card) /\ UNCHANGED gvars
  \/ \E i \in DOMAIN outbox : \/ (Retry(i) \/ Skip(i)) /\ UNCHANGED gvars
                              \/ GroupAck(i)
  \/ \E b \in Bots : \/ /\ Restart(b) /\ seen' = [w \in Workers |-> Unseen]
                        /\ UNCHANGED <<roundState, original, task, perms, crossed>>
                     \/ BindBot(b) /\ UNCHANGED gvars
  \/ (Disconnect \/ Tick) /\ UNCHANGED gvars

allVars == <<vars, gvars>>

GroupSpec == GroupInit /\ [][GroupNext]_allVars

GroupFairSpec ==
  /\ GroupSpec
  /\ \A w \in Workers : WF_allVars(GroupWork(w))
  /\ \A b \in Bots : WF_allVars(BindBot(b) /\ UNCHANGED gvars)
  /\ WF_allVars(Tick /\ UNCHANGED gvars)
-----------------------------------------------------------------------------
(* Properties.                                                             *)

Sent(i) == i # 0 /\ outbox[i].state = "SENT"

(* The permissions saved with a round are those from before its mute, over *)
(* retries, crashes and rounds that follow one another, whichever bots are *)
(* in use (group_permissions.go:57, "Retries must never snapshot a muted   *)
(* group"): unless, the bot having been switched, a task has overtaken     *)
(* another bot's that was not over.  (With the types.)                     *)
NeverSnapshotsMuted ==
  GroupTypeOK /\ (~crossed => \A r \in Rounds : original[r] # "muted")

(* Once a round's restore is through, the group can write again until the  *)
(* next round closes: no mute of that round arrives after it (README.md:90,*)
(* the permissions from before the closing are restored), with the same    *)
(* exception.                                                              *)
RestoredStays ==
  ~crossed =>
    \A r \in Rounds :
      /\ Sent(task[r].restore)
      /\ r = MaxRounds \/ roundState[r + 1] = "open"
      => perms = "own"

(* What keeps a restore from being carried out, for good or until an       *)
(* operator or a restart comes.                                            *)
RestoreStuck(r) ==
  \/ ended \/ outbox[task[r].restore].owner # configured
  \/ \E j \in 1..task[r].restore :
       /\ IsGroup(j) /\ SameOwner(j, task[r].restore)
       /\ \/ outbox[j].state \in {"FAILED", "UNKNOWN"} /\ ~Passable(j)
          \/ outbox[j].state = "INFLIGHT" /\ \A w \in Workers : worker[w].row # j

(* After every round the group is restored, whatever becomes of messages   *)
(* and of the mute itself (README.md:92: a message that fails does not     *)
(* stand in the way of the restore).                                       *)
RestoreHappens ==
  \A r \in Rounds :
    (task[r].restore # 0)
      ~> (task[r].restore # 0 /\ (Sent(task[r].restore) \/ RestoreStuck(r)))
=============================================================================
