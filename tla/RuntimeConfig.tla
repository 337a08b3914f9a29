--------------------------- MODULE RuntimeConfig ----------------------------
(***************************************************************************)
(* The settings of the bot (internal/runtimeconfig/store.go), saved from   *)
(* the page and applied by restarting the process (httpapi/server.go).     *)
(* Save is a compare-and-set on the revision the page was shown, written   *)
(* to the disk in AtomicWrite's steps.  The process may be killed, and the *)
(* machine lose its power, between any two of them: a renamed file is      *)
(* there after a kill, but after a loss of power only if its directory was *)
(* synced, and only with the contents that were synced.                    *)
(***************************************************************************)
EXTENDS Integers

CONSTANTS
  Pages,
  Values,        \* what the settings may say
  Valid,         \* those of them that Validate accepts
  Initial,       \* the settings of the environment, while no file exists
  MaxRevision,   \* bound of the model: saves
  MaxFaults      \* bound of the model: failing writes, kills, losses of power

ASSUME ConfigAssumption ==
  /\ Initial \in Valid /\ Valid \subseteq Values
  /\ MaxRevision \in Nat /\ MaxFaults \in Nat

Config == [revision : 0..MaxRevision, value : Values]
Torn == [revision |-> -1, value |-> Initial]
Nobody == "nobody"

VARIABLES
  file, flushed,     \* the settings file, and whether its contents are on the disk
  durable, linked,   \* what a loss of power leaves of it; whether that is the file
  backup,            \* the .bak file
  up,                \* the process runs
  saved, active,     \* in memory: the last saved settings, and those in use
  restarting,        \* in memory: a restart has been asked for
  closing,           \* the process has got its signal and accepts no more requests
  saving,            \* the Save under way: [page, config, step]; it holds the mutex
  form,              \* in each page: the revision its next save is based on
  answer,            \* the handler's result of Save, for each page
  acked,             \* history: the last configuration a Save reported
  hasty,             \* history: it was reported before it was on the disk
  faults             \* bound of the model

disk   == <<file, flushed, durable, linked, backup>>
memory == <<saved, active, restarting, closing>>
reports == <<acked, hasty>>
vars   == <<disk, up, memory, saving, form, answer, reports, faults>>

Steps == {"backup", "write", "rename", "sync"}
Free == [page |-> Nobody, config |-> [revision |-> 0, value |-> Initial], step |-> "backup"]
NoAnswer == "none"

TypeOK ==
  /\ file \in Config /\ durable \in Config /\ backup \in Config
  /\ flushed \in BOOLEAN /\ linked \in BOOLEAN /\ up \in BOOLEAN
  /\ restarting \in BOOLEAN /\ closing \in BOOLEAN
  /\ saved \in Config /\ active \in Config /\ acked \in Config
  /\ saving \in [page : Pages \cup {Nobody}, config : Config, step : Steps]
  /\ form \in [Pages -> 0..MaxRevision]
  /\ answer \in [Pages -> {NoAnswer, "ok", "refused"}]
  /\ hasty \in BOOLEAN /\ faults \in 0..MaxFaults

Init ==
  LET env == [revision |-> 0, value |-> Initial]
  IN /\ file = env /\ durable = env /\ backup = env /\ flushed = TRUE /\ linked = TRUE
     /\ up = TRUE /\ saved = env /\ active = env /\ acked = env /\ restarting = FALSE /\ closing = FALSE
     /\ hasty = FALSE /\ saving = Free /\ faults = 0
     /\ form = [p \in Pages |-> 0]
     /\ answer = [p \in Pages |-> NoAnswer]
-----------------------------------------------------------------------------
Unlocked == up /\ saving.page = Nobody

(* View, for the form; it waits for a Save under way. *)
LoadBot(p) ==
  /\ Unlocked /\ ~closing /\ answer[p] = NoAnswer
  /\ form' = [form EXCEPT ![p] = saved.revision]
  /\ UNCHANGED <<disk, up, memory, saving, answer, reports, faults>>

(* The same settings again, from the revision they were saved at. *)
Replayed(p, v) == v = saved.value /\ form[p] \in {saved.revision, saved.revision - 1}

Accepted(p, v) == ~Replayed(p, v) /\ form[p] = saved.revision /\ v \in Valid

(* Save, up to its first write. *)
Save(p, v) ==
  /\ Unlocked /\ ~closing /\ answer[p] = NoAnswer
  /\ \/ /\ Replayed(p, v)
        /\ answer' = [answer EXCEPT ![p] = "ok"]
        /\ acked' = saved /\ hasty' = (hasty \/ (~linked /\ durable # saved))
        /\ UNCHANGED saving
     \/ /\ ~Replayed(p, v) /\ ~Accepted(p, v)
        /\ answer' = [answer EXCEPT ![p] = "refused"]
        /\ UNCHANGED <<saving, reports>>
     \/ /\ Accepted(p, v) /\ saved.revision < MaxRevision
        /\ saving' = [page |-> p, step |-> "backup",
                      config |-> [revision |-> saved.revision + 1, value |-> v]]
        /\ UNCHANGED <<answer, reports>>
  /\ UNCHANGED <<disk, up, memory, form, faults>>

At(step) == up /\ saving.page # Nobody /\ saving.step = step

Proceed(step) == saving' = [saving EXCEPT !.step = step]

(* Any step may fail; what it has written so far stays. *)
SaveFails ==
  /\ up /\ saving.page # Nobody
  /\ faults < MaxFaults /\ faults' = faults + 1
  /\ answer' = [answer EXCEPT ![saving.page] = "refused"]
  /\ saving' = Free
  /\ UNCHANGED <<disk, up, memory, form, reports>>

(* A plausible slip: what is kept is what the process runs with. *)
BackUpActive ==
  /\ At("backup") /\ Proceed("write")
  /\ backup' = active /\ durable' = file /\ linked' = TRUE /\ hasty' = FALSE
  /\ UNCHANGED <<file, flushed, up, memory, form, answer, acked, faults>>

(* AtomicWrite of the backup; it syncs the directory of both files. *)
BackUp ==
  /\ At("backup") /\ Proceed("write")
  /\ backup' = saved /\ durable' = file /\ linked' = TRUE /\ hasty' = FALSE
  /\ UNCHANGED <<file, flushed, up, memory, form, answer, acked, faults>>

(* AtomicWrite of the file: the temporary file is written and synced, ...  *)
WriteTemp ==
  /\ At("write") /\ Proceed("rename")
  /\ UNCHANGED <<disk, up, memory, form, answer, reports, faults>>

(* A plausible slip: the temporary file is renamed before it is synced. *)
RenameUnsynced ==
  /\ At("rename") /\ Proceed("sync")
  /\ file' = saving.config /\ linked' = FALSE /\ flushed' = FALSE
  /\ UNCHANGED <<durable, backup, up, memory, form, answer, reports, faults>>

(* ... renamed, ... *)
Rename ==
  /\ At("rename") /\ Proceed("sync")
  /\ file' = saving.config /\ linked' = FALSE /\ flushed' = TRUE
  /\ UNCHANGED <<durable, backup, up, memory, form, answer, reports, faults>>

(* A plausible slip: the directory is not synced. *)
FinishUnlinked ==
  /\ At("sync") /\ saving' = Free
  /\ saved' = saving.config /\ acked' = saving.config
  /\ answer' = [answer EXCEPT ![saving.page] = "ok"]
  /\ UNCHANGED <<disk, active, restarting, closing, up, form, hasty, faults>>

(* ... and its directory synced; only then the memory follows. *)
Finish ==
  /\ At("sync") /\ saving' = Free
  /\ durable' = file /\ linked' = TRUE /\ hasty' = FALSE
  /\ saved' = saving.config /\ acked' = saving.config
  /\ answer' = [answer EXCEPT ![saving.page] = "ok"]
  /\ UNCHANGED <<file, flushed, backup, active, restarting, closing, up, form, faults>>
-----------------------------------------------------------------------------
(* A plausible slip: settings that say what the active ones say need no restart. *)
RestartOnChange == restarting \/ saved.value # active.value

(* The rest of the handler: the answer is a View of its own, which the page *)
(* may never get; then the restart is asked for, once.                     *)
RestartWanted == restarting \/ saved # active

Respond(p) ==
  /\ Unlocked /\ answer[p] # NoAnswer
  /\ answer' = [answer EXCEPT ![p] = NoAnswer]
  /\ \/ UNCHANGED form
     \/ /\ answer[p] = "ok"
        /\ form' = [form EXCEPT ![p] = saved.revision]
  /\ restarting' = IF answer[p] = "ok" THEN RestartWanted ELSE restarting
  /\ UNCHANGED <<disk, up, saved, active, closing, saving, reports, faults>>

Down ==
  /\ up' = FALSE /\ restarting' = FALSE /\ closing' = FALSE /\ saving' = Free
  /\ answer' = [p \in Pages |-> NoAnswer]
  /\ UNCHANGED <<saved, active, form>>

(* An operator may also ask for a restart without a save. *)
AskRestart ==
  /\ up /\ ~closing /\ restarting' = TRUE
  /\ UNCHANGED <<disk, up, saved, active, closing, saving, form, answer, reports, faults>>

(* The process signals itself: the server stops listening, ... *)
Signal ==
  /\ up /\ restarting /\ ~closing
  /\ closing' = TRUE
  /\ UNCHANGED <<disk, up, saved, active, restarting, saving, form, answer, reports, faults>>

(* ... and lets its requests end, or cuts them off after a while. *)
Exit == closing /\ Down /\ UNCHANGED <<disk, reports, faults>>

Kill ==
  /\ up /\ faults < MaxFaults /\ faults' = faults + 1
  /\ Down /\ UNCHANGED <<disk, reports>>

(* What was reported too early may be gone; then it is no longer owed.     *)
PowerLoss ==
  /\ faults < MaxFaults /\ faults' = faults + 1
  /\ file' = IF ~linked THEN durable ELSE IF flushed THEN file ELSE Torn
  /\ durable' = file' /\ linked' = TRUE /\ flushed' = TRUE
  /\ acked' = (IF hasty THEN durable ELSE acked) /\ hasty' = FALSE
  /\ Down /\ UNCHANGED backup

(* The kernel writes back in its own time. *)
WriteBack ==
  /\ ~linked \/ ~flushed
  /\ linked' = TRUE /\ flushed' = TRUE /\ durable' = file /\ hasty' = FALSE
  /\ UNCHANGED <<file, backup, up, memory, saving, form, answer, acked, faults>>

(* Open, in a process that a supervisor starts. *)
Open ==
  /\ ~up /\ file # Torn
  /\ up' = TRUE /\ saved' = file /\ active' = file
  /\ UNCHANGED <<disk, restarting, closing, saving, form, answer, reports, faults>>

Next ==
  \/ \E p \in Pages : LoadBot(p) \/ Respond(p) \/ \E v \in Values : Save(p, v)
  \/ BackUp \/ WriteTemp \/ Rename \/ Finish \/ SaveFails
  \/ AskRestart \/ Signal \/ Exit \/ Kill \/ PowerLoss \/ WriteBack \/ Open

Spec == Init /\ [][Next]_vars

(* Handlers run to their end, a restart that was asked for takes place and *)
(* the supervisor starts the process again.                                *)
FairSpec ==
  /\ Spec /\ WF_vars(BackUp \/ WriteTemp \/ Rename \/ Finish)
  /\ WF_vars(Signal) /\ WF_vars(Exit) /\ WF_vars(Open)
  /\ \A p \in Pages : SF_vars(Respond(p))
-----------------------------------------------------------------------------
(* Properties.                                                             *)

(* The file is always one that Open accepts: whole and valid.  (With the   *)
(* types.)                                                                 *)
NeverTorn == TypeOK /\ file # Torn /\ file.value \in Valid

(* Configuration c is not older than what was last reported. *)
Covers(c) == c.revision > acked.revision \/ c = acked

(* A configuration that a Save reports, whether it wrote it or found it    *)
(* saved already, survives any kill and any loss of power (the comment of  *)
(* AtomicWrite, store.go:130).  The exception is a report made after a     *)
(* restart that overtook the directory's sync: `hasty', until this write   *)
(* has reached the disk after all.                                         *)
WrittenIsDurable ==
  Covers(file) /\ (hasty \/ Covers(IF linked THEN file ELSE durable))

(* The backup is the present configuration or the one before it.           *)
BackupIsPredecessor ==
  backup = file \/ backup.revision = file.revision - 1

(* A save takes effect: the process ends up running what was saved last.   *)
SavedIsApplied == saved # active ~> up /\ saved = active
=============================================================================
