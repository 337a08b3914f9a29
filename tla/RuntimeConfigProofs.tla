------------------------- MODULE RuntimeConfigProofs --------------------------
(***************************************************************************)
(* Proofs about module RuntimeConfig, for any pages, settings, numbers of  *)
(* saves, of kills and of losses of power.                                 *)
(***************************************************************************)
EXTENDS RuntimeConfig, TLAPS

(* The backup is configuration c or its predecessor. *)
BackedUp(c) == backup = c \/ backup.revision = c.revision - 1

(* The disk: only whole and valid files, none older than what was reported,*)
(* whether or not the directory entry is there yet; save for what a loss   *)
(* of power leaves behind a report that was made too early.                *)
DiskInv ==
  /\ flushed /\ (linked => durable = file)
  /\ file.value \in Valid /\ durable.value \in Valid
  /\ Covers(file) /\ (hasty \/ Covers(durable))
  /\ BackedUp(file) /\ BackedUp(durable)

(* The process: its memory is the file or, after a save that failed at its *)
(* last step, the predecessor of the file.                                 *)
MemoryInv ==
  up => /\ Covers(saved)
        /\ file = saved \/ file.revision = saved.revision + 1

(* The Save under way. *)
SavingInv ==
  saving.page # Nobody =>
    /\ up /\ saving.config.revision = saved.revision + 1 /\ saving.config.value \in Valid
    /\ saving.step # "backup" => backup = saved
    /\ saving.step = "sync" => file = saving.config

CInv == TypeOK /\ DiskInv /\ MemoryInv /\ SavingInv

-----------------------------------------------------------------------------
LEMMA InitC == Init => CInv
<1> SUFFICES ASSUME Init PROVE CInv
  OBVIOUS
<1> DEFINE env == [revision |-> 0, value |-> Initial]
<1>1. /\ file = env /\ durable = env /\ backup = env /\ flushed = TRUE /\ linked = TRUE
      /\ up = TRUE /\ saved = env /\ active = env /\ acked = env /\ hasty = FALSE
      /\ restarting = FALSE /\ closing = FALSE /\ saving = Free /\ faults = 0
      /\ form = [p \in Pages |-> 0] /\ answer = [p \in Pages |-> NoAnswer]
  BY DEF Init
<1>2. env \in Config /\ env.value \in Valid /\ env.revision = 0
  BY ConfigAssumption DEF Config
<1>3. saving \in [page : Pages \cup {Nobody}, config : Config, step : Steps]
      /\ saving.page = Nobody
  BY <1>1, <1>2 DEF Free, Steps
<1> HIDE DEF env
<1>4. TypeOK
  <2>1. form \in [Pages -> 0..MaxRevision] /\ faults \in 0..MaxFaults
    BY <1>1, ConfigAssumption
  <2>2. answer \in [Pages -> {NoAnswer, "ok", "refused"}]
    BY <1>1
  <2> QED BY <1>1, <1>2, <1>3, <2>1, <2>2 DEF TypeOK
<1>5. DiskInv /\ MemoryInv
  BY <1>1, <1>2 DEF DiskInv, MemoryInv, Covers, BackedUp
<1>6. SavingInv
  BY <1>3 DEF SavingInv
<1> QED BY <1>4, <1>5, <1>6 DEF CInv

LEMMA FreeSaving ==
  /\ Free \in [page : Pages \cup {Nobody}, config : Config, step : Steps]
  /\ Free.page = Nobody
BY ConfigAssumption DEF Free, Config, Steps

(* Steps that leave the disk, the memory's settings and the Save alone. *)
LEMMA StillC ==
  ASSUME CInv, TypeOK', UNCHANGED <<disk, saved, reports>>,
         saving' = saving \/ saving' = Free, up' = up
  PROVE  CInv'
<1>1. UNCHANGED <<file, flushed, durable, linked, backup, acked, hasty>>
  BY DEF disk, reports
<1>3. DiskInv' /\ MemoryInv'
  BY <1>1 DEF CInv, DiskInv, MemoryInv, Covers, BackedUp
<1>4. SavingInv'
  BY <1>1, FreeSaving DEF CInv, SavingInv
<1> QED BY <1>3, <1>4 DEF CInv

(* A page saves: only a configuration that succeeds the saved one. *)
LEMMA SaveC ==
  ASSUME CInv, NEW p \in Pages, NEW v \in Values, Save(p, v)
  PROVE  CInv'
<1>1. UNCHANGED <<file, flushed, durable, linked, backup, up, saved, active, restarting,
                  closing, form, faults>>
  BY DEF Save, disk, memory
<1>2. UNCHANGED reports => DiskInv' /\ MemoryInv'
  BY <1>1 DEF CInv, DiskInv, MemoryInv, Covers, BackedUp, reports
<1>3. CASE /\ UNCHANGED <<saving, reports>>
           /\ answer' = [answer EXCEPT ![p] = "refused"]
  <2>1. TypeOK'
    BY <1>1, <1>3 DEF CInv, TypeOK, reports
  <2>2. SavingInv'
    BY <1>1, <1>3 DEF CInv, SavingInv
  <2> QED BY <1>2, <1>3, <2>1, <2>2 DEF CInv
<1>5. CASE /\ UNCHANGED saving /\ answer' = [answer EXCEPT ![p] = "ok"]
           /\ acked' = saved /\ hasty' = (hasty \/ (~linked /\ durable # saved))
  <2>1. TypeOK'
    BY <1>1, <1>5 DEF CInv, TypeOK
  <2>2. SavingInv'
    BY <1>1, <1>5 DEF CInv, SavingInv
  <2>3. up /\ saved \in Config /\ saved.revision \in Int
    BY DEF Save, Unlocked, CInv, TypeOK, Config
  <2>4. MemoryInv' /\ Covers(file)'
    BY <1>1, <1>5, <2>3 DEF CInv, MemoryInv, Covers
  <2>5. ASSUME ~hasty' PROVE Covers(durable)'
    <3>1. linked => durable = file
      BY DEF CInv, DiskInv
    <3>2. CASE linked
      BY <1>1, <2>4, <3>1, <3>2 DEF Covers
    <3>3. CASE durable = saved
      BY <1>1, <1>5, <3>3 DEF Covers
    <3> QED BY <1>5, <2>5, <3>2, <3>3
  <2>6. hasty' \in BOOLEAN
    BY <2>1 DEF TypeOK
  <2>7. DiskInv'
    BY <1>1, <2>4, <2>5, <2>6 DEF CInv, DiskInv, BackedUp
  <2> QED BY <2>1, <2>2, <2>4, <2>7 DEF CInv
<1>4. CASE /\ Accepted(p, v) /\ saved.revision < MaxRevision /\ UNCHANGED <<answer, reports>>
           /\ saving' = [page |-> p, step |-> "backup",
                         config |-> [revision |-> saved.revision + 1, value |-> v]]
  <2> DEFINE c == [revision |-> saved.revision + 1, value |-> v]
  <2>1. v \in Valid /\ saved \in Config
    BY <1>4 DEF Accepted, CInv, TypeOK
  <2>2. c \in Config /\ c.revision = saved.revision + 1 /\ c.value = v
    BY <1>4, <2>1, ConfigAssumption DEF Config
  <2> HIDE DEF c
  <2>3. saving' = [page |-> p, step |-> "backup", config |-> c]
    BY <1>4 DEF c
  <2>4. saving' \in [page : Pages \cup {Nobody}, config : Config, step : Steps]
        /\ saving'.config = c /\ saving'.step = "backup"
    BY <2>2, <2>3 DEF Steps
  <2>5. TypeOK'
    BY <1>1, <1>4, <2>4 DEF CInv, TypeOK, reports
  <2>6. SavingInv'
    BY <1>1, <2>1, <2>2, <2>4 DEF SavingInv, Save, Unlocked
  <2> QED BY <1>2, <1>4, <2>5, <2>6 DEF CInv
<1> QED BY <1>3, <1>4, <1>5 DEF Save

(* The mutex is passed from step to step. *)
LEMMA ProceedC ==
  ASSUME TypeOK, NEW step \in Steps, Proceed(step)
  PROVE  /\ saving' \in [page : Pages \cup {Nobody}, config : Config, step : Steps]
         /\ saving'.page = saving.page /\ saving'.config = saving.config
         /\ saving'.step = step
BY DEF TypeOK, Proceed

LEMMA BackUpC == ASSUME CInv, BackUp PROVE CInv'
<1>1. /\ saving.page # Nobody /\ saving.step = "backup" /\ up
      /\ backup' = saved /\ durable' = file /\ linked' = TRUE /\ hasty' = FALSE
      /\ UNCHANGED <<file, flushed, up, saved, active, restarting, closing, form, answer,
                     acked, faults>>
  BY DEF BackUp, At, memory
<1>2. /\ saving' \in [page : Pages \cup {Nobody}, config : Config, step : Steps]
      /\ saving'.page = saving.page /\ saving'.config = saving.config
      /\ saving'.step = "write"
  BY ProceedC DEF BackUp, CInv, Steps
<1>3. TypeOK'
  BY <1>1, <1>2 DEF CInv, TypeOK
<1>4. saved \in Config /\ file \in Config /\ saved.revision \in Int /\ file.revision \in Int
  BY DEF CInv, TypeOK, Config
<1>5. DiskInv'
  <2>1. BackedUp(file)' /\ BackedUp(durable)'
    BY <1>1, <1>4 DEF CInv, MemoryInv, BackedUp
  <2> QED BY <1>1, <2>1 DEF CInv, DiskInv, Covers
<1>6. MemoryInv'
  BY <1>1 DEF CInv, MemoryInv, Covers
<1>7. SavingInv'
  BY <1>1, <1>2 DEF CInv, SavingInv
<1> QED BY <1>3, <1>5, <1>6, <1>7 DEF CInv

LEMMA WriteTempC == ASSUME CInv, WriteTemp PROVE CInv'
<1>1. /\ saving.page # Nobody /\ saving.step = "write" /\ up
      /\ UNCHANGED <<file, flushed, durable, linked, backup, up, saved, active, restarting,
                     closing, form, answer, acked, hasty, faults>>
  BY DEF WriteTemp, At, memory, disk, reports
<1>2. /\ saving' \in [page : Pages \cup {Nobody}, config : Config, step : Steps]
      /\ saving'.page = saving.page /\ saving'.config = saving.config
      /\ saving'.step = "rename"
  BY ProceedC DEF WriteTemp, CInv, Steps
<1>3. TypeOK'
  BY <1>1, <1>2 DEF CInv, TypeOK
<1>4. DiskInv' /\ MemoryInv'
  BY <1>1 DEF CInv, DiskInv, MemoryInv, Covers, BackedUp
<1>5. SavingInv'
  BY <1>1, <1>2 DEF CInv, SavingInv
<1> QED BY <1>3, <1>4, <1>5 DEF CInv

(* The renamed file succeeds the saved configuration, which is backed up. *)
LEMMA RenameC == ASSUME CInv, Rename PROVE CInv'
<1>1. /\ saving.page # Nobody /\ saving.step = "rename" /\ up
      /\ file' = saving.config /\ linked' = FALSE /\ flushed' = TRUE
      /\ UNCHANGED <<durable, backup, up, saved, active, restarting, closing, form, answer,
                     acked, hasty, faults>>
  BY DEF Rename, At, memory, reports
<1>2. /\ saving' \in [page : Pages \cup {Nobody}, config : Config, step : Steps]
      /\ saving'.page = saving.page /\ saving'.config = saving.config
      /\ saving'.step = "sync"
  BY ProceedC DEF Rename, CInv, Steps
<1>3. /\ saving.config \in Config /\ saved \in Config /\ acked \in Config
      /\ saved.revision \in Int /\ acked.revision \in Int
      /\ saving.config.revision = saved.revision + 1 /\ saving.config.value \in Valid
      /\ backup = saved
  BY <1>1 DEF CInv, TypeOK, SavingInv, Config
<1>4. TypeOK'
  BY <1>1, <1>2, <1>3 DEF CInv, TypeOK
<1>5. Covers(saved)
  BY <1>1 DEF CInv, MemoryInv
<1>6. Covers(file)' /\ BackedUp(file)'
  BY <1>1, <1>3, <1>5 DEF Covers, BackedUp
<1>7. DiskInv'
  BY <1>1, <1>3, <1>6 DEF CInv, DiskInv, Covers, BackedUp
<1>8. MemoryInv'
  BY <1>1, <1>3, <1>5 DEF MemoryInv, Covers
<1>9. SavingInv'
  BY <1>1, <1>2, <1>3 DEF SavingInv
<1> QED BY <1>4, <1>7, <1>8, <1>9 DEF CInv

LEMMA FinishC == ASSUME CInv, Finish PROVE CInv'
<1>1. /\ saving.page # Nobody /\ saving.step = "sync" /\ up /\ saving' = Free
      /\ durable' = file /\ linked' = TRUE /\ hasty' = FALSE
      /\ saved' = saving.config /\ acked' = saving.config
      /\ answer' = [answer EXCEPT ![saving.page] = "ok"]
      /\ UNCHANGED <<file, flushed, backup, active, restarting, closing, up, form, faults>>
  BY DEF Finish, At
<1>2. file = saving.config /\ file \in Config
  BY <1>1 DEF CInv, TypeOK, SavingInv
<1>3. TypeOK'
  BY <1>1, <1>2, FreeSaving DEF CInv, TypeOK
<1>4. DiskInv' /\ MemoryInv'
  BY <1>1, <1>2 DEF CInv, DiskInv, MemoryInv, Covers, BackedUp
<1>5. SavingInv'
  BY <1>1, FreeSaving DEF SavingInv
<1> QED BY <1>3, <1>4, <1>5 DEF CInv

(* The end of a process, however it came about and whatever file is left. *)
LEMMA DownC ==
  ASSUME CInv, Down, UNCHANGED backup, faults' \in 0..MaxFaults, flushed' = TRUE,
         \/ UNCHANGED <<file, durable, linked, acked, hasty>>
         \/ /\ file' \in {file, durable} /\ durable' = file' /\ linked' = TRUE
            /\ IF hasty THEN file' = durable /\ acked' = durable ELSE acked' = acked
            /\ hasty' = FALSE
  PROVE  CInv'
<1>1. /\ up' = FALSE /\ restarting' = FALSE /\ closing' = FALSE /\ saving' = Free
      /\ answer' = [p \in Pages |-> NoAnswer]
      /\ UNCHANGED <<saved, active, form>>
  BY DEF Down
<1>2. /\ file' \in Config /\ durable' \in Config /\ linked' \in BOOLEAN
      /\ acked' \in Config /\ hasty' \in BOOLEAN
  BY DEF CInv, TypeOK
<1>3. TypeOK'
  BY <1>1, <1>2, FreeSaving DEF CInv, TypeOK
<1>4. DiskInv'
  BY <1>1 DEF CInv, DiskInv, Covers, BackedUp
<1>5. MemoryInv' /\ SavingInv'
  BY <1>1, FreeSaving DEF MemoryInv, SavingInv
<1> QED BY <1>3, <1>4, <1>5 DEF CInv

LEMMA OpenC == ASSUME CInv, Open PROVE CInv'
<1>1. /\ ~up /\ up' = TRUE /\ saved' = file /\ active' = file
      /\ UNCHANGED <<file, flushed, durable, linked, backup, restarting, closing, saving,
                     form, answer, acked, hasty, faults>>
  BY DEF Open, disk, reports
<1>2. TypeOK'
  BY <1>1 DEF CInv, TypeOK
<1>3. DiskInv' /\ MemoryInv'
  BY <1>1 DEF CInv, DiskInv, MemoryInv, Covers, BackedUp
<1>4. SavingInv'
  BY <1>1 DEF CInv, SavingInv
<1> QED BY <1>2, <1>3, <1>4 DEF CInv

LEMMA WriteBackC == ASSUME CInv, WriteBack PROVE CInv'
<1>1. /\ linked' = TRUE /\ flushed' = TRUE /\ durable' = file /\ hasty' = FALSE
      /\ UNCHANGED <<file, backup, up, saved, active, restarting, closing, saving, form,
                     answer, acked, faults>>
  BY DEF WriteBack, memory
<1>2. TypeOK'
  BY <1>1 DEF CInv, TypeOK
<1>3. DiskInv' /\ MemoryInv'
  BY <1>1 DEF CInv, DiskInv, MemoryInv, Covers, BackedUp
<1>4. SavingInv'
  BY <1>1 DEF CInv, SavingInv
<1> QED BY <1>2, <1>3, <1>4 DEF CInv

(* The steps of pages and of the handler around a Save, and a failing one. *)
LEMMA QuietC ==
  ASSUME CInv,
         \/ \E p \in Pages : LoadBot(p) \/ Respond(p)
         \/ SaveFails \/ AskRestart \/ Signal \/ UNCHANGED vars
  PROVE  CInv'
<1>1. /\ saved \in Config /\ saved.revision \in 0..MaxRevision
      /\ form \in [Pages -> 0..MaxRevision]
      /\ answer \in [Pages -> {NoAnswer, "ok", "refused"}]
  BY DEF CInv, TypeOK, Config
<1>2. ASSUME NEW p \in Pages, LoadBot(p) PROVE CInv'
  <2>1. form' \in [Pages -> 0..MaxRevision]
        /\ UNCHANGED <<disk, up, memory, saving, answer, reports, faults>>
    BY <1>1, <1>2 DEF LoadBot
  <2>2. TypeOK'
    BY <2>1 DEF CInv, TypeOK, disk, memory, reports
  <2> QED BY <2>1, <2>2, StillC DEF memory
<1>3. ASSUME NEW p \in Pages, Respond(p) PROVE CInv'
  <2>1. /\ form' \in [Pages -> 0..MaxRevision]
        /\ answer' \in [Pages -> {NoAnswer, "ok", "refused"}]
        /\ UNCHANGED <<disk, up, saved, active, closing, saving, reports, faults>>
    BY <1>1, <1>3 DEF Respond
  <2>2. restarting' \in BOOLEAN
    BY <1>3 DEF Respond, RestartWanted, CInv, TypeOK
  <2>3. TypeOK'
    BY <2>1, <2>2 DEF CInv, TypeOK, disk, reports
  <2> QED BY <2>1, <2>3, StillC
<1>4. CASE SaveFails
  <2>1. /\ answer' \in [Pages -> {NoAnswer, "ok", "refused"}]
        /\ saving' = Free /\ UNCHANGED <<disk, up, memory, form, reports>>
    BY <1>1, <1>4 DEF SaveFails
  <2>2. faults' \in 0..MaxFaults
    BY <1>4, ConfigAssumption DEF SaveFails, CInv, TypeOK
  <2>3. TypeOK'
    BY <2>1, <2>2, FreeSaving DEF CInv, TypeOK, disk, memory, reports
  <2> QED BY <2>1, <2>3, StillC DEF memory
<1>5. CASE AskRestart \/ Signal \/ UNCHANGED vars
  <2>1. /\ restarting' \in BOOLEAN /\ closing' \in BOOLEAN
        /\ UNCHANGED <<disk, up, saved, active, saving, form, answer, reports, faults>>
    BY <1>5 DEF AskRestart, Signal, vars, memory, CInv, TypeOK
  <2>2. TypeOK'
    BY <2>1 DEF CInv, TypeOK, disk, reports
  <2> QED BY <2>1, <2>2, StillC
<1> QED BY <1>2, <1>3, <1>4, <1>5

LEMMA NextC == ASSUME CInv, [Next]_vars PROVE CInv'
<1>1. ASSUME NEW p \in Pages, NEW v \in Values, Save(p, v) PROVE CInv'
  BY <1>1, SaveC
<1>2. CASE BackUp \/ WriteTemp \/ Rename \/ Finish
  BY <1>2, BackUpC, WriteTempC, RenameC, FinishC
<1>3. CASE Exit \/ Kill
  <2>1. Down /\ UNCHANGED <<backup, file, durable, linked, flushed, acked, hasty>>
    BY <1>3 DEF Exit, Kill, disk, reports
  <2>2. faults' \in 0..MaxFaults
    BY <1>3, ConfigAssumption DEF Exit, Kill, CInv, TypeOK
  <2>3. flushed' = TRUE
    BY <2>1 DEF CInv, DiskInv, TypeOK
  <2> QED BY <2>1, <2>2, <2>3, DownC
<1>4. CASE PowerLoss
  <2>1. flushed
    BY DEF CInv, DiskInv
  <2>2. /\ Down /\ UNCHANGED backup /\ flushed' = TRUE /\ linked' = TRUE
        /\ file' \in {file, durable} /\ durable' = file'
        /\ acked' = (IF hasty THEN durable ELSE acked) /\ hasty' = FALSE
    BY <1>4, <2>1 DEF PowerLoss
  <2>4. hasty => file' = durable
    BY <1>4, <2>1 DEF PowerLoss, CInv, DiskInv
  <2>3. faults' \in 0..MaxFaults
    BY <1>4, ConfigAssumption DEF PowerLoss, CInv, TypeOK
  <2> QED BY <2>2, <2>3, <2>4, DownC
<1>5. CASE WriteBack \/ Open
  BY <1>5, WriteBackC, OpenC
<1> QED BY <1>1, <1>2, <1>3, <1>4, <1>5, QuietC DEF Next

-----------------------------------------------------------------------------
(* Theorems *)

(* The settings file can always be opened: AtomicWrite leaves no part of a *)
(* file behind (internal/runtimeconfig/store.go:130-157).                  *)
THEOREM FileNeverTorn == Spec => []NeverTorn
<1>1. CInv => NeverTorn
  BY DEF CInv, DiskInv, NeverTorn, TypeOK, Config, Torn
<1>2. CInv /\ [Next]_vars => CInv'
  BY NextC
<1> QED BY <1>1, <1>2, InitC, PTL DEF Spec

(* What Save reported, having written it or found it saved, is still there *)
(* after any kill and any loss of power, unless something later has        *)
(* replaced it or the report was made, after a restart, before the         *)
(* directory was synced.                                                   *)
THEOREM WrittenStays == Spec => []WrittenIsDurable
<1>1. CInv => WrittenIsDurable
  BY DEF CInv, DiskInv, WrittenIsDurable, Covers
<1>2. CInv /\ [Next]_vars => CInv'
  BY NextC
<1> QED BY <1>1, <1>2, InitC, PTL DEF Spec

(* The .bak file is the present configuration or the one before it.        *)
THEOREM BackupFollows == Spec => []BackupIsPredecessor
<1>1. CInv => BackupIsPredecessor
  BY DEF CInv, DiskInv, BackupIsPredecessor, BackedUp
<1>2. CInv /\ [Next]_vars => CInv'
  BY NextC
<1> QED BY <1>1, <1>2, InitC, PTL DEF Spec
=============================================================================
