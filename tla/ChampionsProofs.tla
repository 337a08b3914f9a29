-------------------------- MODULE ChampionsProofs ---------------------------
(***************************************************************************)
(* Proofs about the champion catalogue, for any numbers of versions, of    *)
(* champions, of workers and of faults.                                    *)
(***************************************************************************)
EXTENDS Champions, FiniteSetTheorems, TLAPS

-----------------------------------------------------------------------------
(* The inductive invariant *)

(* A list is shown only when it is on the disk, a job is about a list at   *)
(* least as new as that on the disk, and there is none newer than Riot's.  *)
Ordered ==
  /\ shown <= file /\ file <= released
  /\ step \in {"data", "images", "save", "publish"}
       => target \in Versions /\ file <= target /\ target <= released
  /\ step = "publish" => file = target

Busy == { w \in Workers : worker[w].stage \in {"get", "write", "report"} }
Done == { w \in Workers : worker[w].stage = "done" }

(* A champion of the list is in the channel, has a worker or a portrait.   *)
InHand(c) ==
  \/ c \in jobs \/ <<target, c>> \in images
  \/ \E w \in Busy : worker[w].champion = c

(* While nothing has gone wrong no champion is forgotten, and a worker     *)
(* stops only when the channel is empty.                                   *)
JobOK ==
  /\ step \in {"versions", "data"} => worker = [w \in Workers |-> Free] /\ errs = 0
  /\ step = "images" /\ ~cancelled =>
       /\ \A c \in Catalogue[target] : InHand(c)
       /\ Done # {} => jobs = {}
  /\ step \in {"save", "publish"} => Complete(target)

(* Every error in the channel is of a worker that has stopped, and of a    *)
(* champion that nobody else has taken.                                    *)
RoomOK ==
  /\ errs <= Cardinality(Done)
  /\ step = "images" =>
       /\ jobs \subseteq Catalogue[target]
       /\ Cardinality(jobs) + errs + Cardinality(Busy) <= Cardinality(Catalogue[target])

CInv == /\ TypeOK /\ Ordered /\ JobOK /\ RoomOK
        /\ Complete(shown) /\ Complete(file)

-----------------------------------------------------------------------------
(* Versions, and the sets that are counted *)

(* Versions count from 1, and no list is older than all of them. *)
LEMMA VersionsAreNumbers ==
  NoList = 0 /\ 1 \in Versions /\ \A v \in Versions : v \in Nat \ {0}
<1>1. IsFiniteSet(Versions) /\ Versions # {} /\ Versions = 1..Cardinality(Versions)
  BY ChampionsAssumption
<1>2. Cardinality(Versions) \in Nat
  BY <1>1, FS_CardinalityType
<1> DEFINE n == Cardinality(Versions)
<1>3. Versions = 1..n /\ n \in Nat
  BY <1>1, <1>2
<1> HIDE DEF n
<1> QED BY <1>1, <1>3 DEF NoList

(* A worker always names some champion, its last one when it has none. *)
LEMMA SomeChampion == Champion # {} /\ Free.champion \in Champion /\ Free.stage = "free"
<1>1. 1 \in Versions /\ Catalogue[1] # {}
  BY VersionsAreNumbers, ChampionsAssumption
<1>2. Champion # {}
  BY <1>1 DEF Champion
<1> QED BY <1>2 DEF Free

(* Sets of workers can be counted. *)
LEMMA Counted ==
  ASSUME NEW S \in SUBSET Workers
  PROVE  IsFiniteSet(S) /\ Cardinality(S) \in Nat /\ Cardinality(S) <= Cardinality(Workers)
         /\ Cardinality(Workers) \in Nat
BY ChampionsAssumption, FS_Subset, FS_CardinalityType

(* So can the champions of a list. *)
LEMMA ListsAreFinite ==
  ASSUME NEW v \in Versions
  PROVE  IsFiniteSet(Catalogue[v]) /\ Cardinality(Catalogue[v]) \in Nat
BY ChampionsAssumption, FS_CardinalityType

(* One worker takes up a champion, puts it down, or stops. *)
LEMMA Joining ==
  ASSUME NEW S \in SUBSET Workers, NEW w \in Workers
  PROVE  /\ Cardinality(S \cup {w}) = IF w \in S THEN Cardinality(S) ELSE Cardinality(S) + 1
         /\ Cardinality(S \ {w}) = IF w \in S THEN Cardinality(S) - 1 ELSE Cardinality(S)
BY Counted, FS_AddElement, FS_RemoveElement

-----------------------------------------------------------------------------
(* What the steps do *)

(* A worker's step changes its own stage. *)
LEMMA StageMoves ==
  ASSUME TypeOK, NEW w \in Workers, NEW s \in {"free", "get", "write", "report", "done"},
         Goes(w, s)
  PROVE  /\ worker' \in [Workers -> [stage : {"free", "get", "write", "report", "done"},
                                     champion : Champion]]
         /\ worker'[w].stage = s /\ worker'[w].champion = worker[w].champion
         /\ \A v \in Workers \ {w} : worker'[v] = worker[v]
BY DEF TypeOK, Goes

(* A list stays complete: portraits are never removed. *)
LEMMA StaysComplete ==
  ASSUME images \subseteq images', NEW v, Complete(v) PROVE Complete(v)'
BY DEF Complete, NoList

(* The job has ended, or begins with nothing in hand. *)
LEMMA AtRest ==
  ASSUME TypeOK, Ordered, JobOK, RoomOK,
         step' \in {"idle", "versions", "end", "unlock"},
         \/ UNCHANGED <<worker, errs>> /\ step' # "versions"
         \/ NewJob,
         shown' <= file', file' <= released'
  PROVE  Ordered' /\ JobOK' /\ RoomOK' /\ errs' \in 0..Cardinality(Workers)
<1>1. Done \in SUBSET Workers /\ Done' \in SUBSET Workers
  BY DEF Done
<1>2. /\ Cardinality(Done) \in Nat /\ Cardinality(Done) <= Cardinality(Workers)
      /\ Cardinality(Done') \in Nat /\ Cardinality(Workers) \in Nat
  BY <1>1, Counted
<1>3. errs \in Nat /\ errs <= Cardinality(Done)
  BY <1>2 DEF TypeOK, RoomOK
<1>4. errs' \in Nat /\ errs' <= Cardinality(Done')
  BY <1>2, <1>3 DEF NewJob, Done
<1>5. errs' \in 0..Cardinality(Workers)
  BY <1>1, <1>2, <1>3 DEF NewJob
<1>6. Ordered'
  BY DEF Ordered
<1>7. JobOK'
  BY DEF JobOK, NewJob
<1>8. RoomOK'
  BY <1>4 DEF RoomOK
<1> QED BY <1>5, <1>6, <1>7, <1>8
-----------------------------------------------------------------------------
(* The invariant, step by step *)

(* A click, the end of a job, a failure, a process that dies. *)
LEMMA RestingSteps ==
  ASSUME CInv, StartRefresh \/ GetFails \/ End \/ Unlock \/ Restart
  PROVE  CInv'
<1>1. TypeOK /\ Ordered /\ JobOK /\ RoomOK /\ Complete(shown) /\ Complete(file)
  BY DEF CInv
<1>2. released \in Nat /\ file \in Nat /\ shown \in Nat
  BY <1>1, VersionsAreNumbers DEF TypeOK
<1>3. /\ images' = images /\ released' = released /\ file' = file
      /\ shown' \in {shown, file}
      /\ step' \in {"idle", "versions", "end", "unlock"}
      /\ (UNCHANGED <<worker, errs>> /\ step' # "versions") \/ NewJob
  BY DEF StartRefresh, GetFails, End, Unlock, Restart, Abandon, Fault, cache, job
<1>4. shown' <= file' /\ file' <= released'
  BY <1>1, <1>2, <1>3 DEF Ordered
<1>5. Ordered' /\ JobOK' /\ RoomOK' /\ errs' \in 0..Cardinality(Workers)
  BY <1>1, <1>3, <1>4, AtRest
<1>6. Free \in [stage : {"free", "get", "write", "report", "done"}, champion : Champion]
  BY SomeChampion DEF Free
<1>7. TypeOK'
  <2>1. /\ released' \in Versions /\ images' \subseteq Versions \X Champion
        /\ file' \in Versions \cup {NoList} /\ shown' \in Versions \cup {NoList}
    BY <1>1, <1>3 DEF TypeOK
  <2>2. refreshing' \in BOOLEAN /\ (Fault \/ UNCHANGED faults)
    BY <1>1 DEF TypeOK, StartRefresh, GetFails, End, Unlock, Restart, Abandon
  <2>3. faults' \in 0..MaxFaults
    BY <1>1, <2>2, ChampionsAssumption DEF TypeOK, Fault
  <2>4. UNCHANGED job \/ NewJob
    BY DEF StartRefresh, GetFails, End, Unlock, Restart, Abandon
  <2>5. /\ target' \in Versions \cup {NoList} /\ jobs' \subseteq Champion
        /\ cancelled' \in BOOLEAN
        /\ worker' \in [Workers -> [stage : {"free", "get", "write", "report", "done"},
                                   champion : Champion]]
    BY <1>1, <1>6, <2>4 DEF TypeOK, NewJob, job
  <2> QED BY <1>3, <1>5, <2>1, <2>2, <2>3, <2>5 DEF TypeOK
<1>8. Complete(shown)' /\ Complete(file)'
  BY <1>1, <1>3 DEF Complete
<1> QED BY <1>5, <1>7, <1>8 DEF CInv

(* The list is written, perhaps in vain, and shown. *)
LEMMA ListSteps == ASSUME CInv, Save \/ SaveFails \/ Publish PROVE CInv'
<1>1. TypeOK /\ Ordered /\ JobOK /\ RoomOK /\ Complete(shown) /\ Complete(file)
  BY DEF CInv
<1>2. /\ step \in {"save", "publish"} /\ target \in Versions
      /\ file <= target /\ target <= released /\ Complete(target)
  BY <1>1 DEF Save, SaveFails, Publish, Ordered, JobOK
<1>3. /\ released \in Nat /\ file \in Nat /\ shown \in Nat /\ target \in Nat
      /\ shown <= file /\ file <= released
  BY <1>1, <1>2, VersionsAreNumbers DEF TypeOK, Ordered
<1>4. /\ UNCHANGED <<released, images, job, refreshing>>
      /\ file' \in {file, target} /\ shown' \in {shown, target}
  BY DEF Save, SaveFails, Publish, Abandon, cache, Fault
<1>5. Complete(shown)' /\ Complete(file)'
  BY <1>1, <1>2, <1>4 DEF Complete
<1>6. CASE Save
  <2>1. step' = "publish" /\ file' = target /\ shown' = shown /\ faults' = faults
    BY <1>6 DEF Save
  <2>2. TypeOK'
    BY <1>1, <1>2, <1>4, <2>1 DEF TypeOK, job
  <2>3. Ordered'
    BY <1>2, <1>3, <1>4, <2>1 DEF Ordered, job
  <2>4. JobOK' /\ RoomOK'
    BY <1>1, <1>2, <1>4, <2>1 DEF JobOK, RoomOK, Done, Complete, job
  <2> QED BY <1>5, <2>2, <2>3, <2>4 DEF CInv
<1>7. CASE SaveFails \/ Publish
  <2>1. /\ step' = "end" /\ UNCHANGED <<worker, errs>>
        /\ shown' <= file' /\ file' <= released'
    BY <1>2, <1>3, <1>4, <1>7, <1>1 DEF SaveFails, Publish, Abandon, cache, job, Ordered
  <2>2. Ordered' /\ JobOK' /\ RoomOK' /\ errs' \in 0..Cardinality(Workers)
    BY <1>1, <2>1, AtRest
  <2>3. faults' \in 0..MaxFaults
    BY <1>1, <1>7, ChampionsAssumption DEF TypeOK, SaveFails, Publish, Fault
  <2>4. TypeOK'
    BY <1>1, <1>2, <1>4, <2>1, <2>3 DEF TypeOK, job
  <2> QED BY <1>5, <2>2, <2>4 DEF CInv
<1> QED BY <1>6, <1>7

(* Riot releases a version; the time is over. *)
LEMMA OutsideSteps == ASSUME CInv, Release \/ Timeout PROVE CInv'
<1>1. TypeOK /\ Ordered /\ JobOK /\ RoomOK /\ Complete(shown) /\ Complete(file)
  BY DEF CInv
<1>2. /\ UNCHANGED <<cache, shown, refreshing, step, target, jobs, worker, errs, faults>>
      /\ released' = released \/ (released' = released + 1 /\ released' \in Versions)
      /\ cancelled' = cancelled \/ cancelled' = TRUE
  BY DEF Release, Timeout, job
<1>3. TypeOK'
  BY <1>1, <1>2 DEF TypeOK, cache
<1>4. Ordered'
  <2>1. released \in Nat /\ file \in Nat /\ (target \in Versions => target \in Nat)
    BY <1>1, VersionsAreNumbers DEF TypeOK
  <2> QED BY <1>1, <1>2, <2>1 DEF Ordered, cache
<1>5. JobOK' /\ RoomOK'
  BY <1>1, <1>2 DEF JobOK, RoomOK, Done, Busy, InHand, Complete, cache
<1>6. Complete(shown)' /\ Complete(file)'
  BY <1>1, <1>2 DEF Complete, cache
<1> QED BY <1>3, <1>4, <1>5, <1>6 DEF CInv

(* The job learns the newest version, its champions, and their number. *)
LEMMA DownloadSteps == ASSUME CInv, GetVersion \/ GetData PROVE CInv'
<1>1. TypeOK /\ Ordered /\ JobOK /\ RoomOK /\ Complete(shown) /\ Complete(file)
  BY DEF CInv
<1>2. UNCHANGED <<released, cache, shown, refreshing, worker, errs, cancelled, faults>>
  BY DEF GetVersion, GetData
<1>3. worker = [w \in Workers |-> Free] /\ errs = 0
  BY <1>1 DEF JobOK, GetVersion, GetData
<1>4. Done = {} /\ Busy = {} /\ Done' = {} /\ Busy' = {} /\ Cardinality({}) = 0
  BY <1>2, <1>3, SomeChampion, FS_EmptySet DEF Done, Busy
<1>5. Complete(shown)' /\ Complete(file)'
  BY <1>1, <1>2 DEF Complete, cache
<1>6. CASE GetVersion
  <2>1. step' = "data" /\ target' = released /\ jobs' = jobs
    BY <1>6 DEF GetVersion
  <2>2. TypeOK'
    BY <1>1, <1>2, <2>1 DEF TypeOK, cache
  <2>3. Ordered'
    <3>1. released \in Nat /\ released \in Versions
      BY <1>1, VersionsAreNumbers DEF TypeOK
    <3> QED BY <1>1, <1>2, <2>1, <3>1 DEF Ordered, cache
  <2>4. JobOK' /\ RoomOK'
    BY <1>2, <1>3, <1>4, <2>1 DEF JobOK, RoomOK
  <2> QED BY <1>5, <2>2, <2>3, <2>4 DEF CInv
<1>7. CASE GetData
  <2>1. step = "data" /\ step' = "images" /\ target' = target /\ jobs' = Catalogue[target]
    BY <1>7 DEF GetData
  <2>2. target \in Versions
    BY <1>1, <2>1 DEF Ordered
  <2>3. TypeOK'
    BY <1>1, <1>2, <2>1, <2>2 DEF TypeOK, cache, Champion
  <2>4. Ordered'
    BY <1>1, <1>2, <2>1 DEF Ordered, cache
  <2>5. JobOK'
    BY <1>2, <1>3, <1>4, <2>1 DEF JobOK, InHand
  <2>6. RoomOK'
    BY <1>2, <1>3, <1>4, <2>1, <2>2, ListsAreFinite DEF RoomOK
  <2> QED BY <1>5, <2>3, <2>4, <2>5, <2>6 DEF CInv
<1> QED BY <1>6, <1>7

(* The job goes on only if every champion has its portrait. *)
LEMMA JoinStep == ASSUME CInv, Join PROVE CInv'
<1>1. TypeOK /\ Ordered /\ JobOK /\ RoomOK /\ Complete(shown) /\ Complete(file)
  BY DEF CInv
<1>2. /\ step = "images" /\ \A w \in Workers : worker[w].stage = "done"
      /\ UNCHANGED <<released, images, file, shown, refreshing, job, faults>>
  BY DEF Join, Abandon
<1>3. CASE JoinedWell
  <2>1. step' = "save" /\ ~cancelled
    BY <1>3 DEF Join, JoinedWell
  <2>2. Busy = {} /\ Done # {}
    BY <1>2, ChampionsAssumption DEF Busy, Done
  <2>3. Complete(target)
    BY <1>1, <1>2, <2>1, <2>2 DEF JobOK, InHand, Complete
  <2>4. TypeOK' /\ Ordered' /\ RoomOK'
    BY <1>1, <1>2, <2>1 DEF TypeOK, Ordered, RoomOK, Done, job
  <2>5. JobOK'
    BY <1>2, <2>1, <2>3 DEF JobOK, Complete, job
  <2>6. Complete(shown)' /\ Complete(file)'
    BY <1>1, <1>2 DEF Complete
  <2> QED BY <2>4, <2>5, <2>6 DEF CInv
<1>4. CASE ~JoinedWell
  <2>1. step' = "end" /\ UNCHANGED <<worker, errs>>
    BY <1>2, <1>4 DEF Join, Abandon, job
  <2>2. shown' <= file' /\ file' <= released'
    BY <1>1, <1>2 DEF Ordered
  <2>3. Ordered' /\ JobOK' /\ RoomOK'
    BY <1>1, <2>1, <2>2, AtRest
  <2>4. TypeOK'
    BY <1>1, <1>2, <2>1 DEF TypeOK, job
  <2>5. Complete(shown)' /\ Complete(file)'
    BY <1>1, <1>2 DEF Complete
  <2> QED BY <2>3, <2>4, <2>5 DEF CInv
<1> QED BY <1>3, <1>4

-----------------------------------------------------------------------------
(* The workers *)

(* A step of a worker: what it does to the channel, the portraits and the  *)
(* errors leaves no champion out and no error without room.                *)
LEMMA WorkerStep ==
  ASSUME CInv, TypeOK', step = "images", RoomOK', JobOK',
         images \subseteq images', UNCHANGED <<released, file, shown, step, target>>
  PROVE  CInv'
<1>1. Ordered'
  BY DEF CInv, Ordered
<1>2. Complete(shown)' /\ Complete(file)'
  BY DEF CInv, Complete, NoList
<1> QED BY <1>1, <1>2 DEF CInv
(* A worker finds a portrait, needs one, or stops. *)
LEMMA TakeStep == ASSUME CInv, NEW w \in Workers, Take(w) PROVE CInv'
<1>1. TypeOK /\ JobOK /\ RoomOK /\ target \in Versions /\ step = "images"
  BY DEF CInv, Ordered, Take, At
<1>2. /\ UNCHANGED <<released, images, file, shown, refreshing, step, target, errs, cancelled,
                     faults>>
      /\ worker[w].stage = "free"
  BY DEF Take, At, cache
<1>3. /\ w \notin Busy /\ w \notin Done /\ Busy \in SUBSET Workers /\ Done \in SUBSET Workers
      /\ Cardinality(Busy) \in Nat /\ Cardinality(Done) \in Nat
  BY <1>2, Counted DEF Busy, Done
<1>4. errs \in Nat /\ errs <= Cardinality(Done) /\ Cardinality(Workers) \in Nat
  BY <1>1, <1>3, Counted DEF TypeOK, RoomOK
<1>5. /\ jobs \subseteq Catalogue[target] /\ IsFiniteSet(jobs) /\ Cardinality(jobs) \in Nat
      /\ Cardinality(jobs) + errs + Cardinality(Busy) <= Cardinality(Catalogue[target])
      /\ Cardinality(Catalogue[target]) \in Nat
  BY <1>1, ListsAreFinite, FS_Subset, FS_CardinalityType DEF RoomOK
<1>6. CASE jobs = {} /\ Goes(w, "done") /\ UNCHANGED jobs
  <2>1. /\ worker' \in [Workers -> [stage : {"free", "get", "write", "report", "done"},
                                    champion : Champion]]
        /\ worker'[w].stage = "done" /\ \A v \in Workers \ {w} : worker'[v] = worker[v]
    BY <1>1, <1>6, StageMoves
  <2>2. Busy' = Busy /\ Done' = Done \cup {w}
    BY <1>3, <2>1 DEF Busy, Done
  <2>3. Cardinality(Done') = Cardinality(Done) + 1
    BY <1>3, <2>2, Joining
  <2>4. TypeOK'
    BY <1>1, <1>2, <1>6, <2>1 DEF TypeOK
  <2>5. RoomOK'
    BY <1>1, <1>2, <1>3, <1>4, <1>5, <1>6, <2>2, <2>3 DEF RoomOK
  <2>6. \A v \in Busy : worker'[v] = worker[v]
    BY <1>3, <2>1
  <2>7. JobOK'
    BY <1>1, <1>2, <1>6, <2>2, <2>6 DEF JobOK, InHand
  <2> QED BY <1>1, <1>2, <2>4, <2>5, <2>7, WorkerStep
<1>7. ASSUME NEW c \in jobs, jobs' = jobs \ {c},
             worker' = [worker EXCEPT ![w] =
               [champion |-> c,
                stage |-> IF cancelled THEN "done"
                          ELSE IF <<target, c>> \in images THEN "free" ELSE "get"]]
      PROVE  CInv'
  <2> DEFINE st == IF cancelled THEN "done"
                   ELSE IF <<target, c>> \in images THEN "free" ELSE "get"
  <2>1. c \in Champion
    BY <1>1 DEF TypeOK
  <2>2. /\ worker' \in [Workers -> [stage : {"free", "get", "write", "report", "done"},
                                    champion : Champion]]
        /\ worker'[w].stage = st /\ worker'[w].champion = c
        /\ \A v \in Workers \ {w} : worker'[v] = worker[v]
    BY <1>1, <1>7, <2>1 DEF TypeOK
  <2>3. /\ st \in {"done", "free", "get"} /\ (st = "done" <=> cancelled)
        /\ (st = "free" => <<target, c>> \in images)
    BY DEF st
  <2> HIDE DEF st
  <2>4. /\ Busy' = IF st = "get" THEN Busy \cup {w} ELSE Busy
        /\ Done' = IF st = "done" THEN Done \cup {w} ELSE Done
    BY <1>3, <2>2, <2>3 DEF Busy, Done
  <2>5. /\ Cardinality(Busy') <= Cardinality(Busy) + 1 /\ Cardinality(Busy') \in Nat
        /\ Cardinality(Done') >= Cardinality(Done) /\ Cardinality(Done') \in Nat
    BY <1>3, <2>4, Joining, Counted
  <2>6. Cardinality(jobs') = Cardinality(jobs) - 1 /\ jobs' \subseteq jobs
    BY <1>5, <1>7, FS_RemoveElement
  <2>7. TypeOK'
    BY <1>1, <1>2, <2>2, <2>6 DEF TypeOK
  <2>8. RoomOK'
    <3>1. errs' = errs /\ errs' <= Cardinality(Done')
      BY <1>2, <1>3, <1>4, <2>5
    <3>2. jobs' \subseteq Catalogue[target]
      BY <1>5, <2>6
    <3>3. Cardinality(jobs') + errs + Cardinality(Busy') <= Cardinality(Catalogue[target])
      BY <1>3, <1>4, <1>5, <2>5, <2>6
    <3> QED BY <1>2, <3>1, <3>2, <3>3 DEF RoomOK
  <2>9. \A v \in Busy : v \in Busy' /\ worker'[v] = worker[v]
    BY <1>3, <2>2, <2>4
  <2>10. ASSUME ~cancelled PROVE Done = {} /\ Done' = {}
    BY <1>1, <1>7, <2>3, <2>4, <2>10 DEF JobOK
  <2>11. ASSUME ~cancelled, NEW d \in Catalogue[target] PROVE InHand(d)'
    <3>1. InHand(d)
      BY <1>1, <2>11 DEF JobOK
    <3>2. CASE d = c
      BY <1>2, <2>2, <2>3, <2>4, <2>11, <3>2 DEF InHand
    <3>3. CASE d # c
      BY <1>2, <1>7, <2>9, <3>1, <3>3 DEF InHand
    <3> QED BY <3>2, <3>3
  <2>12. JobOK'
    BY <1>1, <1>2, <2>10, <2>11 DEF JobOK
  <2> QED BY <1>1, <1>2, <2>7, <2>8, <2>12, WorkerStep
<1> QED BY <1>6, <1>7 DEF Take

(* A worker with a champion in hand gets on with it, or fails. *)
LEMMA BusySteps ==
  ASSUME CInv, NEW w \in Workers, GetImage(w) \/ WriteImage(w) \/ Report(w)
  PROVE  CInv'
<1>1. TypeOK /\ JobOK /\ RoomOK /\ target \in Versions /\ step = "images"
  BY DEF CInv, Ordered, GetImage, WriteImage, Report, At
<1>2. UNCHANGED <<released, file, shown, refreshing, step, target, jobs>>
  BY DEF GetImage, WriteImage, Report, cache
<1>3. /\ w \in Busy /\ w \notin Done /\ Busy \in SUBSET Workers /\ Done \in SUBSET Workers
      /\ Cardinality(Busy) \in Nat /\ Cardinality(Done) \in Nat /\ Cardinality(Workers) \in Nat
  BY Counted DEF Busy, Done, GetImage, WriteImage, Report, At
<1>4. /\ jobs \subseteq Catalogue[target] /\ Cardinality(jobs) \in Nat /\ errs \in Nat
      /\ Cardinality(jobs) + errs + Cardinality(Busy) <= Cardinality(Catalogue[target])
      /\ Cardinality(Catalogue[target]) \in Nat /\ errs <= Cardinality(Done)
  BY <1>1, <1>3, ListsAreFinite, FS_Subset, FS_CardinalityType DEF RoomOK, TypeOK
<1>5. worker[w].champion \in Champion /\ <<target, worker[w].champion>> \in Versions \X Champion
  BY <1>1 DEF TypeOK
<1>6. ASSUME NEW s \in {"write", "report"}, Goes(w, s), UNCHANGED <<images, errs, cancelled>>,
             faults' \in 0..MaxFaults
      PROVE  CInv'
  <2>1. /\ worker' \in [Workers -> [stage : {"free", "get", "write", "report", "done"},
                                    champion : Champion]]
        /\ worker'[w].stage = s /\ worker'[w].champion = worker[w].champion
        /\ \A v \in Workers \ {w} : worker'[v] = worker[v]
    BY <1>1, <1>6, StageMoves
  <2>2. /\ Busy' = Busy /\ Done' = Done
        /\ \A v \in Busy : worker'[v].champion = worker[v].champion
    BY <1>3, <2>1 DEF Busy, Done
  <2>3. TypeOK' /\ RoomOK'
    BY <1>1, <1>2, <1>6, <2>1, <2>2 DEF TypeOK, RoomOK
  <2>4. JobOK'
    BY <1>1, <1>2, <1>6, <2>2 DEF JobOK, InHand
  <2> QED BY <1>1, <1>2, <1>6, <2>3, <2>4, WorkerStep
<1>7. ASSUME images' = images \cup {<<target, worker[w].champion>>}, Goes(w, "free"),
             UNCHANGED <<errs, cancelled, faults>>
      PROVE  CInv'
  <2>1. /\ worker' \in [Workers -> [stage : {"free", "get", "write", "report", "done"},
                                    champion : Champion]]
        /\ worker'[w].stage = "free" /\ \A v \in Workers \ {w} : worker'[v] = worker[v]
    BY <1>1, <1>7, StageMoves
  <2>2. /\ Busy' = Busy \ {w} /\ Done' = Done
        /\ \A v \in Busy' : worker'[v] = worker[v]
    BY <1>3, <2>1 DEF Busy, Done
  <2>3. Cardinality(Busy') = Cardinality(Busy) - 1
    BY <1>3, <2>2, Joining
  <2>4. TypeOK'
    BY <1>1, <1>2, <1>5, <1>7, <2>1 DEF TypeOK
  <2>5. RoomOK'
    BY <1>2, <1>3, <1>4, <1>7, <2>2, <2>3 DEF RoomOK
  <2>6. ASSUME NEW d, InHand(d) PROVE InHand(d)'
    BY <1>2, <1>7, <2>2, <2>6 DEF InHand
  <2>7. JobOK'
    BY <1>1, <1>2, <1>7, <2>2, <2>6 DEF JobOK
  <2> QED BY <1>1, <1>2, <1>7, <2>4, <2>5, <2>7, WorkerStep
<1>8. ASSUME images' \in {images, images \cup {<<target, worker[w].champion>>}},
             Goes(w, "report"), Fault, UNCHANGED <<errs, cancelled>>
      PROVE  CInv'
  <2>1. /\ worker' \in [Workers -> [stage : {"free", "get", "write", "report", "done"},
                                    champion : Champion]]
        /\ worker'[w].stage = "report" /\ worker'[w].champion = worker[w].champion
        /\ \A v \in Workers \ {w} : worker'[v] = worker[v]
    BY <1>1, <1>8, StageMoves
  <2>2. /\ Busy' = Busy /\ Done' = Done
        /\ \A v \in Busy : worker'[v].champion = worker[v].champion
    BY <1>3, <2>1 DEF Busy, Done
  <2>3. TypeOK' /\ RoomOK'
    BY <1>1, <1>2, <1>5, <1>8, <2>1, <2>2, ChampionsAssumption DEF TypeOK, RoomOK, Fault
  <2>4. ASSUME NEW d, InHand(d) PROVE InHand(d)'
    BY <1>2, <1>8, <2>2, <2>4 DEF InHand
  <2>5. JobOK'
    BY <1>1, <1>2, <1>8, <2>2, <2>4 DEF JobOK
  <2> QED BY <1>1, <1>2, <1>8, <2>3, <2>5, WorkerStep
<1>9. ASSUME Report(w) PROVE CInv'
  <2>1. /\ errs' = errs + 1 /\ cancelled' = TRUE /\ Goes(w, "done")
        /\ UNCHANGED <<images, faults>>
    BY <1>9 DEF Report, cache
  <2>2. /\ worker' \in [Workers -> [stage : {"free", "get", "write", "report", "done"},
                                    champion : Champion]]
        /\ worker'[w].stage = "done" /\ \A v \in Workers \ {w} : worker'[v] = worker[v]
    BY <1>1, <2>1, StageMoves
  <2>3. Busy' = Busy \ {w} /\ Done' = Done \cup {w} /\ Done' \in SUBSET Workers
    BY <1>3, <2>2 DEF Busy, Done
  <2>4. /\ Cardinality(Busy') = Cardinality(Busy) - 1
        /\ Cardinality(Done') = Cardinality(Done) + 1
        /\ Cardinality(Done') <= Cardinality(Workers)
    BY <1>3, <2>3, Joining, Counted
  <2>5. RoomOK'
    BY <1>2, <1>3, <1>4, <2>1, <2>4 DEF RoomOK
  <2>6. errs' \in 0..Cardinality(Workers)
    BY <1>3, <1>4, <2>1, <2>4
  <2>7. TypeOK'
    BY <1>1, <1>2, <2>1, <2>2, <2>6 DEF TypeOK
  <2>8. JobOK'
    BY <1>1, <1>2, <2>1 DEF JobOK
  <2> QED BY <1>1, <1>2, <2>1, <2>5, <2>7, <2>8, WorkerStep
<1>10. CASE GetImage(w)
  <2>1. faults' \in 0..MaxFaults /\ UNCHANGED <<images, errs, cancelled>>
    BY <1>1, <1>10, ChampionsAssumption DEF GetImage, Fault, TypeOK, cache
  <2>2. Goes(w, "write") \/ Goes(w, "report")
    BY <1>10 DEF GetImage
  <2> QED BY <1>6, <2>1, <2>2
<1>11. CASE WriteImage(w)
  BY <1>7, <1>8, <1>11 DEF WriteImage
<1> QED BY <1>9, <1>10, <1>11

LEMMA InitCInv == Init => CInv
<1> SUFFICES ASSUME Init PROVE CInv
  OBVIOUS
<1>1. Free \in [stage : {"free", "get", "write", "report", "done"}, champion : Champion]
  BY SomeChampion DEF Free
<1>2. Cardinality(Workers) \in Nat /\ Done = {} /\ Cardinality({}) = 0
  BY SomeChampion, FS_EmptySet, Counted DEF Init, Done
<1>3. TypeOK
  <2>1. errs \in 0..Cardinality(Workers) /\ faults \in 0..MaxFaults
    BY <1>2, ChampionsAssumption DEF Init
  <2>2. worker \in [Workers -> [stage : {"free", "get", "write", "report", "done"},
                                champion : Champion]]
    BY <1>1 DEF Init
  <2>3. released \in Versions
    BY VersionsAreNumbers DEF Init
  <2> QED BY <2>1, <2>2, <2>3 DEF Init, TypeOK
<1>4. Ordered /\ JobOK /\ RoomOK
  BY <1>2 DEF Init, Ordered, JobOK, RoomOK, NoList
<1> QED BY <1>3, <1>4 DEF CInv, Init, Complete

LEMMA NextCInv == CInv /\ [Next]_vars => CInv'
<1> SUFFICES ASSUME CInv, [Next]_vars PROVE CInv'
  OBVIOUS
<1>1. CASE UNCHANGED vars
  BY <1>1 DEF CInv, TypeOK, Ordered, JobOK, RoomOK, Complete, InHand, Busy, Done, vars, cache, job
<1>2. CASE Next
  BY <1>2, RestingSteps, ListSteps, OutsideSteps, DownloadSteps, JoinStep, TakeStep, BusySteps
  DEF Next, JobStep
<1> QED BY <1>1, <1>2

-----------------------------------------------------------------------------
(* Theorems *)

(* Every champion of a list that is shown, or that a restart would show,   *)
(* has its portrait, however many workers share the work and whichever     *)
(* request, write or process fails (download and refreshLocked).           *)
THEOREM ListsAreComplete == Spec => []PublishedComplete
<1>1. CInv => PublishedComplete
  BY DEF CInv, PublishedComplete
<1> QED BY <1>1, InitCInv, NextCInv, PTL DEF Spec

(* No refresh, failure or restart replaces what is shown by an older list  *)
(* (refreshLocked and New).                                                *)
THEOREM ListsNeverGoBack == Spec => NeverGoesBack
<1>1. CInv /\ [Next]_vars => [shown' >= shown]_shown
  <2> SUFFICES ASSUME CInv, Publish \/ Restart PROVE shown' >= shown
    BY DEF Next, JobStep, vars, Release, StartRefresh, Timeout, GetVersion, GetData, GetFails,
           Join, Save, SaveFails, End, Unlock, Take, GetImage, WriteImage, Report, Abandon
  <2>1. shown \in Nat /\ file \in Nat
    BY VersionsAreNumbers DEF CInv, TypeOK
  <2> QED BY <2>1 DEF CInv, Ordered, Publish, Restart
<1> QED BY <1>1, InitCInv, NextCInv, PTL DEF Spec, NeverGoesBack

(* A worker that has failed always finds room for its error in the channel *)
(* nobody reads before all are done: it has one place per champion         *)
(* (service.go:192), and two errors are never about the same one.          *)
THEOREM ReportsFindRoom ==
  Spec => [](\A w \in Workers : At(w, "report") => errs < ErrorRoom)
<1> DEFINE Room == \A w \in Workers : At(w, "report") => errs < ErrorRoom
<1>1. CInv => Room
  <2> SUFFICES ASSUME CInv, NEW w \in Workers, At(w, "report") PROVE errs < ErrorRoom
    OBVIOUS
  <2>1. w \in Busy /\ Busy \in SUBSET Workers /\ target \in Versions /\ step = "images"
    BY DEF At, Busy, CInv, Ordered
  <2>2. Cardinality(Busy) \in Nat /\ Cardinality(Busy \ {w}) \in Nat
    <3>1. Busy \ {w} \in SUBSET Workers
      BY <2>1
    <3> QED BY <2>1, <3>1, Counted
  <2>3. Cardinality(Busy \ {w}) = Cardinality(Busy) - 1
    BY <2>1, Joining
  <2>4. /\ jobs \subseteq Catalogue[target] /\ Cardinality(Catalogue[target]) \in Nat
        /\ Cardinality(jobs) \in Nat
        /\ Cardinality(jobs) + errs + Cardinality(Busy) <= Cardinality(Catalogue[target])
    BY <2>1, ListsAreFinite, FS_Subset, FS_CardinalityType DEF CInv, RoomOK
  <2>5. errs \in Nat
    BY Counted DEF CInv, TypeOK
  <2> QED BY <2>2, <2>3, <2>4, <2>5 DEF ErrorRoom
<1> QED BY <1>1, InitCInv, NextCInv, PTL DEF Spec
=============================================================================
