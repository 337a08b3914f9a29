----------------------------- MODULE Champions ------------------------------
(***************************************************************************)
(* The champion catalogue (internal/champion/service.go): a background job *)
(* downloads the list of the newest version and, with several workers, the *)
(* portraits it has not yet; only then is the list written and shown.  The *)
(* job may fail at any step, run out of its five minutes, or die with the  *)
(* process.  A list is represented by its version.                         *)
(***************************************************************************)
EXTENDS Integers, FiniteSets

CONSTANTS
  Versions,      \* 1, 2, ... as Riot releases them
  Catalogue,     \* the champions of each version
  Workers,
  MaxFaults      \* bound of the model: failing requests, failing writes, restarts

ASSUME ChampionsAssumption ==
  /\ IsFiniteSet(Versions) /\ Versions # {} /\ Versions = 1..Cardinality(Versions)
  /\ \A v \in Versions : IsFiniteSet(Catalogue[v]) /\ Catalogue[v] # {}
  /\ IsFiniteSet(Workers) /\ Workers # {} /\ MaxFaults \in Nat

NoList == 0      \* no cached list

VARIABLES
  released,      \* at Riot: the newest version
  images,        \* portraits in the cache: <<version, champion>>
  file,          \* champions.json
  shown,         \* memory: the list that View returns
  refreshing,    \* memory: what View says about the job
  step,          \* the job; it holds the refresh mutex unless it is "idle"
  target,        \* the version being downloaded
  jobs,          \* the channel: champions no worker has taken yet
  worker,        \* by worker: [stage, champion]
  errs,          \* errors in their channel
  cancelled,     \* the context is over
  faults         \* bound of the model

cache == <<images, file>>
job   == <<target, jobs, worker, errs, cancelled>>
vars  == <<released, cache, shown, refreshing, step, job, faults>>

Champion == UNION { Catalogue[v] : v \in Versions }
Free     == [stage |-> "free", champion |-> CHOOSE c \in Champion : TRUE]

TypeOK ==
  /\ released \in Versions /\ images \subseteq Versions \X Champion
  /\ file \in Versions \cup {NoList} /\ shown \in Versions \cup {NoList}
  /\ refreshing \in BOOLEAN /\ cancelled \in BOOLEAN
  /\ step \in {"idle", "versions", "data", "images", "save", "publish", "end", "unlock"}
  /\ target \in Versions \cup {NoList} /\ jobs \subseteq Champion
  /\ worker \in [Workers -> [stage : {"free", "get", "write", "report", "done"},
                             champion : Champion]]
  /\ errs \in 0..Cardinality(Workers) /\ faults \in 0..MaxFaults

Init ==
  /\ released = 1 /\ images = {} /\ file = NoList /\ shown = NoList
  /\ refreshing = FALSE /\ step = "idle" /\ faults = 0
  /\ target = NoList /\ jobs = {} /\ errs = 0 /\ cancelled = FALSE
  /\ worker = [w \in Workers |-> Free]

NewJob ==
  /\ target' = NoList /\ jobs' = {} /\ errs' = 0 /\ cancelled' = FALSE
  /\ worker' = [w \in Workers |-> Free]

Release ==
  /\ released + 1 \in Versions /\ released' = released + 1
  /\ UNCHANGED <<cache, shown, refreshing, step, job, faults>>
-----------------------------------------------------------------------------
(* StartRefresh: a click while a job runs joins it. *)
StartRefresh ==
  /\ step = "idle" /\ step' = "versions" /\ refreshing' = TRUE
  /\ NewJob
  /\ UNCHANGED <<released, cache, shown, faults>>

(* The list shown before stays. *)
Abandon ==
  /\ step' = "end" /\ UNCHANGED <<released, images, shown, refreshing, job>>

Fault == faults < MaxFaults /\ faults' = faults + 1

GetVersion ==
  /\ step = "versions" /\ ~cancelled
  /\ target' = released /\ step' = "data"
  /\ UNCHANGED <<released, cache, shown, refreshing, jobs, worker, errs, cancelled, faults>>

GetData ==
  /\ step = "data" /\ ~cancelled
  /\ jobs' = Catalogue[target] /\ step' = "images"
  /\ UNCHANGED <<released, cache, shown, refreshing, target, worker, errs, cancelled, faults>>

(* A request fails, at once when the time is over; invalid data likewise. *)
GetFails ==
  /\ step \in {"versions", "data"}
  /\ Fault \/ (cancelled /\ UNCHANGED faults)
  /\ Abandon /\ UNCHANGED file

Timeout ==
  /\ step \in {"versions", "data", "images", "save", "publish"} /\ ~cancelled
  /\ cancelled' = TRUE
  /\ UNCHANGED <<released, cache, shown, refreshing, step, target, jobs, worker, errs, faults>>
-----------------------------------------------------------------------------
(* The workers. *)
At(w, stage) == step = "images" /\ worker[w].stage = stage

Goes(w, stage) == worker' = [worker EXCEPT ![w].stage = stage]

Take(w) ==
  /\ At(w, "free")
  /\ \/ jobs = {} /\ Goes(w, "done") /\ UNCHANGED jobs
     \/ \E c \in jobs :
          /\ jobs' = jobs \ {c}
          /\ worker' = [worker EXCEPT ![w] =
               [champion |-> c,
                stage |-> IF cancelled THEN "done"
                          ELSE IF <<target, c>> \in images THEN "free" ELSE "get"]]
  /\ UNCHANGED <<released, cache, shown, refreshing, step, target, errs, cancelled, faults>>

GetImage(w) ==
  /\ At(w, "get")
  /\ \/ ~cancelled /\ Goes(w, "write") /\ UNCHANGED faults
     \/ (Fault \/ (cancelled /\ UNCHANGED faults)) /\ Goes(w, "report")
  /\ UNCHANGED <<released, cache, shown, refreshing, step, target, jobs, errs, cancelled>>

(* AtomicWrite: there whole, or not at all; it may fail after its rename. *)
WriteImage(w) ==
  /\ At(w, "write")
  /\ LET written == images \cup {<<target, worker[w].champion>>} IN
     \/ images' = written /\ Goes(w, "free") /\ UNCHANGED faults
     \/ Fault /\ Goes(w, "report") /\ images' \in {images, written}
  /\ UNCHANGED <<released, file, shown, refreshing, step, target, jobs, errs, cancelled>>

(* A plausible slip: an unbuffered channel, which is read when all are done. *)
UnbufferedRoom == 0

ErrorRoom == Cardinality(Catalogue[target])

Report(w) ==
  /\ At(w, "report") /\ errs < ErrorRoom
  /\ errs' = errs + 1 /\ cancelled' = TRUE /\ Goes(w, "done")
  /\ UNCHANGED <<released, cache, shown, refreshing, step, target, jobs, faults>>
-----------------------------------------------------------------------------
(* A plausible slip: without an error all portraits are taken to be there. *)
JoinedWithoutError == errs = 0

JoinedWell == errs = 0 /\ ~cancelled

Join ==
  /\ step = "images" /\ \A w \in Workers : worker[w].stage = "done"
  /\ IF JoinedWell
     THEN step' = "save" /\ UNCHANGED <<released, images, shown, refreshing, job>>
     ELSE Abandon
  /\ UNCHANGED <<file, faults>>

Save ==
  /\ step = "save" /\ file' = target /\ step' = "publish"
  /\ UNCHANGED <<released, images, shown, refreshing, job, faults>>

(* A plausible slip: the error of the write is not looked at. *)
SaveFailsUnnoticed ==
  /\ step = "save" /\ Fault
  /\ file' \in {file, target}
  /\ step' = "publish" /\ UNCHANGED <<released, images, shown, refreshing, job>>

(* AtomicWrite may fail before and after its rename. *)
SaveFails ==
  /\ step = "save" /\ Fault
  /\ file' \in {file, target}
  /\ Abandon

Publish ==
  /\ step = "publish" /\ shown' = target /\ step' = "end"
  /\ UNCHANGED <<released, cache, refreshing, job, faults>>

End ==
  /\ step = "end" /\ refreshing' = FALSE /\ step' = "unlock"
  /\ UNCHANGED <<released, cache, shown, job, faults>>

Unlock ==
  /\ step = "unlock" /\ step' = "idle"
  /\ UNCHANGED <<released, cache, shown, refreshing, job, faults>>

(* The process dies, and New reads what there is. *)
Restart ==
  /\ Fault
  /\ shown' = file /\ refreshing' = FALSE /\ step' = "idle" /\ NewJob
  /\ UNCHANGED <<released, cache>>

JobStep ==
  \/ GetVersion \/ GetData \/ GetFails \/ Join \/ Save \/ SaveFails \/ Publish \/ End \/ Unlock
  \/ \E w \in Workers : Take(w) \/ GetImage(w) \/ WriteImage(w) \/ Report(w)

Next == Release \/ StartRefresh \/ Timeout \/ Restart \/ JobStep

Spec == Init /\ [][Next]_vars

(* Requests end after 20 seconds, and the goroutines of the job run.       *)
FairSpec == Spec /\ WF_vars(JobStep)
-----------------------------------------------------------------------------
(* Properties.                                                             *)

Complete(v) == v = NoList \/ \A c \in Catalogue[v] : <<v, c>> \in images

(* "publish only a complete snapshot" (service.go:190): every champion of  *)
(* a list that is shown, or that a restart would show, has its portrait.   *)
(* (With the types.)                                                       *)
PublishedComplete == TypeOK /\ Complete(shown) /\ Complete(file)

(* What has been shown is never replaced by an older list, whichever write *)
(* failed and however often the process is restarted (README.md:183: a     *)
(* refresh that fails keeps the cache).                                    *)
NeverGoesBack == [][shown' >= shown]_shown

(* "one bounded job" (service.go:111): a refresh ends, whatever fails and  *)
(* however many workers fail at once, and a click can start another.       *)
RefreshEnds == step # "idle" ~> step = "idle" /\ ~refreshing
=============================================================================
