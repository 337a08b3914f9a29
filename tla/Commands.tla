------------------------------ MODULE Commands ------------------------------
(***************************************************************************)
(* The operator's commands on their way: the page (api of web/app.js and   *)
(* requestJSON of web/api-client.js), the network, and Service.Command     *)
(* (internal/app/service.go), which runs a command and records its answer  *)
(* under the idempotency key in one transaction.                           *)
(*                                                                         *)
(* A call may wait, be overtaken, be given up by the page and be executed  *)
(* all the same; its answer may be lost; the process may die.              *)
(***************************************************************************)
EXTENDS BalanceRequests

CONSTANTS
  Pages,         \* open pages of the operators
  Deltas,        \* adjustments operators make
  MaxCalls,      \* bound of the model: calls ever made
  MaxSteps,      \* bound of the model: calls, requests and bets together
  MaxFaults      \* bound of the model: transactions that fail, crashes and reloads

ASSUME CommandsAssumption ==
  /\ Deltas \subseteq Int /\ MaxCalls \in Nat /\ MaxFaults \in Nat

Keys == 1..MaxCalls
NoKey == 0
Program == "program"     \* a caller that is no page
Undecided == "undecided"

Commands ==
  [op : {"adjust"}, player : Players, delta : Deltas]
    \cup [op : {"resolve"}, request : 1..MaxRequests, action : {"APPROVED", "REJECTED"}]
    \cup [op : {"set"}, player : Players, enabled : {FALSE}]

VARIABLES
  idempotency,   \* by key: [command, response], or nothing
  pending,       \* in each page: the key of a command whose result is unknown
  calls,         \* every call: [page, command, key, stage, heard, answer, response]
  acts,          \* history: how often each key has acted
  faults         \* bound of the model

Spent == Len(calls) + Len(requests) + bets

vars == <<books, idempotency, pending, calls, acts, faults>>

(* stage: "queued" until the handler has run, "answered" while its answer  *)
(* is on the way to a page that waits for it (heard).                      *)
Call(pg, c, k) == [page |-> pg, command |-> c, key |-> k, stage |-> "queued",
                   heard |-> TRUE, answer |-> "none", response |-> 0]

TypeOK ==
  /\ BooksTypeOK
  /\ DOMAIN idempotency \subseteq Keys
  /\ pending \in [Pages -> [Commands -> Keys \cup {NoKey}]]
  /\ \A i \in DOMAIN calls :
       /\ calls[i].page \in Pages \cup {Program} /\ calls[i].command \in Commands /\ calls[i].key \in Keys
       /\ calls[i].stage \in {"queued", "answered", "over"}
       /\ calls[i].answer \in {"none", "done", "refused", "conflict", "failed"}
  /\ acts \in [Keys -> Nat] /\ faults \in 0..MaxFaults

Init ==
  /\ BooksInit
  /\ idempotency = << >>
  /\ pending = [pg \in Pages |-> [c \in Commands |-> NoKey]]
  /\ calls = << >>
  /\ acts = [k \in Keys |-> 0]
  /\ faults = 0
-----------------------------------------------------------------------------
(* The page: a command whose result is unknown keeps its key; a button is  *)
(* disabled while its call is under way.                                   *)
KeyFor(pg, c) == IF pending[pg][c] # NoKey THEN pending[pg][c] ELSE Len(calls) + 1

(* The page no longer waits for a call. *)
Unheard(call) == [call EXCEPT !.heard = FALSE,
                              !.stage = IF @ = "queued" THEN "queued" ELSE "over"]

Waiting(pg, c) ==
  \E i \in DOMAIN calls : calls[i].page = pg /\ calls[i].command = c /\ calls[i].heard

Submit(pg, c) ==
  /\ Len(calls) < MaxCalls /\ Spent < MaxSteps
  /\ ~Waiting(pg, c)
  /\ c.op = "resolve" => c.request \in DOMAIN requests
  /\ pending' = [pending EXCEPT ![pg][c] = KeyFor(pg, c)]
  /\ calls' = Append(calls, Call(pg, c, KeyFor(pg, c)))
  /\ UNCHANGED <<books, idempotency, acts, faults>>

(* A program that uses the API chooses its keys itself, and perhaps one    *)
(* that was used for another command.                                      *)
SubmitWith(c, k) ==
  /\ Len(calls) < MaxCalls /\ Spent < MaxSteps
  /\ \E i \in DOMAIN calls : calls[i].key = k /\ calls[i].command # c
  /\ c.op = "resolve" => c.request \in DOMAIN requests
  /\ calls' = Append(calls, [Call(Program, c, k) EXCEPT !.heard = FALSE])
  /\ UNCHANGED <<books, idempotency, pending, acts, faults>>

(* After 45 seconds, or when the connection breaks, the page gives up. *)
GiveUp(i) ==
  /\ calls[i].heard
  /\ calls' = [calls EXCEPT ![i] = Unheard(@)]
  /\ UNCHANGED <<books, idempotency, pending, acts, faults>>

(* An answer other than a failure of the server settles the key. *)
Receive(i) ==
  /\ calls[i].heard /\ calls[i].stage = "answered"
  /\ calls' = [calls EXCEPT ![i] = Unheard(@)]
  /\ pending' = IF calls[i].answer = "failed" THEN pending
                ELSE [pending EXCEPT ![calls[i].page][calls[i].command] = NoKey]
  /\ UNCHANGED <<books, idempotency, acts, faults>>

Reload(pg) ==
  /\ faults < MaxFaults /\ faults' = faults + 1
  /\ pending' = [pending EXCEPT ![pg] = [c \in Commands |-> NoKey]]
  /\ calls' = [i \in DOMAIN calls |-> IF calls[i].page = pg
                                      THEN Unheard(calls[i]) ELSE calls[i]]
  /\ UNCHANGED <<books, idempotency, acts>>
-----------------------------------------------------------------------------
(* Service.Command. *)
Allowed(c) == CASE c.op = "adjust"  -> Adjustable(c.player, c.delta)
                [] c.op = "resolve" -> Resolvable(c.request, c.action)
                [] c.op = "set"     -> TRUE

Perform(c) == CASE c.op = "adjust"  -> Adjust(c.player, c.delta)
                [] c.op = "resolve" -> Resolve(c.request, c.action)
                [] c.op = "set"     -> SetPlayer(c.player, c.enabled)

(* What the command returns: the account, or the request's new state. *)
Response(c) == IF c.op = "resolve" THEN c.action ELSE account'[c.player]

Answered(i, answer, response) ==
  calls' = [calls EXCEPT ![i] =
              [@ EXCEPT !.stage = IF calls[i].heard THEN "answered" ELSE "over",
                        !.answer = answer, !.response = response]]

(* A plausible slip: a key counts as known only with the same input. *)
KnownCommand(i) ==
  /\ calls[i].key \in DOMAIN idempotency
  /\ idempotency[calls[i].key].command = calls[i].command

Known(i) == calls[i].key \in DOMAIN idempotency

(* A plausible slip: a repetition is answered with the account as it is.   *)
ReplayAfresh(i) ==
  /\ Known(i)
  /\ LET old == idempotency[calls[i].key]
     IN IF old.command = calls[i].command
        THEN Answered(i, "done", IF old.command.op = "resolve" THEN old.response
                                 ELSE account[old.command.player])
        ELSE Answered(i, "conflict", 0)
  /\ UNCHANGED <<books, idempotency, acts>>

Replay(i) ==
  /\ Known(i)
  /\ LET old == idempotency[calls[i].key]
     IN IF old.command = calls[i].command THEN Answered(i, "done", old.response)
        ELSE Answered(i, "conflict", 0)
  /\ UNCHANGED <<books, idempotency, acts>>

(* The effects, the key and the answer are one transaction. *)
Run(i) ==
  LET c == calls[i].command
      k == calls[i].key
  IN /\ ~Known(i) /\ Allowed(c)
     /\ Perform(c)
     /\ idempotency' = [j \in DOMAIN idempotency \cup {k} |->
                          IF j = k THEN [command |-> c, response |-> Response(c)]
                          ELSE idempotency[j]]
     /\ acts' = [acts EXCEPT ![k] = @ + 1]
     /\ Answered(i, "done", Response(c))

(* A command that fails is rolled back and leaves no trace of its key. *)
Refuse(i) ==
  /\ ~Known(i) /\ ~Allowed(calls[i].command)
  /\ Answered(i, "refused", 0)
  /\ UNCHANGED <<books, idempotency, acts>>

Execute(i) ==
  /\ calls[i].stage = "queued"
  /\ Replay(i) \/ Run(i) \/ Refuse(i)
  /\ UNCHANGED <<pending, faults>>

(* A statement or the COMMIT fails: 500, nothing has happened. *)
Fail(i) ==
  /\ calls[i].stage = "queued"
  /\ faults < MaxFaults /\ faults' = faults + 1
  /\ Answered(i, "failed", 0)
  /\ UNCHANGED <<books, idempotency, pending, acts>>

(* The process dies: what it had not executed or answered is gone. *)
Crash ==
  /\ faults < MaxFaults /\ faults' = faults + 1
  /\ calls' = [i \in DOMAIN calls |-> [calls[i] EXCEPT !.heard = FALSE, !.stage = "over"]]
  /\ UNCHANGED <<books, idempotency, pending, acts>>

Next ==
  \/ /\ PlayerActs /\ UNCHANGED <<idempotency, pending, calls, acts, faults>>
     /\ Spent' <= MaxSteps
  \/ \E c \in Commands : \/ \E pg \in Pages : Submit(pg, c)
                        \/ \E k \in Keys : SubmitWith(c, k)
  \/ \E pg \in Pages : Reload(pg)
  \/ \E i \in DOMAIN calls : GiveUp(i) \/ Receive(i) \/ Execute(i) \/ Fail(i)
  \/ Crash

Spec == Init /\ [][Next]_vars
-----------------------------------------------------------------------------
(* Properties.                                                             *)

(* A key acts once or never, however often and in whatever order its calls *)
(* arrive (service.go:90-92), and what it did is not undone.               *)
O == INSTANCE Once WITH
       Requests <- Keys, Accepting <- {"done"}, Declining <- {}, effects <- acts,
       decision <- [k \in Keys |-> IF k \in DOMAIN idempotency THEN "done" ELSE Undecided]
ImplementsOnce == O!Spec

(* Whoever is told that a command was done is told what the one execution  *)
(* of that very command did: repetitions get the first answer, and no key  *)
(* answers for two commands.  (With the types.)                            *)
AnswersAgree ==
  /\ TypeOK
  /\ \A i \in DOMAIN calls : calls[i].answer = "done" =>
       /\ acts[calls[i].key] = 1
       /\ idempotency[calls[i].key] =
            [command |-> calls[i].command, response |-> calls[i].response]
=============================================================================
