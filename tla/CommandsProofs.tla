--------------------------- MODULE CommandsProofs ---------------------------
(***************************************************************************)
(* Proofs about modules BalanceRequests and Commands, for any players,     *)
(* amounts, pages and numbers of calls: keys act once, answers agree, what *)
(* bets have frozen is held, and a request moves its amount once.          *)
(***************************************************************************)
EXTENDS Commands, SequenceTheorems, FiniteSetTheorems, TLAPS

-----------------------------------------------------------------------------
(* The books *)

Books == BooksTypeOK /\ LockedIsHeld

(* An account that is replaced by one that is in order. *)
LEMMA AccountReplaced ==
  ASSUME Books, NEW p \in Players, NEW a \in Account, a.locked <= a.balance,
         account' = [account EXCEPT ![p] = a],
         requests' \in Seq(Request), entries' \in Seq(Adjustment), bets' \in 0..MaxBets
  PROVE  Books'
BY DEF Books, BooksTypeOK, LockedIsHeld

LEMMA AccountOf ==
  ASSUME Books, NEW p \in Players
  PROVE  /\ account[p] \in Account
         /\ account[p].balance \in 0..MoneyLimit /\ account[p].balance \in Int
         /\ account[p].locked \in Nat /\ account[p].enabled \in BOOLEAN
         /\ account[p].locked <= account[p].balance
         /\ MoneyLimit \in Nat
BY AmountsAssumption DEF Books, BooksTypeOK, LockedIsHeld, Account

LEMMA AmountIsPositive == ASSUME NEW a \in Amounts PROVE a \in Nat /\ a > 0
<1>1. a \in 1..MoneyLimit /\ MoneyLimit \in Nat
  BY AmountsAssumption
<1> QED BY <1>1

LEMMA RequestOf ==
  ASSUME BooksTypeOK, NEW r \in DOMAIN requests
  PROVE  /\ requests[r] \in Request /\ r \in 1..Len(requests) /\ r \in Nat
         /\ requests[r].player \in Players /\ requests[r].amount \in Nat
         /\ SignedAmount(r) \in Int
<1>1. requests \in [1..Len(requests) -> Request] /\ DOMAIN requests = 1..Len(requests)
      /\ Len(requests) \in Nat
  BY LenProperties DEF BooksTypeOK
<1>2. requests[r] \in Request
  BY <1>1
<1>3. requests[r].amount \in Amounts
  BY <1>2 DEF Request
<1>4. requests[r].amount \in Nat
  BY <1>3, AmountIsPositive
<1> QED BY <1>1, <1>2, <1>4 DEF Request, SignedAmount

LEMMA RequestBooks ==
  ASSUME Books, NEW p \in Players, NEW kind \in {"CREDIT", "DEBIT"}, NEW amount \in Amounts,
         RequestBalance(p, kind, amount)
  PROVE  Books'
<1> DEFINE new == [player |-> p, kind |-> kind, amount |-> amount, state |-> "PENDING"]
<1>1. new \in Request
  BY DEF Request
<1>2. requests' \in Seq(Request)
  BY <1>1, AppendProperties DEF RequestBalance, Books, BooksTypeOK
<1> QED BY <1>2 DEF RequestBalance, Books, BooksTypeOK, LockedIsHeld

LEMMA BetBooks ==
  ASSUME Books, NEW p \in Players, NEW risk \in Amounts, PlaceBet(p, risk)
  PROVE  Books'
<1> DEFINE a == [account[p] EXCEPT !.locked = @ + risk]
<1>1. risk \in Nat
  BY AmountsAssumption
<1>2. /\ a \in Account /\ a.locked = account[p].locked + risk
      /\ a.balance = account[p].balance
  BY <1>1, AccountOf DEF Account
<1>3. a.locked <= a.balance
  BY <1>1, <1>2, AccountOf DEF PlaceBet, Available
<1>4. account' = [account EXCEPT ![p] = a]
  BY AccountOf DEF PlaceBet, Account
<1>5. bets' \in 0..MaxBets
  BY AmountsAssumption DEF PlaceBet, Books, BooksTypeOK
<1> HIDE DEF a
<1> QED BY <1>2, <1>3, <1>4, <1>5, AccountReplaced DEF PlaceBet, Books, BooksTypeOK

LEMMA EndBooks ==
  ASSUME Books, NEW p \in Players, NEW delta \in Int, EndRound(p, delta)
  PROVE  Books'
<1> DEFINE a == [account[p] EXCEPT !.locked = 0, !.balance = @ + delta]
<1>1. account[p].balance + delta \in 0..MoneyLimit
  BY AccountOf DEF EndRound
<1>2. /\ a \in Account /\ a.locked = 0
      /\ a.balance = account[p].balance + delta
  BY <1>1, AccountOf DEF Account
<1>3. a.locked <= a.balance
  BY <1>1, <1>2
<1>4. account' = [account EXCEPT ![p] = a]
  BY AccountOf DEF EndRound, Books, BooksTypeOK, Account
<1> HIDE DEF a
<1> QED BY <1>2, <1>3, <1>4, AccountReplaced DEF EndRound, Books, BooksTypeOK

(* A posting that is allowed leaves the account in order. *)
LEMMA Posted ==
  ASSUME Books, NEW p \in Players, NEW delta \in Int, Adjustable(p, delta),
         NEW enabled \in BOOLEAN
  PROVE  LET a == [account[p] EXCEPT !.balance = @ + delta, !.enabled = enabled]
         IN a \in Account /\ a.locked <= a.balance
<1>1. /\ account[p].balance + delta \in 0..MoneyLimit
      /\ account[p].locked <= account[p].balance + delta
  BY AccountOf DEF Adjustable
<1> QED BY <1>1, AccountOf DEF Account

LEMMA AdjustBooks ==
  ASSUME Books, NEW p \in Players, NEW delta \in Int, Adjust(p, delta)
  PROVE  Books'
<1> DEFINE a == [account[p] EXCEPT !.balance = @ + delta, !.enabled = account[p].enabled]
           new == [player |-> p, delta |-> delta, ref |-> Manual]
<1>1. a \in Account /\ a.locked <= a.balance
  BY AccountOf, Posted DEF Adjust
<1>2. account' = [account EXCEPT ![p] = a]
  BY AccountOf DEF Adjust, Account
<1>3. entries' \in Seq(Adjustment)
  <2>1. new \in Adjustment
    BY DEF Adjustment, Manual
  <2> QED BY <2>1, AppendProperties DEF Adjust, Books, BooksTypeOK
<1> HIDE DEF a
<1> QED BY <1>1, <1>2, <1>3, AccountReplaced DEF Adjust, Books, BooksTypeOK

LEMMA SetPlayerBooks ==
  ASSUME Books, NEW p \in Players, NEW enabled \in BOOLEAN, SetPlayer(p, enabled)
  PROVE  Books'
<1> DEFINE a == [account[p] EXCEPT !.enabled = enabled]
<1>1. a \in Account /\ a.locked <= a.balance
  BY AccountOf DEF Account
<1>2. account' = [account EXCEPT ![p] = a]
  BY AccountOf DEF SetPlayer, Account
<1> HIDE DEF a
<1> QED BY <1>1, <1>2, AccountReplaced DEF SetPlayer, Books, BooksTypeOK

(* What resolving a request does to the list of requests. *)
LEMMA ResolvedRequests ==
  ASSUME BooksTypeOK, NEW action \in {"APPROVED", "REJECTED"}, NEW r, Resolve(r, action)
  PROVE  /\ r \in DOMAIN requests /\ requests' \in Seq(Request)
         /\ Len(requests') = Len(requests) /\ DOMAIN requests' = DOMAIN requests
         /\ \A q \in DOMAIN requests :
              /\ requests'[q].player = requests[q].player
              /\ requests'[q].kind = requests[q].kind
              /\ requests'[q].amount = requests[q].amount
              /\ requests'[q].state = IF q = r THEN action ELSE requests[q].state
<1> DEFINE new == [requests[r] EXCEPT !.state = action]
<1>1. r \in DOMAIN requests
  BY DEF Resolve, Resolvable
<1>2. /\ requests[r] \in Request /\ r \in 1..Len(requests)
      /\ DOMAIN requests = 1..Len(requests)
  BY <1>1, RequestOf, LenProperties DEF BooksTypeOK
<1>3. /\ new \in Request /\ new.state = action /\ new.player = requests[r].player
      /\ new.kind = requests[r].kind /\ new.amount = requests[r].amount
  BY <1>2 DEF Request
<1>4. requests' = [requests EXCEPT ![r] = new]
  BY DEF Resolve
<1> HIDE DEF new
<1>5. /\ requests' \in Seq(Request) /\ Len(requests') = Len(requests)
      /\ \A q \in 1..Len(requests) : requests'[q] = IF q = r THEN new ELSE requests[q]
  BY <1>2, <1>3, <1>4, ExceptSeq DEF BooksTypeOK
<1>6. DOMAIN requests' = DOMAIN requests
  BY <1>4
<1> QED BY <1>1, <1>2, <1>3, <1>5, <1>6

LEMMA ResolveBooks ==
  ASSUME Books, NEW action \in {"APPROVED", "REJECTED"}, NEW r, Resolve(r, action)
  PROVE  Books'
<1> DEFINE p == requests[r].player
           on == account[p].enabled \/ requests[r].kind = "CREDIT"
           a == [account[p] EXCEPT !.balance = @ + SignedAmount(r), !.enabled = on]
           new == [player |-> p, delta |-> SignedAmount(r), ref |-> r]
<1>1. BooksTypeOK /\ r \in DOMAIN requests /\ requests' \in Seq(Request)
  BY ResolvedRequests DEF Books
<1>2. p \in Players /\ SignedAmount(r) \in Int /\ r \in Nat
  BY <1>1, RequestOf
<1>3. CASE action = "APPROVED"
  <2>1. a \in Account /\ a.locked <= a.balance
    BY <1>2, <1>3, Posted DEF Resolve, Resolvable
  <2>2. account' = [account EXCEPT ![p] = a]
    BY <1>2, <1>3, AccountOf DEF Resolve, Account
  <2>3. entries' \in Seq(Adjustment)
    <3>1. new \in Adjustment
      BY <1>2 DEF Adjustment
    <3>2. entries' = Append(entries, new)
      BY <1>3 DEF Resolve
    <3>3. entries \in Seq(Adjustment)
      BY DEF Books, BooksTypeOK
    <3> QED BY <3>1, <3>2, <3>3, AppendProperties
  <2> HIDE DEF a
  <2> QED BY <1>1, <1>2, <2>1, <2>2, <2>3, AccountReplaced DEF Resolve, Books, BooksTypeOK
<1>4. CASE action # "APPROVED"
  BY <1>1, <1>4 DEF Resolve, Books, BooksTypeOK, LockedIsHeld
<1> QED BY <1>3, <1>4

(* The player's deltas are integers. *)
LEMMA PlayerBooks == ASSUME Books, PlayerActs PROVE Books'
<1>1. ASSUME NEW p \in Players, NEW kind \in {"CREDIT", "DEBIT"}, NEW amount \in Amounts,
             RequestBalance(p, kind, amount)
      PROVE  Books'
  BY <1>1, RequestBooks
<1>2. ASSUME NEW p \in Players, NEW risk \in Amounts, PlaceBet(p, risk) PROVE Books'
  BY <1>2, BetBooks
<1>3. ASSUME NEW p \in Players, NEW s \in {-1, 0, 1}, NEW a \in Amounts, EndRound(p, s * a)
      PROVE  Books'
  <2>1. a \in Int
    BY AmountsAssumption
  <2>2. s * a \in Int
    BY <2>1
  <2> QED BY <1>3, <2>2, EndBooks
<1> QED BY <1>1, <1>2, <1>3 DEF PlayerActs

-----------------------------------------------------------------------------
(* Commands and calls *)

Responses == {0, "APPROVED", "REJECTED"} \cup Account
Outcome   == [command : Commands, response : Responses]
CallRecord ==
  [page : Pages \cup {Program}, command : Commands, key : Keys,
   stage : {"queued", "answered", "over"}, heard : BOOLEAN,
   answer : {"none", "done", "refused", "conflict", "failed"}, response : Responses]

Typed ==
  /\ Books
  /\ idempotency \in [DOMAIN idempotency -> Outcome] /\ DOMAIN idempotency \subseteq Keys
  /\ pending \in [Pages -> [Commands -> Keys \cup {NoKey}]]
  /\ calls \in Seq(CallRecord) /\ Len(calls) <= MaxCalls
  /\ acts \in [Keys -> Nat] /\ faults \in 0..MaxFaults

(* A key has acted exactly if its outcome is recorded. *)
Decided == \A k \in Keys : acts[k] = IF k \in DOMAIN idempotency THEN 1 ELSE 0

(* A call that was told "done" was told the recorded outcome. *)
Agrees(call) ==
  call.answer = "done" =>
    /\ call.key \in DOMAIN idempotency
    /\ idempotency[call.key] = [command |-> call.command, response |-> call.response]

IInv == Typed /\ Decided /\ \A i \in DOMAIN calls : Agrees(calls[i])

LEMMA CallsOf ==
  ASSUME Typed
  PROVE  /\ Len(calls) \in Nat /\ DOMAIN calls = 1..Len(calls)
         /\ \A i \in DOMAIN calls : calls[i] \in CallRecord
BY LenProperties DEF Typed

LEMMA CallReplaced ==
  ASSUME Typed, NEW i \in DOMAIN calls, NEW call \in CallRecord,
         calls' = [calls EXCEPT ![i] = call]
  PROVE  /\ calls' \in Seq(CallRecord) /\ Len(calls') = Len(calls)
         /\ DOMAIN calls' = DOMAIN calls
         /\ \A j \in DOMAIN calls : calls'[j] = IF j = i THEN call ELSE calls[j]
BY CallsOf, ExceptSeq DEF Typed

LEMMA CallAdded ==
  ASSUME Typed, NEW call \in CallRecord, Len(calls) < MaxCalls, calls' = Append(calls, call)
  PROVE  /\ calls' \in Seq(CallRecord) /\ Len(calls') <= MaxCalls
         /\ \A j \in DOMAIN calls' : calls'[j] = call \/ (j \in DOMAIN calls /\ calls'[j] = calls[j])
<1>1. calls \in Seq(CallRecord) /\ Len(calls) \in Nat /\ DOMAIN calls = 1..Len(calls)
  BY CallsOf DEF Typed
<1>2. /\ calls' \in Seq(CallRecord) /\ Len(calls') = Len(calls) + 1
      /\ \A j \in 1..Len(calls) : calls'[j] = calls[j]
      /\ calls'[Len(calls) + 1] = call
  BY <1>1, AppendProperties
<1>3. DOMAIN calls' = 1..(Len(calls) + 1)
  BY <1>2, LenProperties
<1> QED BY <1>1, <1>2, <1>3, CommandsAssumption

(* A call that is cut off, and its answer. *)
LEMMA UnheardCall ==
  ASSUME NEW call \in CallRecord
  PROVE  /\ Unheard(call) \in CallRecord
         /\ Unheard(call).answer = call.answer /\ Unheard(call).key = call.key
         /\ Unheard(call).command = call.command /\ Unheard(call).response = call.response
BY DEF CallRecord, Unheard

(* Steps that leave the outcomes alone. *)
LEMMA QuietStep ==
  ASSUME IInv, Books', UNCHANGED <<idempotency, acts>>,
         pending' \in [Pages -> [Commands -> Keys \cup {NoKey}]], faults' \in 0..MaxFaults,
         calls' \in Seq(CallRecord), Len(calls') <= MaxCalls,
         \A i \in DOMAIN calls' : Agrees(calls'[i])
  PROVE  IInv'
BY DEF IInv, Typed, Decided, Agrees

(* The books when only the calls move. *)
LEMMA BooksStay == ASSUME Books, UNCHANGED books PROVE Books'
BY DEF Books, books, BooksTypeOK, LockedIsHeld

(* Recording an answer on a call. *)
LEMMA AnsweredCall ==
  ASSUME Typed, NEW i \in DOMAIN calls, NEW answer \in {"done", "refused", "conflict", "failed"},
         NEW response \in Responses, Answered(i, answer, response)
  PROVE  /\ calls' \in Seq(CallRecord) /\ Len(calls') = Len(calls)
         /\ DOMAIN calls' = DOMAIN calls
         /\ \A j \in DOMAIN calls \ {i} : calls'[j] = calls[j]
         /\ calls'[i].answer = answer /\ calls'[i].response = response
         /\ calls'[i].key = calls[i].key /\ calls'[i].command = calls[i].command
<1> DEFINE call == [calls[i] EXCEPT !.stage = IF calls[i].heard THEN "answered" ELSE "over",
                                    !.answer = answer, !.response = response]
<1>1. calls[i] \in CallRecord
  BY CallsOf
<1>2. /\ call \in CallRecord /\ call.answer = answer /\ call.response = response
      /\ call.key = calls[i].key /\ call.command = calls[i].command
  BY <1>1 DEF CallRecord
<1>3. calls' = [calls EXCEPT ![i] = call]
  BY DEF Answered
<1> HIDE DEF call
<1> QED BY <1>2, <1>3, CallReplaced

-----------------------------------------------------------------------------
(* The steps *)

LEMMA KeyIsKey ==
  ASSUME Typed, NEW pg \in Pages, NEW c \in Commands, Len(calls) < MaxCalls
  PROVE  KeyFor(pg, c) \in Keys
BY CallsOf, CommandsAssumption DEF KeyFor, Keys, NoKey, Typed

LEMMA SubmitInv ==
  ASSUME IInv, NEW pg \in Pages, NEW c \in Commands, Submit(pg, c)
  PROVE  IInv'
<1> DEFINE k == KeyFor(pg, c)
           call == Call(pg, c, k)
<1>1. Typed /\ Len(calls) < MaxCalls
  BY DEF IInv, Submit
<1>2. k \in Keys
  BY <1>1, KeyIsKey
<1>3. call \in CallRecord /\ call.answer = "none"
  BY <1>2 DEF Call, CallRecord, Responses
<1>4. calls' = Append(calls, call) /\ UNCHANGED <<books, idempotency, acts, faults>>
  BY DEF Submit
<1>5. pending' \in [Pages -> [Commands -> Keys \cup {NoKey}]]
  BY <1>1, <1>2 DEF Submit, Typed
<1> HIDE DEF call
<1>6. \A j \in DOMAIN calls' : Agrees(calls'[j])
  BY <1>1, <1>3, <1>4, CallAdded DEF IInv, Agrees
<1> QED BY <1>1, <1>3, <1>4, <1>5, <1>6, CallAdded, QuietStep, BooksStay DEF IInv, Typed

LEMMA SubmitWithInv ==
  ASSUME IInv, NEW c \in Commands, NEW k \in Keys, SubmitWith(c, k)
  PROVE  IInv'
<1> DEFINE call == [Call(Program, c, k) EXCEPT !.heard = FALSE]
<1>1. Typed /\ Len(calls) < MaxCalls
  BY DEF IInv, SubmitWith
<1>2. call \in CallRecord /\ call.answer = "none"
  BY DEF Call, CallRecord, Responses
<1>3. calls' = Append(calls, call) /\ UNCHANGED <<books, idempotency, pending, acts, faults>>
  BY DEF SubmitWith
<1> HIDE DEF call
<1>4. \A j \in DOMAIN calls' : Agrees(calls'[j])
  BY <1>1, <1>2, <1>3, CallAdded DEF IInv, Agrees
<1> QED BY <1>1, <1>2, <1>3, <1>4, CallAdded, QuietStep, BooksStay DEF IInv, Typed

LEMMA GiveUpInv ==
  ASSUME IInv, NEW i \in DOMAIN calls, GiveUp(i)
  PROVE  IInv'
<1>1. Typed /\ calls[i] \in CallRecord
  BY CallsOf DEF IInv
<1>2. calls' = [calls EXCEPT ![i] = Unheard(calls[i])]
      /\ UNCHANGED <<books, idempotency, pending, acts, faults>>
  BY DEF GiveUp
<1>3. \A j \in DOMAIN calls' : Agrees(calls'[j])
  BY <1>1, <1>2, UnheardCall, CallReplaced DEF IInv, Agrees
<1> QED BY <1>1, <1>2, <1>3, UnheardCall, CallReplaced, QuietStep, BooksStay DEF IInv, Typed

LEMMA ReceiveInv ==
  ASSUME IInv, NEW i \in DOMAIN calls, Receive(i)
  PROVE  IInv'
<1>1. Typed /\ calls[i] \in CallRecord
  BY CallsOf DEF IInv
<1>2. calls' = [calls EXCEPT ![i] = Unheard(calls[i])]
      /\ UNCHANGED <<books, idempotency, acts, faults>>
  BY DEF Receive
<1>3. \A j \in DOMAIN calls' : Agrees(calls'[j])
  BY <1>1, <1>2, UnheardCall, CallReplaced DEF IInv, Agrees
<1>4. pending' \in [Pages -> [Commands -> Keys \cup {NoKey}]]
  BY <1>1 DEF Receive, Typed
<1> QED BY <1>1, <1>2, <1>3, <1>4, UnheardCall, CallReplaced, QuietStep, BooksStay DEF IInv, Typed

(* All calls replaced at once, by calls that are typed and agree. *)
LEMMA CallsMapped ==
  ASSUME IInv, DOMAIN calls' = DOMAIN calls, calls' = [i \in DOMAIN calls |-> calls'[i]],
         \A i \in DOMAIN calls :
           /\ calls'[i] \in CallRecord
           /\ calls'[i].answer = calls[i].answer /\ calls'[i].key = calls[i].key
           /\ calls'[i].command = calls[i].command /\ calls'[i].response = calls[i].response,
         UNCHANGED <<books, idempotency, acts>>,
         pending' \in [Pages -> [Commands -> Keys \cup {NoKey}]], faults' \in 0..MaxFaults
  PROVE  IInv'
<1>1. Typed /\ DOMAIN calls = 1..Len(calls) /\ Len(calls) \in Nat /\ Len(calls) <= MaxCalls
  BY CallsOf DEF IInv, Typed
<1>2. calls' \in [1..Len(calls) -> CallRecord]
  BY <1>1
<1>3. calls' \in Seq(CallRecord)
  BY <1>1, <1>2, SeqDef
<1>4. Len(calls') = Len(calls)
  BY <1>1, <1>3, LenProperties
<1>5. \A i \in DOMAIN calls' : Agrees(calls'[i])
  BY DEF IInv, Agrees
<1> QED BY <1>1, <1>3, <1>4, <1>5, QuietStep, BooksStay DEF IInv, Typed

LEMMA FaultCounted ==
  ASSUME Typed, faults < MaxFaults, faults' = faults + 1
  PROVE  faults' \in 0..MaxFaults
BY CommandsAssumption DEF Typed

LEMMA ReloadInv ==
  ASSUME IInv, NEW pg \in Pages, Reload(pg)
  PROVE  IInv'
<1>1. Typed /\ faults' \in 0..MaxFaults /\ UNCHANGED <<books, idempotency, acts>>
  BY FaultCounted DEF IInv, Reload
<1>2. calls' = [i \in DOMAIN calls |-> IF calls[i].page = pg
                                      THEN Unheard(calls[i]) ELSE calls[i]]
  BY DEF Reload
<1>3. pending' \in [Pages -> [Commands -> Keys \cup {NoKey}]]
  BY <1>1 DEF Reload, Typed
<1>4. \A i \in DOMAIN calls :
        /\ calls'[i] \in CallRecord
        /\ calls'[i].answer = calls[i].answer /\ calls'[i].key = calls[i].key
        /\ calls'[i].command = calls[i].command /\ calls'[i].response = calls[i].response
  BY <1>1, <1>2, CallsOf, UnheardCall
<1> QED BY <1>1, <1>2, <1>3, <1>4, CallsMapped

LEMMA CrashInv ==
  ASSUME IInv, Crash
  PROVE  IInv'
<1>1. Typed /\ faults' \in 0..MaxFaults /\ UNCHANGED <<books, idempotency, pending, acts>>
  BY FaultCounted DEF IInv, Crash
<1>2. calls' = [i \in DOMAIN calls |-> [calls[i] EXCEPT !.heard = FALSE, !.stage = "over"]]
  BY DEF Crash
<1>3. \A i \in DOMAIN calls :
        /\ calls'[i] \in CallRecord
        /\ calls'[i].answer = calls[i].answer /\ calls'[i].key = calls[i].key
        /\ calls'[i].command = calls[i].command /\ calls'[i].response = calls[i].response
  BY <1>1, <1>2, CallsOf DEF CallRecord
<1> QED BY <1>1, <1>2, <1>3, CallsMapped DEF Typed

(* An answer that is not "done" agrees with anything. *)
LEMMA OtherAnswer ==
  ASSUME IInv, NEW i \in DOMAIN calls, NEW answer \in {"refused", "conflict", "failed"},
         Answered(i, answer, 0), UNCHANGED <<books, idempotency, pending, acts>>,
         faults' \in 0..MaxFaults
  PROVE  IInv'
<1>1. Typed /\ 0 \in Responses
  BY DEF IInv, Responses
<1>2. \A j \in DOMAIN calls' : Agrees(calls'[j])
  BY <1>1, AnsweredCall DEF IInv, Agrees
<1> QED BY <1>1, <1>2, AnsweredCall, QuietStep, BooksStay DEF IInv, Typed

LEMMA ReplayInv ==
  ASSUME IInv, NEW i \in DOMAIN calls, Replay(i), UNCHANGED <<pending, faults>>
  PROVE  IInv'
<1> DEFINE old == idempotency[calls[i].key]
<1>1. /\ Typed /\ calls[i].key \in DOMAIN idempotency /\ old \in Outcome
      /\ UNCHANGED <<books, idempotency, acts>> /\ faults' \in 0..MaxFaults
  BY DEF IInv, Replay, Known, Typed
<1>2. CASE old.command = calls[i].command
  <2>1. Answered(i, "done", old.response)
    BY <1>2 DEF Replay
  <2>2. old.response \in Responses
    BY <1>1 DEF Outcome
  <2>3. old = [command |-> old.command, response |-> old.response]
    BY <1>1 DEF Outcome
  <2> HIDE DEF old
  <2>4. /\ calls' \in Seq(CallRecord) /\ Len(calls') = Len(calls)
        /\ DOMAIN calls' = DOMAIN calls
        /\ \A j \in DOMAIN calls \ {i} : calls'[j] = calls[j]
        /\ calls'[i].answer = "done" /\ calls'[i].response = old.response
        /\ calls'[i].key = calls[i].key /\ calls'[i].command = calls[i].command
    BY <1>1, <2>1, <2>2, AnsweredCall
  <2>5. Agrees(calls'[i])
    BY <1>1, <1>2, <2>3, <2>4 DEF Agrees, old
  <2>6. \A j \in DOMAIN calls' : Agrees(calls'[j])
    BY <2>4, <2>5 DEF IInv, Agrees
  <2> QED BY <1>1, <2>4, <2>6, QuietStep, BooksStay DEF IInv, Typed
<1>3. CASE old.command # calls[i].command
  <2>1. Answered(i, "conflict", 0)
    BY <1>3 DEF Replay
  <2> QED BY <1>1, <2>1, OtherAnswer
<1> QED BY <1>2, <1>3

(* The books after a command, and what it returns. *)
LEMMA Performed ==
  ASSUME Books, NEW c \in Commands, Perform(c)
  PROVE  Books' /\ Response(c) \in Responses
<1>1. CASE c.op = "adjust"
  <2>1. c.player \in Players /\ c.delta \in Int
    BY <1>1, CommandsAssumption DEF Commands
  <2>2. Adjust(c.player, c.delta) /\ Response(c) = account'[c.player]
    BY <1>1 DEF Perform, Response
  <2>3. Books'
    BY <2>1, <2>2, AdjustBooks
  <2> QED BY <2>1, <2>2, <2>3 DEF Books, BooksTypeOK, Responses
<1>2. CASE c.op = "resolve"
  <2>1. c.action \in {"APPROVED", "REJECTED"}
    BY <1>2 DEF Commands
  <2>2. Resolve(c.request, c.action) /\ Response(c) = c.action
    BY <1>2 DEF Perform, Response
  <2>3. Books'
    BY <2>1, <2>2, ResolveBooks
  <2> QED BY <2>1, <2>2, <2>3 DEF Responses
<1>3. CASE c.op = "set"
  <2>1. c.player \in Players /\ c.enabled \in BOOLEAN
    BY <1>3 DEF Commands
  <2>2. SetPlayer(c.player, c.enabled) /\ Response(c) = account'[c.player]
    BY <1>3 DEF Perform, Response
  <2>3. Books'
    BY <2>1, <2>2, SetPlayerBooks
  <2> QED BY <2>1, <2>2, <2>3 DEF Books, BooksTypeOK, Responses
<1> QED BY <1>1, <1>2, <1>3 DEF Commands

(* The outcome is recorded and the key acts together. *)
LEMMA RunInv ==
  ASSUME IInv, NEW i \in DOMAIN calls, Run(i), UNCHANGED <<pending, faults>>
  PROVE  IInv'
<1> DEFINE c == calls[i].command
           k == calls[i].key
           new == [command |-> c, response |-> Response(c)]
<1>1. Typed /\ calls[i] \in CallRecord
  BY CallsOf DEF IInv
<1>2. c \in Commands /\ k \in Keys
  BY <1>1 DEF CallRecord
<1>3. /\ k \notin DOMAIN idempotency /\ Perform(c) /\ Answered(i, "done", Response(c))
      /\ idempotency' = [j \in DOMAIN idempotency \cup {k} |->
                           IF j = k THEN new ELSE idempotency[j]]
      /\ acts' = [acts EXCEPT ![k] = @ + 1]
  BY DEF Run, Known
<1>4. Books' /\ Response(c) \in Responses
  BY <1>1, <1>2, <1>3, Performed DEF Typed
<1>5. new \in Outcome
  BY <1>2, <1>4 DEF Outcome
<1>6. /\ calls' \in Seq(CallRecord) /\ Len(calls') = Len(calls)
      /\ DOMAIN calls' = DOMAIN calls
      /\ \A j \in DOMAIN calls \ {i} : calls'[j] = calls[j]
      /\ calls'[i].answer = "done" /\ calls'[i].response = Response(c)
      /\ calls'[i].key = k /\ calls'[i].command = c
  BY <1>1, <1>3, <1>4, AnsweredCall
<1> HIDE DEF new, c, k
<1>7. /\ DOMAIN idempotency' = DOMAIN idempotency \cup {k} /\ idempotency'[k] = new
      /\ \A j \in DOMAIN idempotency : idempotency'[j] = idempotency[j]
  BY <1>3
<1>8. /\ idempotency' \in [DOMAIN idempotency' -> Outcome] /\ DOMAIN idempotency' \subseteq Keys
  BY <1>1, <1>2, <1>3, <1>5, <1>7 DEF Typed
<1>9. acts' \in [Keys -> Nat] /\ acts'[k] = acts[k] + 1
      /\ \A j \in Keys \ {k} : acts'[j] = acts[j]
  BY <1>1, <1>2, <1>3 DEF Typed
<1>10. Decided'
  BY <1>1, <1>2, <1>3, <1>7, <1>9 DEF IInv, Decided, Typed
<1>11. ASSUME NEW j \in DOMAIN calls' PROVE Agrees(calls[j])'
  <2>1. CASE j = i
    BY <1>6, <1>7, <2>1 DEF Agrees, new
  <2>2. CASE j # i
    <3>1. j \in DOMAIN calls /\ calls'[j] = calls[j] /\ Agrees(calls[j])
      BY <1>6, <1>11, <2>2 DEF IInv
    <3> QED BY <1>7, <3>1 DEF Agrees
  <2> QED BY <2>1, <2>2
<1>12. Typed'
  BY <1>1, <1>4, <1>6, <1>8, <1>9 DEF Typed
<1> QED BY <1>10, <1>11, <1>12 DEF IInv

LEMMA ExecuteInv ==
  ASSUME IInv, NEW i \in DOMAIN calls, Execute(i)
  PROVE  IInv'
<1>1. CASE Replay(i)
  BY <1>1, ReplayInv DEF Execute
<1>2. CASE Run(i)
  BY <1>2, RunInv DEF Execute
<1>3. CASE Refuse(i)
  BY <1>3, OtherAnswer DEF Execute, Refuse, IInv, Typed
<1> QED BY <1>1, <1>2, <1>3 DEF Execute

LEMMA FailInv ==
  ASSUME IInv, NEW i \in DOMAIN calls, Fail(i)
  PROVE  IInv'
BY OtherAnswer, FaultCounted DEF Fail, IInv

LEMMA InitInv == Init => IInv
<1> SUFFICES ASSUME Init PROVE IInv
  OBVIOUS
<1>1. Books
  BY AmountsAssumption, EmptySeq
     DEF Init, BooksInit, Books, BooksTypeOK, LockedIsHeld, Account
<1>2. calls \in Seq(CallRecord) /\ Len(calls) = 0 /\ DOMAIN calls = {}
  BY EmptySeq, LenProperties DEF Init
<1>3. DOMAIN idempotency = {} /\ idempotency \in [DOMAIN idempotency -> Outcome]
  <2>1. idempotency \in Seq(Outcome) /\ Len(idempotency) = 0
    BY EmptySeq DEF Init
  <2> QED BY <2>1, LenProperties
<1>4. Typed
  BY <1>1, <1>2, <1>3, CommandsAssumption DEF Init, Typed
<1> QED BY <1>2, <1>3, <1>4 DEF Init, IInv, Decided

LEMMA NextInv == IInv /\ [Next]_vars => IInv'
<1> SUFFICES ASSUME IInv, [Next]_vars PROVE IInv'
  OBVIOUS
<1>1. CASE PlayerActs /\ UNCHANGED <<idempotency, pending, calls, acts, faults>>
  <2>1. Books'
    BY <1>1, PlayerBooks DEF IInv, Typed
  <2> QED BY <1>1, <2>1, QuietStep DEF IInv, Typed, Agrees
<1>2. ASSUME NEW c \in Commands, NEW pg \in Pages, Submit(pg, c) PROVE IInv'
  BY <1>2, SubmitInv
<1>3. ASSUME NEW c \in Commands, NEW k \in Keys, SubmitWith(c, k) PROVE IInv'
  BY <1>3, SubmitWithInv
<1>4. ASSUME NEW pg \in Pages, Reload(pg) PROVE IInv'
  BY <1>4, ReloadInv
<1>5. ASSUME NEW i \in DOMAIN calls, GiveUp(i) \/ Receive(i) \/ Execute(i) \/ Fail(i) PROVE IInv'
  BY <1>5, GiveUpInv, ReceiveInv, ExecuteInv, FailInv
<1>6. CASE Crash
  BY <1>6, CrashInv
<1>7. CASE UNCHANGED vars
  <2>1. Books'
    BY <1>7, BooksStay DEF vars, IInv, Typed
  <2> QED BY <1>7, <2>1, QuietStep DEF vars, IInv, Typed, Agrees
<1> QED BY <1>1, <1>2, <1>3, <1>4, <1>5, <1>6, <1>7 DEF Next

-----------------------------------------------------------------------------
(* Requests and the entries they made *)

Made(q) == { k \in DOMAIN entries : entries[k].ref = q }

(* An entry refers to a request that was filed, or to none. *)
RefsKnown == \A k \in DOMAIN entries : entries[k].ref \in 0..Len(requests)

Moves == RefsKnown /\ RequestMovesOnce

LEMMA EntryAdded ==
  ASSUME entries \in Seq(Adjustment), NEW e \in Adjustment, entries' = Append(entries, e)
  PROVE  /\ DOMAIN entries' = DOMAIN entries \cup {Len(entries) + 1}
         /\ Len(entries) + 1 \notin DOMAIN entries
         /\ entries'[Len(entries) + 1] = e
         /\ \A k \in DOMAIN entries : entries'[k] = entries[k]
         /\ \A q : Made(q)' = IF q = e.ref THEN Made(q) \cup {Len(entries) + 1} ELSE Made(q)
<1>1. /\ DOMAIN entries = 1..Len(entries) /\ Len(entries) \in Nat
      /\ entries' \in Seq(Adjustment) /\ Len(entries') = Len(entries) + 1
      /\ \A k \in 1..Len(entries) : entries'[k] = entries[k]
      /\ entries'[Len(entries) + 1] = e
  BY AppendProperties, LenProperties
<1>2. DOMAIN entries' = 1..(Len(entries) + 1)
  BY <1>1, LenProperties
<1>3. /\ DOMAIN entries' = DOMAIN entries \cup {Len(entries) + 1}
      /\ Len(entries) + 1 \notin DOMAIN entries
  BY <1>1, <1>2
<1>4. ASSUME NEW q
      PROVE  Made(q)' = IF q = e.ref THEN Made(q) \cup {Len(entries) + 1} ELSE Made(q)
  BY <1>1, <1>3 DEF Made
<1> QED BY <1>1, <1>3, <1>4

(* What a request has moved, request by request. *)
MovedRight(q) ==
  IF requests[q].state # "APPROVED" THEN Made(q) = {}
  ELSE /\ Cardinality(Made(q)) = 1
       /\ \A k \in Made(q) : /\ entries[k].player = requests[q].player
                             /\ entries[k].delta = SignedAmount(q)

LEMMA MovesMeans == RequestMovesOnce <=> \A q \in DOMAIN requests : MovedRight(q)
BY DEF RequestMovesOnce, MovedRight, Made

(* An adjustment that no request asked for. *)
LEMMA AdjustMoves ==
  ASSUME Books, Moves, NEW p \in Players, NEW delta \in Int, Adjust(p, delta)
  PROVE  Moves'
<1> DEFINE e == [player |-> p, delta |-> delta, ref |-> Manual]
<1>1. /\ entries \in Seq(Adjustment) /\ requests \in Seq(Request) /\ e \in Adjustment
      /\ entries' = Append(entries, e) /\ requests' = requests /\ e.ref = 0
  BY DEF Adjust, Books, BooksTypeOK, Adjustment, Manual
<1> HIDE DEF e
<1>2. /\ DOMAIN entries' = DOMAIN entries \cup {Len(entries) + 1}
      /\ entries'[Len(entries) + 1] = e
      /\ \A k \in DOMAIN entries : entries'[k] = entries[k]
      /\ \A q : q # 0 => Made(q)' = Made(q)
  BY <1>1, EntryAdded
<1>3. RefsKnown'
  BY <1>1, <1>2, LenProperties DEF Moves, RefsKnown
<1>4. ASSUME NEW q \in DOMAIN requests PROVE MovedRight(q)'
  <2>1. q # 0 /\ MovedRight(q)
    BY <1>1, LenProperties, MovesMeans DEF Moves
  <2>2. Made(q)' = Made(q) /\ \A k \in Made(q) : entries'[k] = entries[k]
    BY <1>2, <2>1 DEF Made
  <2>3. SignedAmount(q)' = SignedAmount(q) /\ requests'[q] = requests[q]
    BY <1>1 DEF SignedAmount
  <2>4. CASE requests[q].state # "APPROVED"
    BY <2>1, <2>2, <2>3, <2>4 DEF MovedRight
  <2>5. CASE requests[q].state = "APPROVED"
    <3>1. /\ Cardinality(Made(q)) = 1
          /\ \A k \in Made(q) : /\ entries[k].player = requests[q].player
                                /\ entries[k].delta = SignedAmount(q)
      BY <2>1, <2>5 DEF MovedRight
    <3> QED BY <2>2, <2>3, <2>5, <3>1 DEF MovedRight
  <2> QED BY <2>4, <2>5
<1>5. RequestMovesOnce'
  BY <1>1, <1>4 DEF RequestMovesOnce, MovedRight, Made
<1> QED BY <1>3, <1>5 DEF Moves

(* A new request has moved nothing: no entry refers to it. *)
LEMMA RequestMoves ==
  ASSUME Books, Moves, NEW p \in Players, NEW kind \in {"CREDIT", "DEBIT"},
         NEW amount \in Amounts, RequestBalance(p, kind, amount)
  PROVE  Moves'
<1> DEFINE new == [player |-> p, kind |-> kind, amount |-> amount, state |-> "PENDING"]
<1>1. /\ requests \in Seq(Request) /\ entries \in Seq(Adjustment) /\ entries' = entries
      /\ new \in Request /\ requests' = Append(requests, new) /\ new.state = "PENDING"
  BY DEF RequestBalance, Books, BooksTypeOK, Request
<1> HIDE DEF new
<1>2. /\ DOMAIN requests = 1..Len(requests) /\ Len(requests) \in Nat
      /\ requests' \in Seq(Request) /\ Len(requests') = Len(requests) + 1
      /\ \A q \in 1..Len(requests) : requests'[q] = requests[q]
      /\ requests'[Len(requests) + 1] = new
  BY <1>1, AppendProperties, LenProperties
<1>3. DOMAIN requests' = 1..(Len(requests) + 1)
  BY <1>2, LenProperties
<1>4. RefsKnown'
  BY <1>1, <1>2 DEF Moves, RefsKnown
<1>5. \A q : Made(q)' = Made(q)
  BY <1>1 DEF Made
<1>6. ASSUME NEW q \in DOMAIN requests' PROVE MovedRight(q)'
  <2>1. CASE q = Len(requests) + 1
    <3>1. Made(q) = {}
      BY <1>2, <2>1 DEF Moves, RefsKnown, Made
    <3> QED BY <1>1, <1>2, <1>5, <2>1, <3>1 DEF MovedRight
  <2>2. CASE q # Len(requests) + 1
    <3>1. q \in DOMAIN requests /\ requests'[q] = requests[q]
      BY <1>2, <1>3, <2>2
    <3>2. MovedRight(q) /\ SignedAmount(q)' = SignedAmount(q)
      BY <3>1, MovesMeans DEF Moves, SignedAmount
    <3> QED BY <1>1, <1>5, <3>1, <3>2 DEF MovedRight
  <2> QED BY <2>1, <2>2
<1>7. RequestMovesOnce'
  BY <1>6 DEF RequestMovesOnce, MovedRight, Made
<1> QED BY <1>4, <1>7 DEF Moves

(* A resolved request was pending: it had moved nothing, and is not resolved again. *)
LEMMA ResolveMoves ==
  ASSUME Books, Moves, NEW action \in {"APPROVED", "REJECTED"}, NEW r, Resolve(r, action)
  PROVE  Moves'
<1>1. /\ r \in DOMAIN requests /\ requests' \in Seq(Request)
      /\ Len(requests') = Len(requests) /\ DOMAIN requests' = DOMAIN requests
      /\ \A q \in DOMAIN requests :
           /\ requests'[q].player = requests[q].player
           /\ requests'[q].kind = requests[q].kind
           /\ requests'[q].amount = requests[q].amount
           /\ requests'[q].state = IF q = r THEN action ELSE requests[q].state
  BY ResolvedRequests DEF Books
<1>2. /\ \A q \in DOMAIN requests : SignedAmount(q)' = SignedAmount(q)
      /\ \A q \in DOMAIN requests : MovedRight(q)
  BY <1>1, MovesMeans DEF SignedAmount, Moves
<1>3. Made(r) = {}
  BY <1>1, <1>2 DEF Resolve, Resolvable, MovedRight
<1>4. CASE action = "REJECTED"
  <2>1. entries' = entries /\ \A q : Made(q)' = Made(q)
    BY <1>4 DEF Resolve, Made
  <2>2. RefsKnown'
    BY <1>1, <2>1 DEF Moves, RefsKnown
  <2>3. \A q \in DOMAIN requests : MovedRight(q)'
    BY <1>1, <1>2, <1>3, <1>4, <2>1 DEF MovedRight
  <2>4. RequestMovesOnce'
    BY <1>1, <2>3 DEF RequestMovesOnce, MovedRight, Made
  <2> QED BY <2>2, <2>4 DEF Moves
<1>5. CASE action = "APPROVED"
  <2> DEFINE e == [player |-> requests[r].player, delta |-> SignedAmount(r), ref |-> r]
  <2>1. /\ BooksTypeOK /\ entries \in Seq(Adjustment)
        /\ requests[r].player \in Players /\ SignedAmount(r) \in Int /\ r \in Nat
        /\ r \in 1..Len(requests)
    BY <1>1, RequestOf DEF Books, BooksTypeOK
  <2>2. /\ e \in Adjustment /\ entries' = Append(entries, e) /\ e.ref = r
        /\ e.player = requests[r].player /\ e.delta = SignedAmount(r)
    BY <1>5, <2>1 DEF Resolve, Adjustment
  <2> HIDE DEF e
  <2>3. /\ DOMAIN entries' = DOMAIN entries \cup {Len(entries) + 1}
        /\ Len(entries) + 1 \notin DOMAIN entries
        /\ entries'[Len(entries) + 1] = e
        /\ \A k \in DOMAIN entries : entries'[k] = entries[k]
        /\ \A q : Made(q)' = IF q = r THEN Made(q) \cup {Len(entries) + 1} ELSE Made(q)
    BY <2>1, <2>2, EntryAdded
  <2>4. RefsKnown'
    BY <1>1, <2>1, <2>2, <2>3 DEF Moves, RefsKnown
  <2>5. Made(r)' = {Len(entries) + 1}
    BY <1>3, <2>3
  <2>6. Cardinality(Made(r)') = 1
    BY <2>5, FS_Singleton
  <2>7. MovedRight(r)'
    BY <1>1, <1>2, <1>5, <2>2, <2>3, <2>5, <2>6 DEF MovedRight
  <2>8. ASSUME NEW q \in DOMAIN requests, q # r PROVE MovedRight(q)'
    <3>1. Made(q)' = Made(q) /\ \A k \in Made(q) : entries'[k] = entries[k]
      BY <2>3, <2>8 DEF Made
    <3> QED BY <1>1, <1>2, <2>8, <3>1 DEF MovedRight
  <2>9. \A q \in DOMAIN requests' : MovedRight(q)'
    BY <1>1, <2>7, <2>8
  <2>10. RequestMovesOnce'
    BY <2>9 DEF RequestMovesOnce, MovedRight, Made
  <2> QED BY <2>4, <2>10 DEF Moves
<1> QED BY <1>4, <1>5

LEMMA MovesStay == ASSUME Moves, UNCHANGED <<requests, entries>> PROVE Moves'
BY DEF Moves, RefsKnown, RequestMovesOnce, SignedAmount

LEMMA PlayerMoves == ASSUME Books, Moves, PlayerActs PROVE Moves'
<1>1. ASSUME NEW p \in Players, NEW kind \in {"CREDIT", "DEBIT"}, NEW amount \in Amounts,
             RequestBalance(p, kind, amount)
      PROVE  Moves'
  BY <1>1, RequestMoves
<1>2. ASSUME NEW p \in Players, NEW risk, PlaceBet(p, risk) PROVE Moves'
  BY <1>2, MovesStay DEF PlaceBet
<1>3. ASSUME NEW p \in Players, NEW delta, EndRound(p, delta) PROVE Moves'
  BY <1>3, MovesStay DEF EndRound
<1> QED BY <1>1, <1>2, <1>3 DEF PlayerActs

LEMMA PerformedMoves ==
  ASSUME Books, Moves, NEW c \in Commands, Perform(c)
  PROVE  Moves'
<1>1. CASE c.op = "adjust"
  <2>1. c.player \in Players /\ c.delta \in Int
    BY <1>1, CommandsAssumption DEF Commands
  <2> QED BY <1>1, <2>1, AdjustMoves DEF Perform
<1>2. CASE c.op = "resolve"
  <2>1. c.action \in {"APPROVED", "REJECTED"}
    BY <1>2 DEF Commands
  <2> QED BY <1>2, <2>1, ResolveMoves DEF Perform
<1>3. CASE c.op = "set"
  BY <1>3, MovesStay DEF Perform, SetPlayer
<1> QED BY <1>1, <1>2, <1>3 DEF Commands

LEMMA NextMoves == IInv /\ Moves /\ [Next]_vars => Moves'
<1> SUFFICES ASSUME IInv, Moves, [Next]_vars PROVE Moves'
  OBVIOUS
<1>1. Books
  BY DEF IInv, Typed
<1>2. CASE PlayerActs
  BY <1>1, <1>2, PlayerMoves
<1>3. ASSUME NEW i \in DOMAIN calls, Run(i) PROVE Moves'
  <2>1. calls[i].command \in Commands /\ Perform(calls[i].command)
    BY <1>3, CallsOf DEF IInv, CallRecord, Run
  <2> QED BY <1>1, <2>1, PerformedMoves
<1>4. CASE ~PlayerActs /\ ~ \E i \in DOMAIN calls : Run(i)
  <2>1. UNCHANGED books
    BY <1>4 DEF Next, vars, Submit, SubmitWith, Reload, GiveUp, Receive, Execute, Replay,
                Refuse, Fail, Crash
  <2> QED BY <2>1, MovesStay DEF books
<1> QED BY <1>2, <1>3, <1>4

LEMMA InitMoves == Init => Moves
<1> SUFFICES ASSUME Init PROVE Moves
  OBVIOUS
<1>1. /\ requests \in Seq(Request) /\ Len(requests) = 0
      /\ entries \in Seq(Adjustment) /\ Len(entries) = 0
  BY EmptySeq DEF Init, BooksInit
<1>2. DOMAIN requests = {} /\ DOMAIN entries = {}
  BY <1>1, LenProperties
<1> QED BY <1>2 DEF Moves, RefsKnown, RequestMovesOnce

-----------------------------------------------------------------------------
(* Theorems *)

(* Whoever is told that a command was done is told the recorded outcome of *)
(* its one execution, whatever is repeated, lost, overtaken or interrupted *)
(* (Service.Command, internal/app/service.go:93-130).                      *)
THEOREM AnswersAlwaysAgree == Spec => []AnswersAgree
<1>1. IInv => AnswersAgree
  <2> SUFFICES ASSUME IInv PROVE AnswersAgree
    OBVIOUS
  <2>1. \A i \in DOMAIN calls : calls[i] \in CallRecord
    BY CallsOf DEF IInv
  <2>2. TypeOK
    BY <2>1 DEF IInv, Typed, Books, TypeOK, CallRecord
  <2>3. \A i \in DOMAIN calls : calls[i].key \in Keys
    BY <2>1 DEF CallRecord
  <2> QED BY <2>2, <2>3 DEF IInv, Agrees, Decided, AnswersAgree
<1> QED BY <1>1, InitInv, NextInv, PTL DEF Spec

(* What a bet has frozen is never taken by an adjustment or by an approved *)
(* request (Adjust, internal/app/service.go:320-329).                      *)
THEOREM LockedAlwaysHeld == Spec => []LockedIsHeld
<1>1. IInv => LockedIsHeld
  BY DEF IInv, Typed, Books
<1> QED BY <1>1, InitInv, NextInv, PTL DEF Spec

(* A request moves its amount exactly once, and only if it was approved    *)
(* (ResolveBalanceRequest, internal/app/balance_requests.go:75-118).       *)
THEOREM RequestsMoveOnce == Spec => []RequestMovesOnce
<1>1. Moves => RequestMovesOnce
  BY DEF Moves
<1> QED BY <1>1, InitInv, NextInv, InitMoves, NextMoves, PTL DEF Spec

(* A key acts once or never, and what it did stands: the commands and      *)
(* their table implement module Once (internal/app/service.go:90-92).      *)
THEOREM CommandsImplementOnce == Spec => ImplementsOnce
<1>1. Init => O!Init
  <2> SUFFICES ASSUME Init PROVE O!Init
    OBVIOUS
  <2>1. DOMAIN idempotency = {}
    <3>1. idempotency \in Seq(Outcome) /\ Len(idempotency) = 0
      BY EmptySeq DEF Init
    <3> QED BY <3>1, LenProperties
  <2> QED BY <2>1 DEF Init, O!Init
<1> DEFINE done == [k \in Keys |-> IF k \in DOMAIN idempotency THEN "done" ELSE Undecided]
<1>2. ASSUME IInv, NEW i \in DOMAIN calls, Run(i) PROVE O!Next
  <2> DEFINE k == calls[i].key
  <2>1. /\ k \in Keys /\ k \notin DOMAIN idempotency
        /\ DOMAIN idempotency' = DOMAIN idempotency \cup {k}
        /\ acts' = [acts EXCEPT ![k] = @ + 1]
    BY <1>2, CallsOf DEF IInv, CallRecord, Run, Known
  <2> HIDE DEF k
  <2>2. done' = [done EXCEPT ![k] = "done"] /\ done[k] = Undecided
    BY <2>1
  <2>3. O!Accept(k, "done")
    BY <2>1, <2>2 DEF O!Accept
  <2> QED BY <2>1, <2>3 DEF O!Next
<1>3. IInv /\ [Next]_vars => [O!Next]_<<done, acts>>
  <2> SUFFICES ASSUME IInv, [Next]_vars, ~ \E i \in DOMAIN calls : Run(i)
               PROVE  UNCHANGED <<idempotency, acts>>
    BY <1>2
  <2> QED BY DEF Next, vars, Submit, SubmitWith, Reload, GiveUp, Receive, Execute, Replay,
                 Refuse, Fail, Crash
<1> QED BY <1>1, <1>3, InitInv, NextInv, PTL DEF Spec, ImplementsOnce, O!Spec
(* What Once implies, of keys: a key acts once if the table knows it, and  *)
(* never otherwise, however often its command is repeated, by whatever     *)
(* page or program, over crashes and lost answers (Service.Command).       *)
THEOREM KeysActOnce == Spec => []O!ActsOnce
<1>1. IInv => O!ActsOnce
  BY DEF IInv, Decided, O!ActsOnce, Undecided
<1> QED BY <1>1, InitInv, NextInv, PTL DEF Spec
=============================================================================
