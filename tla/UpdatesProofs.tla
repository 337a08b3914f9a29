---------------------------- MODULE UpdatesProofs ----------------------------
(***************************************************************************)
(* Proofs about module Updates, for any bots, numbers of updates, crashes  *)
(* and changes of the token: an update is decided once, before Telegram    *)
(* forgets it, and has an internal id of its own.                          *)
(***************************************************************************)
EXTENDS Updates, PrefixSumsProofs, SequenceTheorems, FiniteSetTheorems

Decides(b, u)  == decision[<<b, u>>] # Undecided
Recorded(b, u) == \E i \in ids : i.bot = b /\ i.update = u /\ i.id \in handled

(* There is always a number above all internal ids. *)
Bounded == \E n \in Nat : \A i \in ids : i.id <= n

(* A batch is a run of numbers whose predecessors are all decided. *)
BatchFollows ==
  batch # << >> =>
    /\ bound
    /\ \A k \in 1..Len(batch) : batch[k] = batch[1] + k - 1
    /\ \A u \in 1..MaxUpdate : u < batch[1] => Decides(bot, u)

(* Before any bot was bound: a new database, or one of an older version.   *)
Fresh ==
  /\ ~bound /\ batch = << >> /\ ids = {}
  /\ \A b \in Bots : offset[b] = NoSession /\ forgotten[b] = 0
  /\ IF bot = NoBot
     THEN handled = {} /\ \A b \in Bots, u \in 1..MaxUpdate : ~Decides(b, u)
     ELSE /\ bot = FirstBot /\ handled \subseteq 1..MaxUpdate
          /\ \A b \in Bots, u \in 1..MaxUpdate :
               Decides(b, u) <=> b = bot /\ u \in handled

(* What the tables say: an update is decided exactly if its id is among    *)
(* those handled, and nothing undecided is behind an offset.               *)
TablesAgree ==
  /\ \A id \in handled : \E i \in ids : i.id = id
  /\ \A b \in Bots, u \in 1..MaxUpdate :
       /\ Decides(b, u) <=> Recorded(b, u)
       /\ u < offset[b] \/ u < forgotten[b] => Decides(b, u)

InUse == bot \in Bots /\ offset[bot] # NoSession /\ TablesAgree /\ BatchFollows

UInv == TypeOK /\ Bounded /\ IdsAreUnique /\ (Fresh \/ InUse)

-----------------------------------------------------------------------------
(* Facts about the operators *)

(* What a poll gives out is a run that starts where it was asked to. *)
LEMMA GivenOut ==
  ASSUME TypeOK, NEW b \in Bots, NEW from \in Nat
  PROVE  LET given == GiveOut(b, from)
         IN /\ given \in Seq(1..MaxUpdate)
            /\ given # << >> =>
                 /\ \A k \in 1..Len(given) : given[k] = given[1] + k - 1
                 /\ \A u \in 1..MaxUpdate : u < given[1] => u < Max({from, forgotten[b]})
<1> DEFINE m   == Max({from, forgotten[b]})
           lo  == IF m = 0 THEN 1 ELSE m
           due == { u \in 1..sent[b] : u >= m }
           n   == Min({BatchLimit, Cardinality(due)})
           given == [k \in 1..n |-> Min(due) + k - 1]
<1>1. forgotten[b] \in Nat /\ sent[b] \in Nat /\ sent[b] <= MaxUpdate /\ MaxUpdate \in Nat
  BY UpdatesAssumption DEF TypeOK
<1>2. m \in Nat
  BY <1>1, MaxOfTwo
<1>3. due = lo..sent[b]
  <2> HIDE DEF m
  <2> QED BY <1>1, <1>2
<1>4. lo \in Nat /\ lo >= 1 /\ \A u \in Nat \ {0} : u < lo => u < m
  <2> HIDE DEF m
  <2> QED BY <1>2
<1> HIDE DEF m, lo, due
<1>5. Cardinality(due) = IF lo > sent[b] THEN 0 ELSE sent[b] - lo + 1
  <2> DEFINE hi == sent[b]
  <2>1. lo \in Int /\ hi \in Int
    BY <1>1, <1>4
  <2> HIDE DEF hi
  <2>2. Cardinality(lo..hi) = IF lo > hi THEN 0 ELSE hi - lo + 1
    BY <2>1, FS_Interval
  <2> QED BY <1>3, <2>2 DEF hi
<1>6. n \in Nat /\ n <= Cardinality(due)
  <2>1. Cardinality(due) \in Nat /\ BatchLimit \in Nat
    BY <1>1, <1>4, <1>5, UpdatesAssumption
  <2> DEFINE c == Cardinality(due)
             d == BatchLimit
  <2>2. c \in Nat /\ d \in Nat
    BY <2>1
  <2> HIDE DEF c, d
  <2>3. Min({d, c}) \in {d, c} /\ Min({d, c}) <= c
    BY <2>2, MinOfTwo
  <2> QED BY <2>2, <2>3 DEF c, d
<1> HIDE DEF n
<1>7. CASE n = 0
  <2>1. given = << >>
    BY <1>7
  <2> QED BY <2>1, EmptySeq DEF GiveOut, n, due, m
<1>8. CASE n # 0
  <2>1. lo <= sent[b] /\ n <= sent[b] - lo + 1
    BY <1>1, <1>4, <1>5, <1>6, <1>8
  <2>2. Min(due) = lo
    BY <1>1, <1>3, <1>4, <2>1, MinOfInterval
  <2>3. given = [k \in 1..n |-> lo + k - 1]
    BY <2>2
  <2>4. \A k \in 1..n : lo + k - 1 \in 1..MaxUpdate
    BY <1>1, <1>4, <1>6, <2>1
  <2>5. given \in Seq(1..MaxUpdate) /\ Len(given) = n
    BY <1>6, <2>3, <2>4
  <2>6. given[1] = lo /\ \A k \in 1..Len(given) : given[k] = given[1] + k - 1
    BY <1>4, <1>6, <1>8, <2>3, <2>5
  <2>7. \A u \in 1..MaxUpdate : u < given[1] => u < m
    BY <1>1, <1>4, <2>6
  <2>8. given = GiveOut(b, from)
    BY DEF GiveOut, n, due, m
  <2> HIDE DEF given
  <2> QED BY <2>5, <2>6, <2>7, <2>8 DEF m
<1> QED BY <1>7, <1>8

(* The id of an update is its own, or one that no update has. *)
LEMMA ScopedIsOwn ==
  ASSUME TypeOK, Bounded, NEW b \in Bots, NEW u \in 1..MaxUpdate
  PROVE  LET id == ScopedID(b, u)
         IN /\ id \in Nat \ {0}
            /\ \/ \E i \in ids : i.bot = b /\ i.update = u /\ i.id = id
               \/ /\ \A i \in ids : i.id # id
                  /\ ~ \E i \in ids : i.bot = b /\ i.update = u
<1>1. \A i \in ids : i.id \in Nat \ {0}
  BY DEF TypeOK
<1>2. CASE Known(b, u) # {}
  <2> DEFINE i == CHOOSE i \in Known(b, u) : TRUE
  <2>1. i \in Known(b, u) /\ ScopedID(b, u) = i.id
    BY <1>2 DEF ScopedID
  <2> HIDE DEF i
  <2> QED BY <1>1, <2>1 DEF Known
<1>3. CASE Known(b, u) = {} /\ \A i \in ids : i.id # u
  <2>1. ScopedID(b, u) = u
    BY <1>3 DEF ScopedID
  <2> QED BY <1>3, <2>1, UpdatesAssumption DEF Known
<1>4. CASE Known(b, u) = {} /\ \E i \in ids : i.id = u
  <2> DEFINE S == { i.id : i \in ids }
  <2>1. ScopedID(b, u) = Max(S) + 1
    BY <1>4 DEF ScopedID
  <2>2. S \subseteq Nat /\ S # {}
    BY <1>1, <1>4
  <2>3. PICK n \in Nat : \A i \in ids : i.id <= n
    BY DEF Bounded
  <2>4. \A k \in S : k <= n
    BY <2>3
  <2>5. \A i \in ids : i.id \in S
    OBVIOUS
  <2> HIDE DEF S
  <2>6. Max(S) \in S /\ \A k \in S : k <= Max(S)
    BY <2>2, <2>3, <2>4, MaxOfBounded
  <2>7. Max(S) \in Nat /\ \A i \in ids : i.id <= Max(S)
    BY <2>2, <2>5, <2>6
  <2>8. \A i \in ids : i.id # Max(S) + 1
    BY <1>1, <2>7
  <2> QED BY <1>4, <2>1, <2>7, <2>8 DEF Known
<1> QED BY <1>2, <1>3, <1>4

-----------------------------------------------------------------------------
(* The invariant, step by step *)

LEMMA InitUInv == Init => UInv
<1> SUFFICES ASSUME Init PROVE UInv
  OBVIOUS
<1>1. PICK old \in OldUpdates :
        /\ bot = IF old = 0 THEN NoBot ELSE FirstBot
        /\ sent = [b \in Bots |-> IF b = FirstBot THEN old ELSE 0]
        /\ metaOffset = IF old = 0 THEN 0 ELSE old + 1
        /\ handled = 1..old
        /\ decision = [q \in Requests |-> IF q[1] = FirstBot /\ q[2] <= old
                                          THEN "refused" ELSE Undecided]
  BY DEF Init
<1>2. old \in 0..MaxUpdate /\ MaxUpdate \in Nat /\ FirstBot \in Bots /\ NoBot \notin Bots
  BY UpdatesAssumption
<1>3. batch \in Seq(1..MaxUpdate)
  BY EmptySeq DEF Init
<1>4. TypeOK
  <2>1. sent \in [Bots -> 0..MaxUpdate] /\ bot \in Bots \cup {NoBot}
        /\ metaOffset \in 0..(MaxUpdate + 1) /\ handled \subseteq Nat \ {0}
    BY <1>1, <1>2
  <2>2. decision \in [Requests -> {Undecided, "accepted", "refused"}]
    <3>1. \A q \in Requests : (IF q[1] = FirstBot /\ q[2] <= old THEN "refused" ELSE Undecided)
                               \in {Undecided, "accepted", "refused"}
      OBVIOUS
    <3> DEFINE word(q) == IF q[1] = FirstBot /\ q[2] <= old THEN "refused" ELSE Undecided
    <3>2. decision = [q \in Requests |-> word(q)]
      BY <1>1
    <3>3. \A q \in Requests : word(q) \in {Undecided, "accepted", "refused"}
      BY <3>1
    <3> HIDE DEF word
    <3> QED BY <3>2, <3>3
  <2>3. /\ forgotten \in [Bots -> 0..(MaxUpdate + 1)]
        /\ offset \in [Bots -> 0..(MaxUpdate + 1) \cup {NoSession}]
    BY <1>2 DEF Init
  <2>4. /\ ids \subseteq [id : Nat \ {0}, bot : Bots, update : 1..MaxUpdate]
        /\ effects \in [Requests -> Nat] /\ open \in BOOLEAN
        /\ configured \in Bots /\ bound \in BOOLEAN /\ ended \in BOOLEAN
    BY <1>2 DEF Init
  <2> QED BY <1>3, <2>1, <2>2, <2>3, <2>4 DEF TypeOK
<1>5. \A b \in Bots, u \in 1..MaxUpdate :
        decision[<<b, u>>] = IF b = FirstBot /\ u <= old THEN "refused" ELSE Undecided
  BY <1>1 DEF Requests
<1>6. \A b \in Bots, u \in 1..MaxUpdate : Decides(b, u) <=> b = FirstBot /\ u \in handled
  <2> SUFFICES ASSUME NEW b \in Bots, NEW u \in 1..MaxUpdate
               PROVE  decision[<<b, u>>] # Undecided <=> b = FirstBot /\ u \in handled
    BY DEF Decides
  <2>1. u \in handled <=> u <= old
    BY <1>1, <1>2
  <2>2. decision[<<b, u>>] = IF b = FirstBot /\ u <= old THEN "refused" ELSE Undecided
    BY <1>5
  <2> QED BY <2>1, <2>2 DEF Undecided
<1>7. Fresh
  BY <1>1, <1>2, <1>6 DEF Init, Fresh
<1>8. Bounded /\ IdsAreUnique
  BY DEF Init, Bounded, IdsAreUnique
<1> QED BY <1>4, <1>7, <1>8 DEF UInv

(* Steps that touch neither the tables nor what Telegram has forgotten. *)
LEMMA TablesStay ==
  ASSUME UInv, TypeOK', UNCHANGED <<forgotten, tables>>,
         (bound' = bound /\ batch' = batch) \/ (bound' = FALSE /\ batch' = << >>)
         \/ (bound' = bound /\ batch' = << >>)
  PROVE  UInv'
<1>1. Bounded' /\ IdsAreUnique'
  BY DEF UInv, Bounded, IdsAreUnique, tables
<1>2. \A b, u : (Decides(b, u)' <=> Decides(b, u)) /\ (Recorded(b, u)' <=> Recorded(b, u))
  BY DEF Decides, Recorded, tables
<1>3. Fresh => Fresh'
  BY <1>2 DEF Fresh, tables
<1>4. InUse => InUse'
  BY <1>2 DEF InUse, TablesAgree, BatchFollows, tables
<1> QED BY <1>1, <1>3, <1>4 DEF UInv

LEMMA PollInv == ASSUME UInv, Poll PROVE UInv'
<1>1. TypeOK /\ bound /\ InUse /\ batch = << >>
  BY DEF UInv, Poll, Fresh
<1>2. bot \in Bots /\ Offset = offset[bot] /\ offset[bot] \in 0..(MaxUpdate + 1)
      /\ bot # NoBot /\ MaxUpdate \in Nat
  BY <1>1, UpdatesAssumption DEF InUse, Offset, TypeOK, NoSession
<1> DEFINE m == Max({forgotten[bot], offset[bot]})
<1>3. m = Max({offset[bot], forgotten[bot]}) /\ m \in {forgotten[bot], offset[bot]}
  <2>1. forgotten[bot] \in Int /\ offset[bot] \in Int
    BY <1>1, <1>2 DEF TypeOK
  <2> QED BY <2>1, MaxOfTwo
<1>4. forgotten' = [forgotten EXCEPT ![bot] = m]
  BY <1>2 DEF Poll
<1> HIDE DEF m
<1>5. forgotten[bot] \in 0..(MaxUpdate + 1) /\ m \in 0..(MaxUpdate + 1)
  BY <1>1, <1>2, <1>3 DEF TypeOK
<1>6. \A u \in 1..MaxUpdate : u < m => Decides(bot, u)
  BY <1>1, <1>2, <1>3 DEF InUse, TablesAgree
<1>7. \/ batch' = << >>
      \/ batch' = GiveOut(bot, offset[bot])
  BY <1>1, <1>2 DEF Poll
<1>8. /\ batch' \in Seq(1..MaxUpdate)
      /\ batch' # << >> =>
           /\ \A k \in 1..Len(batch') : batch'[k] = batch'[1] + k - 1
           /\ \A u \in 1..MaxUpdate : u < batch'[1] => u < m
  <2>1. offset[bot] \in Nat
    BY <1>2
  <2>2. CASE batch' = << >>
    BY <2>2, EmptySeq
  <2>3. CASE batch' = GiveOut(bot, offset[bot])
    <3> DEFINE given == GiveOut(bot, offset[bot])
    <3>1. /\ given \in Seq(1..MaxUpdate)
          /\ given # << >> =>
               /\ \A k \in 1..Len(given) : given[k] = given[1] + k - 1
               /\ \A u \in 1..MaxUpdate :
                    u < given[1] => u < Max({offset[bot], forgotten[bot]})
      BY <1>1, <1>2, <2>1, GivenOut
    <3>2. given = batch'
      BY <2>3
    <3> HIDE DEF given
    <3> QED BY <1>3, <3>1, <3>2
  <2> QED BY <1>7, <2>2, <2>3
<1>9. UNCHANGED <<sent, tables, process>>
  BY DEF Poll
<1>10. TypeOK'
  BY <1>1, <1>4, <1>5, <1>8, <1>9, UpdatesAssumption
     DEF Poll, TypeOK, tables, process
<1>11. \A b, u : (Decides(b, u)' <=> Decides(b, u)) /\ (Recorded(b, u)' <=> Recorded(b, u))
  BY <1>9 DEF Decides, Recorded, tables
<1>12. TablesAgree'
  <2>1. ASSUME NEW b \in Bots, NEW u \in 1..MaxUpdate,
               u < offset[b] \/ u < forgotten'[b]
        PROVE  Decides(b, u)
    BY <1>1, <1>4, <1>6, <2>1 DEF InUse, TablesAgree, TypeOK
  <2> QED BY <1>1, <1>9, <1>11, <2>1 DEF InUse, TablesAgree, tables
<1>13. BatchFollows'
  BY <1>1, <1>6, <1>8, <1>9, <1>11 DEF BatchFollows, tables, process
<1>14. Bounded' /\ IdsAreUnique'
  BY <1>9 DEF UInv, Bounded, IdsAreUnique, tables
<1> QED BY <1>1, <1>9, <1>10, <1>12, <1>13, <1>14 DEF UInv, InUse, tables

(* What is left of a batch when its first update is over. *)
LEMMA BatchGoesOn ==
  ASSUME batch \in Seq(1..MaxUpdate), batch # << >>,
         \A k \in 1..Len(batch) : batch[k] = batch[1] + k - 1
  PROVE  /\ Head(batch) \in 1..MaxUpdate /\ Head(batch) = batch[1]
         /\ Tail(batch) \in Seq(1..MaxUpdate)
         /\ Tail(batch) # << >> =>
              /\ Tail(batch)[1] = batch[1] + 1
              /\ \A k \in 1..Len(Tail(batch)) : Tail(batch)[k] = Tail(batch)[1] + k - 1
<1> DEFINE rest == Tail(batch)
<1>1. /\ Head(batch) \in 1..MaxUpdate /\ rest \in Seq(1..MaxUpdate)
      /\ Len(rest) = Len(batch) - 1
      /\ \A k \in 1..Len(rest) : rest[k] = batch[k + 1]
  BY HeadTailProperties
<1>2. Head(batch) = batch[1] /\ batch[1] \in Int
  BY <1>1
<1>3. Len(batch) \in Nat
  BY LenProperties
<1> HIDE DEF rest
<1>4. ASSUME rest # << >>
      PROVE  rest[1] = batch[1] + 1 /\ \A k \in 1..Len(rest) : rest[k] = rest[1] + k - 1
  <2>1. Len(rest) \in Nat \ {0}
    BY <1>1, <1>4, EmptySeq
  <2>2. \A k \in 1..Len(rest) : rest[k] = batch[1] + k
    BY <1>1, <1>2, <1>3
  <2> QED BY <1>2, <2>1, <2>2
<1> QED BY <1>1, <1>2, <1>4 DEF rest

(* An update that was handled before: only the batch goes on. *)
LEMMA HandledBefore ==
  ASSUME UInv, HandleUpdate, ScopedID(bot, Head(batch)) \in handled
  PROVE  UInv' /\ UNCHANGED <<decision, effects>>
<1> DEFINE u   == Head(batch)
           id  == ScopedID(bot, u)
           new == [id |-> id, bot |-> bot, update |-> u]
<1>1. /\ TypeOK /\ Bounded /\ InUse /\ bound /\ batch # << >> /\ bot \in Bots
      /\ batch' = Tail(batch) /\ ids' = ids \cup {new} /\ id \in handled
      /\ UNCHANGED <<handled, metaOffset, offset, decision, effects>>
      /\ UNCHANGED <<telegram, bot, process, open, bounds>>
  BY DEF UInv, HandleUpdate, Fresh, InUse, BatchFollows
<1>2. batch \in Seq(1..MaxUpdate) /\ \A k \in 1..Len(batch) : batch[k] = batch[1] + k - 1
  BY <1>1 DEF TypeOK, InUse, BatchFollows
<1>3. /\ u \in 1..MaxUpdate /\ u = batch[1] /\ batch' \in Seq(1..MaxUpdate)
      /\ batch' # << >> => /\ batch'[1] = u + 1
                           /\ \A k \in 1..Len(batch') : batch'[k] = batch'[1] + k - 1
  BY <1>1, <1>2, BatchGoesOn
<1> HIDE DEF u
<1>4. PICK i \in ids : i.bot = bot /\ i.update = u /\ i.id = id
  <2>1. \E i \in ids : i.id = id
    BY <1>1 DEF InUse, TablesAgree
  <2> QED BY <1>1, <1>3, <2>1, ScopedIsOwn
<1>5. ids' = ids
  <2>1. i \in [id : Nat \ {0}, bot : Bots, update : 1..MaxUpdate]
    BY <1>1, <1>4 DEF TypeOK
  <2>2. i = new
    BY <1>4, <2>1
  <2> QED BY <1>1, <1>4, <2>2
<1> HIDE DEF new, id
<1>6. Decides(bot, u)
  <2>1. Recorded(bot, u)
    BY <1>1, <1>4 DEF Recorded
  <2> QED BY <1>1, <1>3, <2>1 DEF InUse, TablesAgree
<1>7. \A c, v : (Decides(c, v)' <=> Decides(c, v)) /\ (Recorded(c, v)' <=> Recorded(c, v))
  BY <1>1, <1>5 DEF Decides, Recorded
<1>8. TypeOK' /\ Bounded' /\ IdsAreUnique' /\ TablesAgree'
  BY <1>1, <1>3, <1>5, <1>7
     DEF UInv, TypeOK, Bounded, IdsAreUnique, InUse, TablesAgree, telegram, process
<1>9. BatchFollows'
  <2>1. ASSUME NEW v \in 1..MaxUpdate, v < u + 1 PROVE Decides(bot, v)
    BY <1>1, <1>3, <1>6, <2>1 DEF InUse, BatchFollows
  <2> QED BY <1>1, <1>3, <1>7, <2>1 DEF BatchFollows, process
<1> QED BY <1>1, <1>8, <1>9 DEF UInv, InUse

(* An update that is new: its id, its offsets and its decision together. *)
LEMMA HandledNow ==
  ASSUME UInv, HandleUpdate, ScopedID(bot, Head(batch)) \notin handled
  PROVE  UInv' /\ O!Next
<1>0. /\ TypeOK /\ Bounded /\ IdsAreUnique /\ InUse /\ bound /\ batch # << >>
      /\ bot \in Bots /\ offset[bot] # NoSession /\ MaxUpdate \in Nat
  BY UpdatesAssumption DEF UInv, HandleUpdate, Fresh, InUse, BatchFollows
<1>2. batch \in Seq(1..MaxUpdate) /\ \A k \in 1..Len(batch) : batch[k] = batch[1] + k - 1
  BY <1>0 DEF TypeOK, InUse, BatchFollows
<1>a. PICK u \in 1..MaxUpdate : u = Head(batch)
  BY <1>0, <1>2, BatchGoesOn
<1>b. PICK id \in Nat \ {0} : id = ScopedID(bot, u)
  BY <1>0, ScopedIsOwn
<1> DEFINE q   == <<bot, u>>
           new == [id |-> id, bot |-> bot, update |-> u]
           word == IF open THEN "accepted" ELSE "refused"
<1>1. /\ TypeOK /\ Bounded /\ IdsAreUnique /\ InUse /\ bound /\ batch # << >>
      /\ bot \in Bots /\ offset[bot] # NoSession /\ MaxUpdate \in Nat
      /\ batch' = Tail(batch) /\ ids' = ids \cup {new} /\ id \notin handled
      /\ Consume(bot, u, id)
      /\ decision' = [decision EXCEPT ![q] = word]
      /\ effects' = IF open THEN [effects EXCEPT ![q] = @ + 1] ELSE effects
      /\ UNCHANGED <<telegram, bot, process, open, bounds>>
  BY <1>0, <1>a, <1>b DEF HandleUpdate
<1>3. /\ u \in 1..MaxUpdate /\ u = batch[1] /\ batch' \in Seq(1..MaxUpdate)
      /\ batch' # << >> => /\ batch'[1] = u + 1
                           /\ \A k \in 1..Len(batch') : batch'[k] = batch'[1] + k - 1
  BY <1>1, <1>2, <1>a, BatchGoesOn
<1>4. /\ id \in Nat \ {0}
      /\ \/ \E i \in ids : i.bot = bot /\ i.update = u /\ i.id = id
         \/ /\ \A i \in ids : i.id # id
            /\ ~ \E i \in ids : i.bot = bot /\ i.update = u
  BY <1>0, <1>b, ScopedIsOwn
<1>5. \A i \in ids : i.id \in Nat \ {0} /\ i.bot \in Bots /\ i.update \in 1..MaxUpdate
  BY <1>1 DEF TypeOK
<1>6. new.id = id /\ new.bot = bot /\ new.update = u
      /\ new \in [id : Nat \ {0}, bot : Bots, update : 1..MaxUpdate]
  BY <1>1, <1>3, <1>4
<1> HIDE DEF new
<1>7. ASSUME NEW i \in ids
      PROVE  i.id = id <=> i.bot = bot /\ i.update = u
  BY <1>1, <1>4 DEF IdsAreUnique
<1>8. IdsAreUnique'
  <2> SUFFICES ASSUME NEW i \in ids', NEW j \in ids',
                      i.id = j.id \/ (i.bot = j.bot /\ i.update = j.update)
               PROVE  i = j
    BY DEF IdsAreUnique
  <2>1. CASE new \in ids
    BY <1>1, <2>1 DEF IdsAreUnique
  <2>2. CASE new \notin ids
    <3>1. \A k \in ids : k.id # id
      <4> SUFFICES ASSUME NEW k \in ids, k.id = id PROVE FALSE
        OBVIOUS
      <4>1. k.bot = bot /\ k.update = u
        BY <1>7
      <4>2. k = new
        <5>1. k \in [id : Nat \ {0}, bot : Bots, update : 1..MaxUpdate]
          BY <1>1 DEF TypeOK
        <5>2. ASSUME NEW x \in [id : Nat \ {0}, bot : Bots, update : 1..MaxUpdate],
                     NEW y \in [id : Nat \ {0}, bot : Bots, update : 1..MaxUpdate],
                     x.id = y.id, x.bot = y.bot, x.update = y.update
              PROVE  x = y
          BY <5>2
        <5> QED BY <1>6, <4>1, <5>1, <5>2
      <4> QED BY <2>2, <4>2
    <3>2. \A k \in ids : ~(k.bot = bot /\ k.update = u)
      BY <1>7, <3>1
    <3> QED BY <1>1, <1>6, <3>1, <3>2 DEF IdsAreUnique
  <2> QED BY <2>1, <2>2
<1>9. Bounded'
  <2>1. PICK n \in Nat : \A i \in ids : i.id <= n
    BY <1>1 DEF Bounded
  <2> DEFINE top == IF n >= id THEN n ELSE id
  <2>2. top \in Nat /\ \A i \in ids' : i.id <= top
    BY <1>1, <1>4, <1>5, <1>6, <2>1
  <2> QED BY <2>2 DEF Bounded
<1>10. q \in Requests /\ word \in {"accepted", "refused"} /\ word # Undecided
  BY <1>1, <1>3 DEF Requests, Undecided
<1>11. /\ decision' \in [Requests -> {Undecided, "accepted", "refused"}]
       /\ decision'[q] = word
       /\ \A r \in Requests \ {q} : decision'[r] = decision[r]
  BY <1>1, <1>10 DEF TypeOK
<1>12. Decides(bot, u)' /\ ~Decides(bot, u)
  <2>1. ~Recorded(bot, u)
    BY <1>1, <1>7 DEF Recorded
  <2>2. ~Decides(bot, u)
    BY <1>1, <1>3, <2>1 DEF InUse, TablesAgree
  <2>3. decision'[<<bot, u>>] # Undecided
    BY <1>10, <1>11
  <2> QED BY <1>1, <2>2, <2>3 DEF Decides
<1>13. ASSUME NEW c \in Bots, NEW v \in 1..MaxUpdate, <<c, v>> # q
       PROVE  Decides(c, v)' <=> Decides(c, v)
  BY <1>11, <1>13 DEF Decides, Requests
<1>14. handled' = handled \cup {id} /\ metaOffset' = u + 1
       /\ offset' = [offset EXCEPT ![bot] = u + 1]
  BY <1>1 DEF Consume
<1>15. TypeOK'
  <2>1. effects' \in [Requests -> Nat]
    <3>1. effects \in [Requests -> Nat]
      BY <1>1 DEF TypeOK
    <3>2. effects' = effects \/ effects' = [effects EXCEPT ![q] = effects[q] + 1]
      BY <1>1
    <3> HIDE DEF q
    <3> QED BY <1>10, <3>1, <3>2
  <2>2. offset' \in [Bots -> 0..(MaxUpdate + 1) \cup {NoSession}]
        /\ metaOffset' \in 0..(MaxUpdate + 1)
    <3>1. u + 1 \in 0..(MaxUpdate + 1)
      BY <1>1, <1>3
    <3>2. offset \in [Bots -> 0..(MaxUpdate + 1) \cup {NoSession}]
      BY <1>1 DEF TypeOK
    <3> QED BY <1>1, <1>14, <3>1, <3>2
  <2>3. ids' \subseteq [id : Nat \ {0}, bot : Bots, update : 1..MaxUpdate]
        /\ handled' \subseteq Nat \ {0}
    BY <1>1, <1>4, <1>6, <1>14 DEF TypeOK
  <2> QED BY <1>1, <1>3, <1>11, <2>1, <2>2, <2>3 DEF TypeOK, telegram, process
<1>16. TablesAgree'
  <2>1. \A k \in handled' : \E i \in ids' : i.id = k
    BY <1>1, <1>6, <1>14 DEF InUse, TablesAgree
  <2>2. ASSUME NEW c \in Bots, NEW v \in 1..MaxUpdate
        PROVE  Decides(c, v)' <=> Recorded(c, v)'
    <3>1. CASE <<c, v>> = q
      <4>1. c = bot /\ v = u
        BY <3>1
      <4>2. new \in ids' /\ new.id \in handled'
        BY <1>1, <1>6, <1>14
      <4>3. Recorded(c, v)'
        BY <1>6, <4>1, <4>2 DEF Recorded
      <4> QED BY <1>1, <1>12, <4>1, <4>3 DEF Decides
    <3>2. CASE <<c, v>> # q
      <4>1. ~(c = bot /\ v = u)
        BY <3>2
      <4>2. Recorded(c, v)' <=> Recorded(c, v)
        BY <1>1, <1>6, <1>7, <1>14, <4>1 DEF Recorded
      <4> QED BY <1>1, <1>13, <3>2, <4>2 DEF InUse, TablesAgree
    <3> QED BY <3>1, <3>2
  <2>3. ASSUME NEW c \in Bots, NEW v \in 1..MaxUpdate, v < offset'[c] \/ v < forgotten'[c]
        PROVE  Decides(c, v)'
    <3>1. CASE <<c, v>> = q
      <4>1. c = bot /\ v = u
        BY <3>1
      <4> QED BY <1>1, <1>12, <4>1 DEF Decides
    <3>2. CASE <<c, v>> # q /\ (v < offset[c] \/ v < forgotten'[c])
      <4>1. forgotten' = forgotten
        BY <1>1 DEF telegram
      <4> QED BY <1>1, <1>13, <3>2, <4>1 DEF InUse, TablesAgree
    <3>3. CASE <<c, v>> # q /\ c = bot /\ v < u + 1
      <4>1. v < u
        BY <1>3, <3>3
      <4> QED BY <1>1, <1>3, <1>13, <3>3, <4>1 DEF InUse, BatchFollows
    <3> QED BY <1>1, <1>14, <2>3, <3>1, <3>2, <3>3 DEF TypeOK
  <2> QED BY <2>1, <2>2, <2>3 DEF TablesAgree
<1>17. BatchFollows'
  <2>1. ASSUME NEW v \in 1..MaxUpdate, v < u + 1 PROVE Decides(bot, v)'
    <3>1. CASE v = u
      BY <1>1, <1>12, <3>1 DEF Decides
    <3>2. CASE v # u
      <4>1. v < u /\ <<bot, v>> # q
        BY <1>3, <2>1, <3>2
      <4> QED BY <1>1, <1>3, <1>13, <4>1 DEF InUse, BatchFollows
    <3> QED BY <3>1, <3>2
  <2>2. bot' = bot /\ bound' = bound
    BY <1>1 DEF process
  <2> QED BY <1>1, <1>3, <2>1, <2>2 DEF BatchFollows, Decides
<1>18. O!Next
  <2>1. decision[q] = Undecided
    BY <1>12 DEF Decides
  <2>2. CASE open
    <3>1. O!Accept(q, "accepted")
      BY <1>1, <2>1, <2>2 DEF O!Accept
    <3> QED BY <1>10, <3>1 DEF O!Next
  <2>3. CASE ~open
    <3>1. O!Decline(q, "refused")
      BY <1>1, <2>1, <2>3 DEF O!Decline
    <3> QED BY <1>10, <3>1 DEF O!Next
  <2> QED BY <2>2, <2>3
<1>19. bot' \in Bots /\ offset'[bot'] # NoSession
  <2>1. bot' = bot /\ bot \in Bots
    BY <1>1 DEF process, TypeOK, InUse
  <2>2. offset \in [Bots -> 0..(MaxUpdate + 1) \cup {NoSession}]
    BY <1>1 DEF TypeOK
  <2>3. offset'[bot] = u + 1
    BY <1>14, <2>1, <2>2
  <2>4. u + 1 # NoSession
    BY <1>3 DEF NoSession
  <2> QED BY <2>1, <2>3, <2>4
<1> QED BY <1>8, <1>9, <1>15, <1>16, <1>17, <1>18, <1>19 DEF UInv, InUse

(* The first binding of all gives what an older version handled an id. *)
LEMMA FirstBinding ==
  ASSUME UInv, Fresh, BindBot
  PROVE  UInv'
<1> DEFINE old == IF bot = NoBot THEN configured ELSE bot
           start(b) == IF offset[b] = NoSession THEN 0 ELSE offset[b]
<1>1. TypeOK /\ old \in Bots /\ configured \in Bots /\ MaxUpdate \in Nat /\ NoBot \notin Bots
  BY UpdatesAssumption DEF UInv, TypeOK, Fresh
<1>2. /\ \A b \in Bots : offset[b] = NoSession /\ start(b) = 0
      /\ offset[old] = NoSession
      /\ bound' = TRUE /\ bot' = configured
      /\ offset' = [b \in Bots |-> IF b \in {old, configured} THEN start(b) ELSE offset[b]]
      /\ metaOffset' = IF old = configured THEN metaOffset ELSE start(configured)
      /\ UNCHANGED <<telegram, handled, decision, effects, configured, ended, batch, open,
                     bounds>>
      /\ ids' = ids \cup { [id |-> u, bot |-> old, update |-> u] :
                             u \in { v \in handled : \A i \in ids : i.id # v } }
  BY <1>1 DEF BindBot, Fresh
<1>3. ids' = { [id |-> u, bot |-> old, update |-> u] : u \in handled }
  BY <1>2 DEF Fresh
<1>4. handled \subseteq 1..MaxUpdate /\ handled \subseteq Nat \ {0}
  BY <1>1 DEF Fresh
<1>5. ASSUME NEW b \in Bots, NEW u \in 1..MaxUpdate
      PROVE  Decides(b, u) <=> b = old /\ u \in handled
  BY <1>1 DEF Fresh
<1> HIDE DEF old
<1>6. \A i \in ids' : i.id \in handled /\ i.bot = old /\ i.update = i.id
                      /\ i = [id |-> i.id, bot |-> old, update |-> i.id]
  BY <1>3
<1>7. \A b \in Bots : offset'[b] \in {0, NoSession}
  BY <1>2
<1>8. offset'[configured] = 0
  BY <1>1, <1>2
<1> HIDE DEF start
<1>9. TypeOK'
  <2>1. ids' \subseteq [id : Nat \ {0}, bot : Bots, update : 1..MaxUpdate]
    BY <1>1, <1>3, <1>4
  <2>2. offset' \in [Bots -> 0..(MaxUpdate + 1) \cup {NoSession}]
        /\ metaOffset' \in 0..(MaxUpdate + 1)
    BY <1>1, <1>2, <1>7 DEF TypeOK
  <2> QED BY <1>1, <1>2, <2>1, <2>2 DEF TypeOK, telegram
<1>10. Bounded'
  BY <1>1, <1>4, <1>6 DEF Bounded
<1>11. IdsAreUnique'
  BY <1>6 DEF IdsAreUnique
<1>12. ASSUME NEW b \in Bots, NEW u \in 1..MaxUpdate
       PROVE  Recorded(b, u)' <=> b = old /\ u \in handled
  <2>1. Recorded(b, u)' => b = old /\ u \in handled
    BY <1>6 DEF Recorded
  <2>2. ASSUME b = old, u \in handled PROVE Recorded(b, u)'
    <3> DEFINE i == [id |-> u, bot |-> old, update |-> u]
    <3>1. i \in ids' /\ i.bot = b /\ i.update = u /\ i.id \in handled'
      BY <1>2, <1>3, <2>2
    <3> QED BY <3>1 DEF Recorded
  <2> QED BY <2>1, <2>2
<1>13. TablesAgree'
  <2>1. \A id \in handled' : \E i \in ids' : i.id = id
    <3> SUFFICES ASSUME NEW id \in handled' PROVE \E i \in ids' : i.id = id
      OBVIOUS
    <3> DEFINE i == [id |-> id, bot |-> old, update |-> id]
    <3>1. i.id = id /\ i \in ids'
      BY <1>2, <1>3
    <3> HIDE DEF i
    <3> QED BY <3>1
  <2>2. \A b \in Bots, u \in 1..MaxUpdate : Decides(b, u)' <=> Recorded(b, u)'
    BY <1>2, <1>5, <1>12 DEF Decides
  <2>3. \A b \in Bots, u \in 1..MaxUpdate : ~(u < offset'[b]) /\ ~(u < forgotten'[b])
    BY <1>2, <1>7 DEF Fresh, telegram, NoSession
  <2> QED BY <2>1, <2>2, <2>3 DEF TablesAgree
<1>14. BatchFollows'
  BY <1>2 DEF Fresh, BatchFollows
<1> QED BY <1>1, <1>2, <1>8, <1>9, <1>10, <1>11, <1>13, <1>14 DEF UInv, InUse, NoSession

(* Later bindings only add sessions that start at 0. *)
LEMMA LaterBinding ==
  ASSUME UInv, InUse, BindBot
  PROVE  UInv'
<1> DEFINE start(b) == IF offset[b] = NoSession THEN 0 ELSE offset[b]
<1>1. /\ TypeOK /\ bot \in Bots /\ bot # NoBot /\ configured \in Bots /\ MaxUpdate \in Nat
      /\ offset[bot] # NoSession
  BY UpdatesAssumption DEF UInv, TypeOK, InUse
<1>2. /\ ~bound /\ bound' = TRUE /\ bot' = configured /\ ids' = ids
      /\ offset' = [b \in Bots |-> IF b \in {bot, configured} THEN start(b) ELSE offset[b]]
      /\ metaOffset' = IF bot = configured THEN metaOffset ELSE start(configured)
      /\ UNCHANGED <<telegram, handled, decision, effects, configured, ended, batch, open,
                     bounds>>
  BY <1>1 DEF BindBot
<1>3. \A b \in Bots : offset[b] \in 0..(MaxUpdate + 1) \cup {NoSession}
  BY <1>1 DEF TypeOK
<1>4. \A b \in Bots : /\ start(b) \in 0..(MaxUpdate + 1)
                      /\ start(b) = 0 \/ start(b) = offset[b]
                      /\ offset'[b] = start(b) \/ offset'[b] = offset[b]
  <2> SUFFICES ASSUME NEW b \in Bots
               PROVE  /\ start(b) \in 0..(MaxUpdate + 1)
                      /\ start(b) = 0 \/ start(b) = offset[b]
                      /\ offset'[b] = start(b) \/ offset'[b] = offset[b]
    OBVIOUS
  <2>1. start(b) \in 0..(MaxUpdate + 1) /\ (start(b) = 0 \/ start(b) = offset[b])
    BY <1>1, <1>3 DEF NoSession
  <2>2. offset'[b] = start(b) \/ offset'[b] = offset[b]
    <3> HIDE DEF start
    <3> QED BY <1>2
  <2> QED BY <2>1, <2>2
<1>5. offset'[configured] = start(configured) /\ start(configured) # NoSession
  BY <1>1, <1>2, <1>4 DEF NoSession
<1>6. \A c, v : (Decides(c, v)' <=> Decides(c, v)) /\ (Recorded(c, v)' <=> Recorded(c, v))
  BY <1>2 DEF Decides, Recorded
<1> HIDE DEF start
<1>7. TypeOK'
  <2>1. offset' \in [Bots -> 0..(MaxUpdate + 1) \cup {NoSession}]
        /\ metaOffset' \in 0..(MaxUpdate + 1)
    BY <1>1, <1>2, <1>3, <1>4 DEF TypeOK
  <2> QED BY <1>1, <1>2, <2>1 DEF TypeOK, telegram
<1>8. TablesAgree'
  <2>1. ASSUME NEW b \in Bots, NEW u \in 1..MaxUpdate, u < offset'[b] \/ u < forgotten'[b]
        PROVE  u < offset[b] \/ u < forgotten[b]
    BY <1>2, <1>4, <2>1 DEF telegram
  <2> QED BY <1>2, <1>6, <2>1 DEF InUse, TablesAgree
<1>9. BatchFollows'
  BY <1>2 DEF InUse, BatchFollows
<1>10. Bounded' /\ IdsAreUnique'
  BY <1>2 DEF UInv, Bounded, IdsAreUnique
<1> QED BY <1>1, <1>2, <1>5, <1>7, <1>8, <1>9, <1>10 DEF UInv, InUse

LEMMA OtherSteps ==
  ASSUME UInv,
         \/ \E b \in Bots : PlayerSends(b) \/ Restart(b)
         \/ Toggle \/ HandleFails \/ RunEnds \/ UNCHANGED vars
  PROVE  UInv' /\ UNCHANGED <<decision, effects>>
<1>1. /\ UNCHANGED <<forgotten, tables>>
      /\ \/ bound' = bound /\ batch' = batch
         \/ bound' = FALSE /\ batch' = << >>
         \/ bound' = bound /\ batch' = << >>
  BY DEF PlayerSends, Restart, Toggle, HandleFails, RunEnds, vars, telegram, process
<1>2. sent' \in [Bots -> 0..MaxUpdate] /\ configured' \in Bots /\ open' \in BOOLEAN
      /\ bound' \in BOOLEAN /\ ended' \in BOOLEAN
  <2>1. /\ sent \in [Bots -> 0..MaxUpdate] /\ configured \in Bots /\ open \in BOOLEAN
        /\ bound \in BOOLEAN /\ ended \in BOOLEAN /\ MaxUpdate \in Nat
    BY UpdatesAssumption DEF UInv, TypeOK
  <2>2. ASSUME NEW b \in Bots, PlayerSends(b)
        PROVE  sent' \in [Bots -> 0..MaxUpdate] /\ UNCHANGED <<configured, open, bound, ended>>
    BY <2>1, <2>2 DEF PlayerSends, process
  <2>3. ASSUME NEW b \in Bots, Restart(b)
        PROVE  configured' \in Bots /\ bound' = FALSE /\ ended' = FALSE /\ UNCHANGED <<sent, open>>
    BY <2>3 DEF Restart, telegram
  <2>4. CASE Toggle
    BY <2>1, <2>4 DEF Toggle, telegram, process
  <2>5. CASE HandleFails \/ UNCHANGED vars
    BY <2>1, <2>5 DEF HandleFails, vars, telegram, process
  <2>6. CASE RunEnds
    BY <2>1, <2>6 DEF RunEnds, telegram
  <2> QED BY <2>1, <2>2, <2>3, <2>4, <2>5, <2>6
<1>3. batch' \in Seq(1..MaxUpdate)
  BY <1>1, EmptySeq DEF UInv, TypeOK
<1>4. TypeOK'
  BY <1>1, <1>2, <1>3 DEF UInv, TypeOK, tables
<1> QED BY <1>1, <1>4, TablesStay DEF tables

(* Every step keeps the invariant, and decides one request or none. *)
LEMMA NextUInv ==
  ASSUME UInv, [Next]_vars
  PROVE  UInv' /\ [O!Next]_<<decision, effects>>
<1>1. CASE Poll
  BY <1>1, PollInv DEF Poll, tables
<1>2. CASE HandleUpdate
  BY <1>2, HandledBefore, HandledNow
<1>3. CASE BindBot
  BY <1>3, FirstBinding, LaterBinding DEF UInv, BindBot
<1>4. CASE ~Poll /\ ~HandleUpdate /\ ~BindBot
  BY <1>4, OtherSteps DEF Next
<1> QED BY <1>1, <1>2, <1>3, <1>4

-----------------------------------------------------------------------------
(* Theorems *)

(* Each update is decided once and its decision stands, over redeliveries, *)
(* crashes, failed transactions and changes of the bot: HandleUpdate       *)
(* implements module Once (internal/app/telegram.go:60-110).               *)
THEOREM UpdatesImplementOnce == Spec => ImplementsOnce
<1>1. Init => O!Init
  BY DEF Init, O!Init, Requests, Undecided
<1>2. UInv /\ [Next]_vars => UInv' /\ [O!Next]_<<decision, effects>>
  BY NextUInv
<1> QED BY <1>1, <1>2, InitUInv, PTL DEF Spec, ImplementsOnce, O!Spec

(* No two updates share an internal id (scopedUpdateID, bot_switch.go).    *)
THEOREM IdsStayUnique == Spec => []IdsAreUnique
<1>1. UInv => IdsAreUnique
  BY DEF UInv
<1>2. UInv /\ [Next]_vars => UInv'
  BY NextUInv
<1> QED BY <1>1, <1>2, InitUInv, PTL DEF Spec

(* Telegram is told to forget an update only when it has been decided      *)
(* (Offset and the poll loop of Run, internal/telegram/client.go).         *)
THEOREM NothingIsForgotten == Spec => []NothingForgotten
<1>1. UInv => NothingForgotten
  BY DEF UInv, NothingForgotten, Fresh, InUse, TablesAgree, Decides
<1>2. UInv /\ [Next]_vars => UInv'
  BY NextUInv
<1> QED BY <1>1, <1>2, InitUInv, PTL DEF Spec
(* What Once implies, of updates: an update acts on the ledger once if it  *)
(* was accepted, and never otherwise, however often it is delivered, by    *)
(* whatever sequence of polls, crashes and bots (HandleUpdate).            *)
THEOREM UpdatesActOnce == Spec => []O!ActsOnce
<1>1. Init => O!ActsOnce
  BY DEF Init, O!ActsOnce, Undecided
<1>2. UInv /\ O!ActsOnce /\ [O!Next]_<<decision, effects>> => O!ActsOnce'
  <2> SUFFICES ASSUME UInv, O!ActsOnce, [O!Next]_<<decision, effects>> PROVE O!ActsOnce'
    OBVIOUS
  <2>1. decision \in [Requests -> {"accepted", "refused", Undecided}] /\ effects \in [Requests -> Nat]
    BY DEF UInv, TypeOK
  <2>2. ASSUME NEW r \in Requests, NEW d \in {"accepted"}, O!Accept(r, d) PROVE O!ActsOnce'
    BY <2>1, <2>2 DEF O!Accept, O!ActsOnce, Undecided
  <2>3. ASSUME NEW r \in Requests, NEW d \in {"refused"}, O!Decline(r, d) PROVE O!ActsOnce'
    BY <2>1, <2>3 DEF O!Decline, O!ActsOnce, Undecided
  <2>4. CASE UNCHANGED <<decision, effects>>
    BY <2>4 DEF O!ActsOnce
  <2> QED BY <2>2, <2>3, <2>4 DEF O!Next
<1>3. UInv /\ [Next]_vars => UInv' /\ [O!Next]_<<decision, effects>>
  BY NextUInv
<1> QED BY <1>1, <1>2, <1>3, InitUInv, PTL DEF Spec

(* An update that was refused is not accepted when it comes again, nor the *)
(* reverse (telegram.go:69-72).                                            *)
THEOREM DecisionsOnUpdatesStand == Spec => O!DecisionStands
<1> DEFINE Stands == \A r \in Requests : decision[r] # Undecided => decision'[r] = decision[r]
<1>1. UInv /\ [O!Next]_<<decision, effects>> => [Stands]_<<decision, effects>>
  <2> SUFFICES ASSUME UInv, O!Next PROVE Stands
    OBVIOUS
  <2>1. decision \in [Requests -> {"accepted", "refused", Undecided}]
    BY DEF UInv, TypeOK
  <2>2. ASSUME NEW r \in Requests, NEW d, O!Accept(r, d) \/ O!Decline(r, d) PROVE Stands
    BY <2>1, <2>2 DEF O!Accept, O!Decline
  <2> QED BY <2>2 DEF O!Next
<1>2. UInv /\ [Next]_vars => UInv' /\ [O!Next]_<<decision, effects>>
  BY NextUInv
<1> QED BY <1>1, <1>2, InitUInv, PTL DEF Spec, O!DecisionStands
=============================================================================
