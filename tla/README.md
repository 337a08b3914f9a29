# RiftLedger: a verification project

RiftLedger is a points ledger for a game played in a Telegram group: an operator
opens a round with five heroes, one of them the banker; players bet on the others;
the operator types in the five damages, looks at a preview and settles. The service
is one Go process over one SQLite file, with a web page for operators and a bot for
players. These TLA+ modules model the program's own logic; TLC checks them on small
instances and TLAPS proves theorems about them for all values of their constants.

Source paths are relative to `src/internal/app/` unless they say otherwise.

## 1. Inventory

| Part | State it keeps | Operations | What is hard about it | What makes it correct |
|---|---|---|---|---|
| Scoring (`pkg/bull/bull.go`) | none | `Evaluate`, `Compare` | the first triple found decides; lengths 3 to 6; zeros | the rank does not depend on loop order or on the inserted digit; ties go to the banker |
| Money (`money.go`, `model.go`) | none | parse, format, `profitFor`, `riskFor`, `exposureFor`, `fee` | rounding at three decimals, limits | a reservation covers every possible loss |
| Ledger core (`rounds.go`, `service.go`) | accounts, settings, rounds, bets, entries | `SetPlayer`, `Adjust`, `SaveRules`, `CreateDraft`, `Configure`, `OpenRound`, `PlaceBet`, `CloseRound`, `Preview`, `Settle`, `CancelRound` | commands of several operators and players in any order; the gap between preview and settlement; locks computed twice from rules that may be replaced | locks match open bets; every result is covered; a bet is settled once, under the rules it was accepted under, with the results previewed |
| Audit (`reconcile.go`) | none (reads) | `Reconcile` | formulas of its own for what the core also computes | it finds no fault in correct books |
| Balance requests (`balance_requests.go`) | balance_requests | request, approve, reject | a decision on a balance that has moved on | a request changes the balance at most once |
| Commands (`service.go` `Command`) | idempotency, audit | every mutation of the API | retries of commands whose answer was lost; crashes | at most one execution per key |
| Outbox (`outbox.go`, `delivery.go`, `internal/telegram`) | outbox, outbox_bots, cards, meta.pause | queue, claim, complete, fail, resolve, rate limit, restart | four workers, unknown results, 429, crashes, media fallbacks | per chat in order; nothing sent twice without an operator's word; nothing lost silently; progress |
| Group permissions (`group_permissions.go`, `internal/telegram/group_permissions.go`) | group_permissions | save, mute, restore | read-before-mute, failed restores, another bot | what is restored is what was there before the first mute |
| Updates and bot switch (`telegram.go`, `bot_switch.go`) | tg_updates, bot_sessions, bot_update_ids | `HandleUpdate`, `BindBot` | redelivery after a crash; a refused bet under a savepoint | each update acts at most once, in any interleaving with restarts |
| Runtime configuration (`internal/runtimeconfig`) | one file | `Save`, `Load` | compare-and-set, a crash between write and rename | old or new content, never a mixture; no lost update |
| Champion catalogue (`internal/champion`) | a snapshot and a file | refresh, read | publication while readers hold the old snapshot; an incomplete download | readers see whole snapshots only |
| Backup and recovery (`scripts/recovery.py`) | backup directories | create, verify, publish, prune | crashes between steps; pruning the last good backup | a verified backup survives; not modelled, see section 8 |
| Daily totals (`daily_totals.go`) | daily_game_totals | trigger on entries | must follow every insertion | totals equal the entries they summarise; not modelled, see section 8 |
| SQLite binding, HTTP API, web page, templates, images, history queries, start-up | - | - | I/O and formatting | not modelled, see section 8 |

**How they interact.** Every mutation, from the web page or the bot, is a function run
by `Service.Command` or `HandleUpdate` inside one `BEGIN IMMEDIATE` transaction, under
one mutex (`internal/sqlite`). Components share state through tables only. A command
never waits for the network: it queues notices in the outbox in its own transaction, and
the workers of `internal/telegram` claim, send and complete them in transactions of
their own. What interleaves is therefore: whole commands with each other; an operator's
look at a preview with everything else; and the claim, send and complete steps of the
workers with everything else, with crashes between any two of them. Outside the database
there are the settings file, replaced by `AtomicWrite`, and the champion cache, filled by a
background job; and there is the web page, which repeats calls it has heard nothing of.

**The hazards** of this code are listed one by one, each at its line and with the
properties that would catch it, in `PROJECT.json`.

## 2. Architecture of the project

| Modules | Source | Built on | Proofs |
|---|---|---|---|
| `Bull`, `Money`, `PrefixSums` | `pkg/bull/bull.go`, `money.go`, sums over tables | - | `PrefixSumsProofs`; scoring and money with `RiftLedgerProofs` |
| `RiftLedger`, `Reconcile` | `rounds.go`, `service.go`, `reconcile.go` | the three above | `RiftLedgerProofs` |
| `Delivery` (abstract) | what the outbox promises | - | `DeliveryProofs` |
| `Outbox` | `outbox.go`, `delivery.go`, repair of `schema.go`, `bot_switch.go`, `internal/telegram` | implements `Delivery` | `OutboxProofs` |
| `GroupPermissions` | `group_permissions.go`, `internal/telegram/group_permissions.go` | extends `Outbox` | with `Outbox` |
| `Once` (abstract) | "a request is decided once, acts at most once" | - | with `Updates` and `Commands` |
| `Updates` | `telegram.go`, `bot_switch.go`, poll loop of `internal/telegram/client.go` | implements `Once` | `UpdatesProofs` |
| `BalanceRequests` | `balance_requests.go`, `Adjust` | - | with `Commands` |
| `Commands` | `Service.Command`, `internal/sqlite` transactions, `httpapi`, the page's keys | extends `BalanceRequests`, implements `Once` | `CommandsProofs` |
| `RuntimeConfig` | `internal/runtimeconfig/store.go`, its handler, the restart | - | `RuntimeConfigProofs` |
| `Champions` | `internal/champion/service.go` | - | `ChampionsProofs` |
| `MC...` | values of constants for TLC | one of the above each | - |

`RiftLedger` treats a command as one step, which the transaction makes it; `Commands` and
`Updates` are about what surrounds that step (keys, answers, redelivery, crashes) and keep
the ledger to what the hazards there need. `Outbox` is about what leaves afterwards.
Modules that carry theorems, and those they use, have recursive functions only
(`PrefixSums!SumFcn`), so that the prover's SMT backend stays available.

**Left for later**: the entries table, with the daily totals and the remaining checks of
`reconcile.go`.

## 3. Modules

### The ledger core: `RiftLedger`

*State.* `balance`, `locked` and `status` are the accounts table; `settings` its one row
with the version; `rounds` and `bets` are the tables in the order of insertion (a row's
index is its id); `queued` is the set of outbox keys. `shown` is not in the database: it is
the preview on the operator's screen, with its token. The token is a hash of the preview
and the rules, and is modelled by what it hashes. Round numbers are the sequence part of
`YYYY-MM-DD-NNNN`, a natural number; the date prefix is constant.

*Actions.* One per command, guards being its error returns in their order of effect, all
or nothing because the transaction is: `Contact` (first message of a Telegram user),
`SetPlayer`, `Adjust`, `SaveRules`, `CreateDraft`, `Configure`, `OpenRound`, `CloseRound`,
`PlaceBet`, `Preview`, `Settle`, `CancelRound`; `Restart` is `EnablePlayerOnly`, which marks
the rules confirmed at every start. `Settle` and `CancelRound` share `Finish`: locks are
released, postings made bet by bet, results saved, the next draft created with the first
free number, and notices queued. Bets of one second are ordered by random ids, so `Finish`
tries the postings in any order (`Orders`). The `CHECK` constraints of the tables are
guards (`RowOK`). Settling an already settled round with the same token returns the stored
result and changes nothing; it is a stuttering step.

*Modes.* Production always runs with `PlayerOnly` (`cmd/server/main.go:116`): only player
accounts, no fees. The house mode, double entry between players, `house`, `fees` and
`external`, remains in the code for older databases and its tests, and is modelled with it.

*Start.* `InitialRules` are saved, and the rounds numbered `OldNumbers` were cancelled on
an earlier day, so that automatic numbers have something to step over.

*Left out.* The entries table (each change of a balance writes its entry in the same
transaction), the second check of `lock` on a release (`service.go:299`), which only an external
fee recipient could fail, names, heroes' ids, timestamps, texts, and the switch of an existing
house-mode database to player mode.

### Sending: `Delivery`, `Outbox`, `GroupPermissions`

*Outbox state.* `outbox` is the table: a row has its chat, kind, card, owner (`outbox_bots`),
state, attempts, due time and history (`delivered`, `retries`, `noted`, which stands for
`last_error`). `cards`, `botCards`, `pause`, `botPause`, `sessions` and `bot` are the tables
of delivery state for the bot in use and the ones set aside. `worker` is what each goroutine
holds between its transactions; `memPause` the scheduler's own copy of a rate limit; `ended` says that `Run` has met an error
that is not tried again. Times are what is left of them; `Tick` takes one second off all. Four
variables are history: `owed`, what is left of the longest wait each bot was told, counted from
the 429 itself; `unsaved`, that a worker of this process could not save one; `lost`, the waits
that ended with a process before they were saved; `ahead`, the workers that are past the last
look at the pause that could have stopped them.

*Outbox actions.* `Enqueue` (any command that queues a text, album, photo or captioned
photo, or a new version of a round card); `Claim` (one transaction: the claim query, permission
lane first, per chat in order), `Pace`/`GiveUp` (the scheduler lets a worker through, or the
worker gives up after fifteen seconds behind its pause), `Defer`/`Recheck` (the pause in the
tables looked up again before the call), `Transmit` (the call, with every answer the client tells apart: sent, sent without an id, not changed,
lost, refused, limited, never sent; a limit stops the scheduler at once, `Gate`), `Record` (its six outcomes: `RateLimit`,
`CompleteSent`, ..., `Fallback` to a text); `LocalFailure` (the transaction that records the
answer fails, and the row stays `INFLIGHT`); `Retry`, `Ack`, `Skip` (the operator);
`Restart(b)` (the process dies at any point and starts with bot `b`'s token; the repair of
`schema.go:121-131`), `Disconnect` (`Run` returns an error, after which it may be run again or
not), `BindBot`.

*Left out of it.* A payload that is not JSON, which `ClaimOutbox` marks `FAILED` (`outbox.go:250`).
A database of an older version starts with messages, but with no pause running and no card posted;
of such a pause the session that the first binding inserts would know nothing (`bot_switch.go:42`).

*The promise.* `Delivery` has one variable, the items ever produced, each with a licence to
be transmitted. A transmission uses the licence up; only an operator grants a new one; an
item leaves after all earlier ones of its lane and bot, a lane being one chat's messages or
one chat's changes of permissions; it is closed because it was sent or with a note. `Outbox!Items` maps rows to items; a row is licensed while it is pending, while
a worker that has not called yet holds it, and while one that knows it did not arrive is
about to say so.

*Permissions.* `GroupPermissions` adds the rounds' closing and ending, the snapshot
`original` of each round, the group's real permissions `perms` at Telegram, and in each
worker the step of `applyGroupPermission` it is at: `ReadState`, `GetChat`, `SaveSnapshot`,
`SetPermissions`, `RecordGroup`. A lost call may or may not have changed the group. `crossed` is history: a
task was claimed while an earlier one of another bot was not over (`Overtakes`). Only rounds queue tasks of the group
(`GroupAssumption`), as `queueGroupPermission` is called by `CloseRound`, `Settle` and
`CancelRound` alone.

### Receiving and deciding once: `Once`, `Updates`, `Commands`, `BalanceRequests`

`Once` says: each request gets one decision that stands, and acts once exactly if it was
accepted. It is stated apart because two components promise it.

*Updates.* At Telegram, `sent` and `forgotten` per bot: a poll gives out again what no later
poll has asked past. In the database, `offset` by bot, the older `metaOffset`, `ids`
(`bot_update_ids`), `handled` (`tg_updates`). `Poll` is `getUpdates`, whose answer may be
lost after Telegram has forgotten; `HandleUpdate` is the transaction of one update, consumed
whether its bet is accepted or refused; `HandleFails` its failure; `RunEnds` the end of `Run`, perhaps for good; `Restart(b)` and `BindBot`
the switch of tokens, the first of which also adopts what a version without sessions left.

*Commands.* `calls` are the requests under way from two pages and a program; a page keeps
the key of what it has not heard the end of (`KeyFor`), gives a call up, repeats it, or is
reloaded and forgets; `Execute` is `Service.Command`: a known key replays the stored
response or refuses another fingerprint, a new one runs the command and stores its response
in the same transaction; `Fail` and `Crash` undo it. Three commands stand for all: an
adjustment, an approval and a rejection of a `BalanceRequests` request, next to which the
player files requests, bets, and rounds end.

### Files: `RuntimeConfig`, `Champions`

`RuntimeConfig` takes `Save` and `AtomicWrite` apart: `BackUp`, `WriteTemp`, `Rename`,
`Finish`, any of which may fail (`BackUp`, itself an `AtomicWrite`, is one step) (`SaveFails`), with `Kill` and `PowerLoss` between any two.
A renamed file is there after a kill, but after a loss of power only when its directory was
synced, and only with contents that were synced (`flushed`, `linked`, `durable`). `acked` is the
configuration last reported, by a save that wrote it or by one that found it saved (`Replayed`). Around it:
the form of each page and its revision, the handler's answer, the restart the process asks
of itself, and `Open` at start.

`Champions` has the refresh job (`step`), its workers and their two channels (`jobs`,
`errs`), the time-out and restarts; a list is its version, a portrait a pair.

## 4. Runs

| Run | Configuration | Properties |
|---|---|---|
| `bull` | `MCBull.cfg` | `RankByTotal`, `InsertionFree` (the claim in the comment of `bull.go:25`), `TieToBanker` |
| `player` | `MCPlayer.cfg`: production mode, one player, three positions, two bets, an old round 2, numbers 1 to 3 | `TypeOK`, `RoundChain`, `WithinLimit`, `LockedIsHeld`, `BetsMatchRound`, `SettlementCovered`, `RulesFrozen`, `SettledAsShown`, `VoidIsNeutral` |
| `house` | `MCHouse.cfg`: double entry, fees at acceptance with and without refund and at settlement, edited drafts | `ReconcileBalanced`, `QuarterRule`, `SettlementCovered`, `VoidIsNeutral` |
| `audit_player` | `MCReconcilePlayer.cfg` | *violated*: the audit reports correct books as faulty, section 7 |
| `fee_account` | `MCFeeAccount.cfg` | *violated*: settlements that can never succeed, section 7 |
| `outbox` | `MCOutbox.cfg`: two bots, two workers, two chats, two old versions of a card and a new one at any time, at most 3 rows and their fallbacks, 1 retry, 1 fault, 2 restarts | `HeldAlone`, `CardPostedOnce`, `PauseKept`, `WaitRespected`, `ImplementsDelivery` |
| `group` | `MCGroup.cfg`: two bots, one worker, two rounds and a message, 1 fault, 1 retry, 1 restart, given up after 2 attempts, with fairness | `NeverSnapshotsMuted`, `RestoredStays`, `RestoreHappens` |
| `live` | `MCLive.cfg`: two bots, two workers, two chats that rest a second, texts and albums with their fallbacks, two messages, waits, 1 retry, 1 fault, 1 restart, with fairness | `EveryRowLeaves` |
| `updates` | `MCUpdates.cfg`: two bots with the same update numbers 1 to 3, a new database or an older one with one update or a whole batch handled, batches of 2, 1 fault, 2 restarts, 2 changes of the round | `NothingForgotten`, `IdsAreUnique`, `ImplementsOnce`, `EveryUpdateDecided` |
| `commands` | `MCCommands.cfg`: two pages and a program, 3 calls, 4 other steps, 2 requests, 1 bet, 1 fault | `AnswersAgree`, `RequestMovesOnce`, `LockedIsHeld`, `ImplementsOnce` |
| `runtime_config` | `MCRuntimeConfig.cfg`: two pages, two valid values and an invalid one, 3 saves, 3 faults | `NeverTorn`, `WrittenIsDurable`, `BackupIsPredecessor`, `SavedIsApplied` |
| `champions` | `MCChampions.cfg`: two versions, two workers, 3 faults | `PublishedComplete`, `NeverGoesBack`, `RefreshEnds` |

Every property of a passing run has a mutant in `PROJECT.json`: a plausible slip in one
definition (the operators commented "A plausible slip") that makes TLC find it violated.
Where a run has many properties, its type invariant is a conjunct of one of them
(marked "With the types.").

*Bounds and why they suffice.*
- **Ledger.** `MoneyScale = 1`, stakes of 1 and 2 units: the fee of 1 point, a stake, a doubled
  loss and a tripled payout are all distinct small numbers, and rounding half up matters at
  `loss 50`. Two bets in a round: the fewest for which the order of postings, a collision on
  one account, and "settled with part of the bets" exist. One player: accounts of two
  players interact only through `house`, which the house run covers with its own account.
  `MoneyLimit` is a few points above the largest deposit, so that winnings reach it.
  `Deltas` of +8 and -3 (-2): a bet needs four times its stake, and repeated debits reach
  exactly what is locked. A round, its successor and an old round in the way: the automatic
  number is taken, is free behind an occupied one, and does not exist. Drafts are edited in
  the house run (`MaxRevision = 2`), which the player run does without. `MaxVersion = 2` is
  one change of rules, which may come before, during or after a round. Inputs: a win, a loss
  and a void hero around each banker, a match too short to count, a cancellation.
- **Outbox.** Two workers are the fewest that can hold rows of one chat, or of one pause, at
  a time; two chats tell a lane from the queue; three rows tell "after the one before" from
  "after all before". Two restarts are a switch to the other bot and back. One fault and one
  retry give each failure a row of its own to happen to, and a second attempt after it. A 429
  whose saving fails as well takes two faults; that it leaves `PauseKept` true is in the theorem.
- **Live.** Two messages are a queue in one chat or one in each of two; an album and its fallback
  are two rows for one message. A chat rests, a wait lasts, a row is tried again, one worker
  fails, a row is left to the other bot: each alone and with the others.
- **Group.** Two rounds: the second mute after the first restore. Giving up after two attempts
  instead of five changes how often a failure repeats, not what follows. One restart is a switch
  to the other bot, one lost worker, or a `Run` that has ended. One worker, because the tasks of
  a group form one lane, in which a second worker finds nothing to claim; several workers are in
  the theorems.
- **Updates.** Three updates and batches of two: a batch that is full, one that is not, and a
  rest; a full batch that an older version handled, and a part of one. Two restarts: away from a
  bot and back.
- **Commands.** A key can be used by a first call, its repetition, and one with another command.
- **Files.** Three saves and three faults: a failure, a kill and a loss of power in one behaviour.

`CHECK_DEADLOCK FALSE` stands where a bounded instance may come to rest: all messages
sent, all updates handled, all faults used up. The ledger runs check deadlock.

**Fairness**, and why the code justifies it:
- `live`, `group`: weak fairness of each worker's steps (goroutines that loop for ever; a call
  ends within its time-out), of `BindBot` and of `Tick`. `Run` is started again when it fails
  (`cmd/server/main.go:148-169`), except for an error that needs attention: a refused token, a
  bot other than the one named, an `Offset` that cannot be read (`internal/telegram/client.go:81`, `:249`). That is
  `ended`, a choice of `Disconnect`: `BindBot` is then disabled, and the properties say so.
  Queueing, operators and restarts are not fair.
- `updates`: weak fairness of `BindBot`, `Poll` and `HandleUpdate`, the loop of `Run`, until it
  has ended for good (`RunEnds`).
- `runtime_config`: weak fairness of the steps of a save, of the process's signal to itself,
  its exit and its start by the supervisor (`restart: unless-stopped` of `compose.yaml:9`; the
  systemd unit does not give this, see section 7); strong fairness of `Respond`, which waits for a mutex that Go does not let waiters starve
  for.
- `champions`: weak fairness of the job's steps: each request ends after 20 seconds, and all
  of them after five minutes.

## 5. What the properties say

The comments of the modules state each; these are the ones to start from.

- `LockedIsHeld` (ledger): on each account, `locked` is the sum of what the open bets
  reserved, although reservation and release are computed apart.
- `SettlementCovered`: for every closed round, every input and every subset of bets already
  posted, the next posting leaves no account below what stays locked on it. This is why a
  settlement never fails for want of money, in any order of its bets. In house mode it excepts
  a cancellation under `void_fee = charge`, which refunds fees that nothing reserved.
- `SettledAsShown`: between preview and settlement anything may happen; what is posted is what
  was shown last.
- `ImplementsDelivery`: across crashes, lost answers, rate limits, retries and bot switches,
  nothing is transmitted twice without an operator's word, nothing overtakes, and nothing is
  over without having been sent or leaving a note.
- `CardPostedOnce`: of the versions of a round card a bot posts one, and edits no message but
  its own.
- `PauseKept`: the wait a bot is told in a 429 stands from that answer on, in the scheduler until
  it is saved and in the tables afterwards, over restarts and switches; a process that ends in
  between takes it along (`lost`, section 7). `WaitRespected`: while it stands no message is sent,
  except by workers it finds past the scheduler, and once it is saved past their second look,
  each of which sends one.
- `NeverSnapshotsMuted`, `RestoredStays`: what is restored is what the group had before its
  mute, and a late mute does not undo the restore, unless the bot was switched and a task has
  overtaken one of the other bot's (`crossed`, section 7).
- `EveryRowLeaves`, `RestoreHappens`: a message, and the restore of a round, leaves or is where an
  operator sees why it does not: behind a row to decide on, behind one whose answer could not be
  saved, with another bot, or with a `Run` that has ended.
- `NothingForgotten`, `EveryUpdateDecided`, `ImplementsOnce`: what Telegram forgets has been
  decided, what it has is decided in the end (unless it is behind a full batch handled before a
  first binding, `Clogged`, section 7), and never twice.
- `AnswersAgree`: whoever is told "done", by the execution or by a replay, is told the same.
- `WrittenIsDurable`: a configuration that a save reported, as written or as saved already,
  survives kill and loss of power, unless the report came after a restart that had overtaken the
  sync of the directory (`hasty`, section 7).
- `NeverGoesBack`, `PublishedComplete`, `RefreshEnds`: readers see complete lists, never an
  older one than before, and no failure leaves the refresh hanging on its channels.

## 6. What is proved

TLAPS checks these for all values of the constants that satisfy the modules' assumptions
(TLC evaluates the assumptions on every run).

| Theorem | States |
|---|---|
| `RiftLedgerProofs!TypeCorrect` | `Spec => []TypeOK` |
| `RiftLedgerProofs!BetsSettledOnce` | `Spec => []BetsMatchRound` |
| `RiftLedgerProofs!OneActiveRound` | `Spec => []RoundChain` |
| `RiftLedgerProofs!RulesNeverChange` | `Spec => RulesFrozen` |
| `RiftLedgerProofs!LocksMatchBets` | `Spec => []LockedIsHeld`, assuming `TimedRules` |
| `RiftLedgerProofs!SettlementIsCovered` | `Spec => []SettlementCovered` |
| `RiftLedgerProofs!BalancesStayInRange` | `Spec => []WithinLimit` |
| `RiftLedgerProofs!SettledOnlyAsShown` | `Spec => SettledAsShown` |
| `RiftLedgerProofs!VoidCostsNothing` | `Spec => VoidIsNeutral` |
| `RiftLedgerProofs!StakesWithinQuarter` | `Spec => []QuarterRule`, assuming `TimedRules` and house mode |
| `RiftLedgerProofs!AuditFindsNoFault` | `Spec => []ReconcileBalanced`, assuming `TimedRules` and house mode |
| `RiftLedgerProofs!RankIsTotal`, `InsertionIsFree`, `TiesToBanker` | `[]RankByTotal`, `[]InsertionFree`, `[]TieToBanker` after `TypingSpec` of `MCBull` |
| `RiftLedgerProofs!RiskCovers` | a reservation covers the stake and every rounded loss |
| `DeliveryProofs!DeliveryTypes`, `TransmittedAtMostOnce`, `TransmittedInOrder`, `NothingVanishes` | what `Delivery` implies: at most once, in order, nothing lost silently |
| `OutboxProofs!OutboxKeepsPromise` | `Spec => ImplementsDelivery`: the outbox implements `Delivery` |
| `OutboxProofs!OutboxSendsOnce`, `OutboxSendsInOrder`, `OutboxLosesNothing` | what `Delivery` implies, of the rows of the outbox |
| `OutboxProofs!RowsAreHeldAlone`, `CardsArePostedOnce` | `Spec => []HeldAlone`, `[]CardPostedOnce` |
| `OutboxProofs!PausesAreKept`, `WaitsAreRespected` | `Spec => []PauseKept`, `Spec => WaitRespected` |
| `OutboxProofs!TasksAreHeldAlone`, `TasksKeepPromise` | `GroupSpec => []HeldAlone`, `GroupSpec => ImplementsDelivery` |
| `OutboxProofs!SnapshotsAreTrue`, `RestoresStay` | `GroupSpec => []NeverSnapshotsMuted`, `[]RestoredStays` |
| `UpdatesProofs!UpdatesImplementOnce`, `IdsStayUnique`, `NothingIsForgotten` | `Spec => ImplementsOnce`, `[]IdsAreUnique`, `[]NothingForgotten` |
| `UpdatesProofs!UpdatesActOnce`, `DecisionsOnUpdatesStand` | what `Once` implies, of the updates |
| `CommandsProofs!CommandsImplementOnce`, `AnswersAlwaysAgree`, `RequestsMoveOnce`, `LockedAlwaysHeld` | `Spec => ImplementsOnce`, `[]AnswersAgree`, `[]RequestMovesOnce`, `[]LockedIsHeld` |
| `CommandsProofs!KeysActOnce` | what `Once` implies, of the keys |
| `RuntimeConfigProofs!FileNeverTorn`, `WrittenStays`, `BackupFollows` | `Spec => []NeverTorn`, `[]WrittenIsDurable`, `[]BackupIsPredecessor` |
| `ChampionsProofs!ListsAreComplete`, `ListsNeverGoBack` | `Spec => []PublishedComplete`, `Spec => NeverGoesBack` |
| `ChampionsProofs!ReportsFindRoom` | a worker with an error to report finds room in its channel |

*The ledger.* The first three come from one inductive invariant, `TablesInv`: types, "an opened
round has a banker" (`BankerChosen`, without which the outcome of a bet is not defined and the
types cannot be kept), bets against rounds, and the chain. One lemma per command shows that it
is kept; `FinishEffect` and `FinishTables` are the settlement. `NextRules` says where a round's
rules come from, which gives `RulesNeverChange`. `LocksInv` adds `LockedIsHeld` and `FeesInv`:
in house mode every rule set names a fee timing, in player mode no bet has a fee. `FeesInv` is
needed: `PlaceBet` locks a refundable fee when the timing is *not* `settlement`, `Settle`
releases it when it *is* `acceptance`, and with the third value, `""`, the lock stays for ever.
That is why `TimedRules` is assumed for house mode; in player mode it holds outright.

*Settlements.* Five more theorems are about what `Finish` does to balances; a balance after
part of the postings is a sum over bets (`BalanceIsSum`), and each proof compares sums.
- `SettlementIsCovered` rests on `SolventInv`: `TablesInv`, and no account except `external`
  below its locks (`Solvent`). Each bet's release covers what its posting may take, the game
  part by `ExposureCovers` and `RiskCovers`, the fee by `RefundReserved` (`BetCovered`); the
  sum of the releases therefore covers any subset of postings (`CoveredSum`). Equality of locks
  and reservations is not needed, hence no `TimedRules`.
- `BalancesStayInRange` goes through a settlement posting by posting: if the balances are in
  range after some postings of the order found, they are after the next one, because
  `PostingOK` has checked it (`PostingInRange`, by induction over the order).
- `SettledOnlyAsShown`: `Settle` compares the token of the preview on the screen with that of
  one computed afresh, and equal tokens are equal lines and rules; a cancellation, which asks
  for no preview, makes every bet void.
- `VoidCostsNothing`: a void line has no game part, and in player mode no bet has a fee to
  keep (`FeesFree`, which `FeesInv` gives); in house mode, where fees are taken at acceptance and refunded, the refund is the fee taken.
- `StakesWithinQuarter`, by `QuarterInv`: solvency, `FeesInv` and the rule itself. A bet is
  accepted under the rule (`PlaceBetQuarter`), whose balance is then reduced by a fee that is
  counted back; a debit is refused by the same formula (`AdjustQuarter`). In player mode a
  debit looks at locks only, and with a timing of `""` a fee leaves the balance and is not
  counted back; the rule is therefore stated, and checked, for house mode and `TimedRules`.

*The audit.* `AuditFindsNoFault` compares two sets of formulas. Locks: what `reconcileTx` expects
of an open bet is what `PlaceBet` reserved, bet by bet, provided the rules name a timing
(`ExpectedIsHeld`); `LocksMatchBets` does the rest. The total: `TotalOf` adds the balances up in
some order of the accounts (`Rows`), which exists because the players are finitely many
(`ReconcileAssumption`). A posting is a transfer between two accounts and leaves the total
alone (`MovedTotal`); that all postings of a settlement do, for any number of bets, is an
induction over the bets (`FinishTotal`). It is a theorem of the house mode only: in player mode
there is no double entry, and the audit's own formula is another one (finding 1 of section 7).

*Scoring.* The theorems are about `TypingSpec` of `MCBull`, for any set of digits, all ten
included, where TLC looks at damages made of five of them. The loops stop at some triple
(`FirstTripleIn`), and what any triple leaves has the remainder of the total (`RankOfTotal`).
For the inserted 1, `SameHand` says that two orders of the same digits give the same hand, and
`InsertedHand` looks at the five places.

*The outbox.* `OInv` says that what a worker holds is `INFLIGHT`, active, held by it alone, and,
if it is a message, that everything ahead in its lane is `SENT` (`Holding`); that a row with a
note is over and a fresh one was transmitted (`RowOK`); and that before the first binding
nothing has left and afterwards every row has a bot (`BotsOK`). Where most actions change one
row and one worker, `RowStep`, `DecisionStep` and `WorkerStep` say what keeps `OInv`, and each
action shows that it is of that kind. `PauseInv` says where a wait is: for each bot, what it owes is
covered by what was lost, by the pause in the tables, or, for the bot in use, by the scheduler
together with a worker that is to save it or failed to; that a bot's own copy of its pause is
never behind, even while the bot is in use, without which a switch back could forget a wait; and
that whoever may still pass a look at the pause is known to `ahead`. `CardInv` adds that a card
once posted can be edited by the bot that posted it, and that no worker about to post a card has a
posted one before it; its step uses `D!InOrder`, the order the abstract specification promises.
`BackInv` is its converse, that a bot's cards and the edits under way are of messages that bot has
posted. `OutboxKeepsPromise` maps the tables to `Items` and shows,
with one lemma per action (`...Maps`), that it is a step of `Delivery` or none: what a worker
holds has a licence exactly until it calls (`Licences`), a restart takes the
licence of messages in flight away or closes them with a note, a fallback closes an item with
a note and appends the one that replaces it.

*Permissions.* `GInv` adds to `OInv` that rounds follow one another (`RoundsOK`), that the group's
rows are the tasks of rounds in the rounds' order (`TasksOK`), that no task begins and nothing is
saved before all restores ahead are through (`Turns`), what a worker knows between its calls
(`SeenOK`), and that the group is muted only for a round whose restore is to come (`PermsOK`).
With several bots this is not an invariant: the permissions are the group's, the tasks a bot's,
and a restore queued before a switch waits for the bot that was replaced (section 7). What is
proved inductive is `TInv`, what holds of tasks in any case, together with `Uncrossed`: `GInv` as
long as no task has overtaken another bot's. Without crossing, the earlier tasks of *all* bots are
over when one is claimed, and the argument is that for one bot.

*Updates.* `UInv` has two phases. Until a bot was bound for the first time (`Fresh`) there are
no internal ids, and what an older version handled is known by number. Afterwards (`InUse`) an
update is decided exactly if its internal id is among those handled (`TablesAgree`), nothing
undecided is behind an offset or behind what Telegram forgot, and the batch in memory is a run
of numbers whose predecessors are all decided (`BatchFollows`): that is why handling it in order
may move the offset one by one. The only new id that needs an argument is the one above all
others, hence `Bounded`.

*Commands.* `IInv` is `Typed`, `Decided` (a key acted once if it has a row, and never otherwise)
and `Agrees` (every answer under way is the one in its row). The books need `Books`, a bet is
covered by what is locked, and `Moves`, every adjustment is known to its request; neither refers
to keys, so the two arguments meet only in `Execute`.

*Settings.* `CInv` says that the file and what a loss of power would leave of it are both valid,
both not older than what was last acknowledged, and both backed up (`DiskInv`); that the memory
is the file or, after a save that failed in its last step, its predecessor (`MemoryInv`); and that
the save under way writes the successor of what it has backed up (`SavingInv`).

*Champions.* `CInv` says that the list shown, the one on the disk and the one upstream are in this
order, with the one a job fetches in between (`Ordered`); that while a job downloads, every
champion is still in its channel, held by a worker, or has its portrait, unless the job was cut
off, and that a worker stops only when the channel is empty (`JobOK`); and that the errors
reported, the champions waiting and the workers busy are together no more than the champions
(`RoomOK`). `JobOK` gives `PublishedComplete`, since nothing is published after an error or a
time-out; `RoomOK` gives `ReportsFindRoom`, the reason why the collector, who waits for all
workers before it reads their errors, does not wait for ever.

*Sums and induction.* `SumTo(w, n)` is the sum the SQL queries compute. The induction theorems of
the library take an operator as parameter, which the installed provers cannot instantiate, so
`PrefixSumsProofs` derives induction over sets of naturals from well-foundedness
(`NatSetInduction`, `NatLeast`) and proves what the ledger needs: unfolding (`SumStep`), equality
and monotonicity term by term, additivity.

*Only model-checked:* liveness under fairness (`EveryRowLeaves`, `RestoreHappens`,
`EveryUpdateDecided`, `SavedIsApplied`, `RefreshEnds`). It, `ENABLED`, induction over data through
operators and `RECURSIVE` operators are out of the prover's reach. Every invariant and every
action property of the passing runs is a theorem; those that assume `TimedRules` or house mode
say so above, and the exceptions `lost`, `ahead`, `crossed` and `hasty` are part of the properties.

## 7. Findings and observed divergences

Two runs are kept as findings.

1. **The audit contradicts the ledger in player mode** (`reconcile.go:28`). It expects
   `SUM(stake)` to be locked; `PlaceBet` locks the largest loss. With a loss multiplier above
   one, a database with one open bet is reported as faulty.
2. **Fee settings can block settlement in player mode** (`rounds.go:459`). With
   `fee_timing = acceptance` and `void_fee = refund`, which `SaveRules` stores unchecked,
   `Settle` and `CancelRound` look up a fee account that the mode has removed. No round with
   a bet can be settled or refunded until the stored rules of that round are repaired.

The models also show the following, which no run is spent on.

- *A message belongs to the bot bound when it was queued* (`schema.go:44`), and commands run
  before the new token is bound (`bot_switch.go:68`); what they queue in between waits for the
  old bot, while `docs/BOT_SWITCH.md:8` speaks of the new bot's own queue.
- *With two bots a muted group can be saved as the original.* A restore queued before a switch
  waits for the bot that was replaced (`group_permissions.go:31`), and `active_outbox` does not
  show it to the other bot's tasks (`outbox.go:241`). The other bot's mute of the next round then
  runs, reads the muted permissions and saves them, against `group_permissions.go:57` ("Retries
  must never snapshot a muted group"); its restore leaves the group muted, and the first bot's, if
  that comes back, arrives out of turn, against `README.md:90`. TLC shows both when `~crossed` is
  taken out of `NeverSnapshotsMuted` or `RestoredStays`; the properties speak of what happens
  before a task has overtaken another bot's.
- *A wait can be lost between the answer and its transaction.* `delivery.go:19` says that a restart
  never shortens `retry_after`; that holds from `RateLimitOutbox` on. A process that dies after the
  429 and before that transaction, or after it has failed four times (`persistDelivery`,
  `internal/telegram/delivery.go:12`), leaves nothing of the wait: the row is repaired at start and the next message
  goes out at once. TLC shows it when `lost` is taken out of `PauseKept`.
- *The first binding on an older database starts at update 0* (`bot_switch.go:42`), not at the
  offset that `docs/BOT_SWITCH.md:7` has in mind. The adopted ids see to it that nothing is handled
  twice (`ImplementsOnce` holds), but an update that is passed over does not move the offset
  (`telegram.go:92`): if Telegram still gives out a full batch of 50 updates handled before, the
  same batch is polled for ever and no newer update is reached. TLC shows it when `Clogged` is
  taken out of `EveryUpdateDecided`.
- *A save can be reported before it is durable.* The process is killed between the rename and the
  sync of the directory, starts again and reads the new file; the page repeats its save and is told
  "ok" by the replay (`store.go:106`), which writes nothing. A loss of power before the kernel has
  written the directory back takes the reported save along, although the comment of `AtomicWrite`
  (`store.go:130`) and the order of `Save` are meant to exclude that. TLC shows it when `hasty` is
  taken out of `WrittenIsDurable`.
- *The page drops a key when its repetition is refused* (`web/app.js:30`), although the first
  call may still be executed; the next attempt acts again, under a new key (`docs/API.md:24`).
- *The answer to a save is read after the mutex was released* (`httpapi/server.go:268`): a page
  may be shown the revision of another page's save, and overwrite it unseen (`store.go:105`).
- *A directory sync that fails after the rename* (`store.go:123`) is reported as a failure, with
  the new settings on the disk; the next start runs with them.
- *Under systemd the restart for new settings is a stop.* The unit restarts only on failure
  (`deploy/rift-ledger-go.service:16`), but the process that signals itself shuts down cleanly
  and returns no error (`cmd/server/main.go:141`, `:192`), while `httpapi/server.go:42` speaks of
  asking the process manager to restart the service. `SavedIsApplied` holds under compose only.

## 8. What is not modelled

- *Recovery scripts* (`scripts/recovery.py` and its timers): sequential programs beside this one.
  They take a snapshot through SQLite's backup API, which is consistent because the commands are
  transactions.
- *Daily totals* (`daily_totals.go`): sums kept by SQL triggers on the entries table, which the
  ledger modules do not have.
- *Schema migrations* run once, in one transaction, before anything else; the repair of the outbox
  at start is in `Outbox`. The switch of an old house-mode database to player mode is left out.
- *SQLite binding*: relied on for atomic, serialised transactions; that one of them fails as a whole
  is an action of `Commands`, `Updates` and `Outbox`.
- *Parsing and formatting* of amounts, chat commands, templates, images, history queries,
  authentication: they keep no state that a property relates to another.
- *Callback answers* of the bot: a queue in memory that drops what does not fit.
- *The lock on the data directory*: the kernel's; the models have one process.
