# Ricky: a TLA+ verification project

Ricky is a personal agent. A conversation (Telegram, terminal) hands work to
background *executions*; workers claim and run them, stop for human approval
before a browser effect, and report through a notification outbox. Recurring jobs
read streams, spend delegated budgets and leave durable tasks behind. Everything
durable is in SQLite files, one per subsystem. Several processes share them: the
gateway service, `ricky execution worker`, cron, and every command a user types.

The correctness of the program is in how those processes leave the stores
behind: leases and fences, crashes between two commits in different databases,
a cancellation that races a finish, an ambiguous send. That is what is modelled.

Paths below are relative to `src/src/ricky/`.

## Inventory

| Part | State it keeps | Operations that change it | Module |
|---|---|---|---|
| Execution request store `executions/store.py` | requests, resolutions, browser approvals; also drafts, contracts | submit, claim, start, renew, finish, cancel, retry, resolve, recover, prune; acknowledgement hold; park, decide, expire, resume, invalidate, attest | `ExecutionStore` (drafts and contracts left out) |
| Dispatcher `executions/dispatcher.py`, parked tool `executions/parked.py`, heartbeat `owned_operation.py` | tasks in flight | `worker_once`, `_dispatch_one` and its exits, cancel, notify; prepare, wait, consume, abort | `ExecutionDispatcher` |
| Notification outbox `notifications/store.py`, delivery `messaging/runtime.py`, parts in `messaging/store.py` | entries, attempts, parts, receipts | enqueue, claim, renew, finish, recover, retry, resolve, cancel, prune; prepare, send, record | `DeliveryOutbox` |
| Sessions `sessions/store.py`, `sessions/service.py` | sessions with lease and revision, turns | acquire, begin turn, commit, fail, release, recover, archive | `SessionTurns` |
| Inbox `messaging/store.py`, conversations `gateway/conversations.py`, `gateway/store.py`, handoffs `gateway/handoffs.py` | inbound messages, conversations, one result per message | ingest, claim, process, rotate, settle, dismiss, reconcile | `GatewayTurn` |
| Recovery `gateway/recovery.py` | none | settles stale records of every store | in each module |
| Retention `gateway/retention.py` | none | plan, apply | `Retention` |
| Effect ledger `jobs/store.py`, `jobs/effects.py`, authority `authority/` | actions, run and grant budgets, grants | reserve, dispatch, resolve, strand, reconcile, consume, revoke | `EffectLedger` |
| Job streams `jobs/runner.py`, `jobs/stream.py`, `jobs/escalation.py`, `jobs/lock.py` | job runs, batches, dispositions, cursors, escalations | launch, collect, record, account, escalate, finish, commit cursor | `JobStreams` |
| Durable tasks `durable_tasks/` | tasks with lease and revision | create, claim, renew, mutate, finish, reopen, park for review | `DurableTasks` |
| Upgrades `upgrades/`, `installation.py` | journal, manifest, backups | prepare, apply, verify, resume, roll back, discard backups | `UpgradeCoordinator` |
| Schedules `schedules/` | schedule table, crontab block | reconcile, install, verify | none |
| Protected values `protected_values/` | vault, approvals, uses | reserve, finalize, rotate | none |
| Browser runtime `browser/` | leases, holds, challenges, pages | page automation | none |

What is hard: interleavings of processes between two transactions; state read
before an await and used after it; crashes between commits in different
databases; leases that lapse under a live owner; approvals and cancellations that
arrive late; sends whose outcome is unknown. `PROJECT.json` lists each hazard at
its line with the properties that would catch it.

## Modules

In every module one store call is one `BEGIN IMMEDIATE` transaction and so one
action; what a process does between two awaits is one action; crashes, other
processes, users and time come in between.

**`OnceOnlyWork`** is the abstract specification of background work: announced before
it is ready, begun at most once, never put back once begun, a request to stop kept,
an unknown outcome settled by a person only. It knows nothing of claims, leases,
fences, approvals and deadlines. **`ExecutionStore`** is the request and approval
tables and implements it: `phase` is `PhaseOf(status)` (a claim is not yet work),
`begun` says that some fence started a run. `claim()` is two transactions
(`ClaimRecover`, `ClaimQueued`) under the clock of the first, kept in `scanning`; a worker
that dies or fails in between forgets it (`ClaimDropped`).
`runs` and `resolved` are the history the properties need.

**`ExecutionDispatcher`** EXTENDS the store with the workers. `slot[w]` is where the
worker's `_dispatch_one` is, `tool[w]` what its parked tool does, `observable` the
requests whose run left evidence, `dispatched` how often an effect reached the
provider, `notified` the result notifications. A batch of claims is a batch of slots
(`SlotAssumption`). Each `except` clause of `_dispatch_one` is a `Handle...` action;
`Settle`, `ReadEvidence`, `FinishInterruption` are the transactions of a settlement.

**`Retention`** EXTENDS the dispatcher with an `apply()` pass: protected handoffs are
read, the plan is made, requests and then notifications are deleted, each in another
transaction.

**`DeliveryOutbox`** is the outbox, attempt ledger, transport parts, delivery loops
under their heartbeat, operator actions, and startup recovery.

**`SessionTurns`** is the session table and the bounded turn of
`PersistentTurnService`: a lease is named by its fence, `turner[o]` is where an owner's
turn is, and the base revision of every turn is kept. **`GatewayTurn`** EXTENDS it with
inbox, conversations, results, the reply's outbox entry and the background request the
turn admitted: `worker` is `ConversationCoordinator.process`, `recovery` the operator's or
startup's passes and `_reconcile_handoff`. It is the composition of four databases that
no transaction spans.

**`EffectLedger`** is one grant and the calls that spend it: reservation (key, three
counters and tombstone in one transaction), dispatch, resolution, consumption of the
grant, retirement of its budget, revocation in two databases, stranding and
reconciliation. Each store call of `_finalize` may raise while the run goes on
(`FailResolution`, `FailFinalization`). `effected` is what the provider really did,
`cutShort` which finalizations raised, and where.

**`JobStreams`** is the runs of one recurring job over one stream: the file lock that
is tried once, collection from the committed cursor with the newest `ItemLimit` items,
dispositions, accounting, escalation of blocked items (task and correlation are two
databases), outcome and cursor (two transactions). Instants are numbered; `WindowStart`
is the lookback when there is no cursor.

**`DurableTasks`** is the task table, the tools of attended and unattended sessions
(the guard's read, the tool's read and the mutation are three transactions) and
`park_for_review` with its unwinding, cancelled waiters included. A session has several
tool calls at a time (`CallsOf`), as the calls of one response run concurrently
(`agent/loop.py:802`); they share the leases their session knows, which a call learns
only after its transaction (`SyncLease`) or never (`LoseSync`).

**`UpgradeCoordinator`** is prepare, resume, rollback and failure recording over
journal, manifest, backup, stores and release; a crash or an exception between any two
durable writes, those of one restored target included (`DetachItem`, `RestoreItem`). It implements **`AtomicUpgrade`**, what a user of the installation may
see: it closes and opens again, with release and every store one generation further or
as they were, and every write still there. Under the mapping a closed installation shows
the generation its manifest holds and the last writes its whole stores hold at that
moment. A store whose restore stopped between its two writes is `Torn`: its last write is
in the backup only, and it counts as the last write of the backup until it is whole.

The theorems are in the `...Proofs` module of each component; those about `SessionTurns`
are in `GatewayTurnProofs`, whose module extends it. The `MC...` modules
declare model values and symmetry sets. Four of them put components side by side that
share no state (`MCDispatcherFocus`, `MCLedgers`, `MCFairParts`, and the tasks in
`MCGatewayTurn`), or explore one component part by part: a variable chosen in the
initial state says which one a behaviour is about, so the state space is the sum and
not the product. The restrictions of a focus are written where the focus is defined.

### Abstractions

* A NULL deadline or time is `Never`, later than every instant; token k is the
  one issued with fence k, 0 is none; a request id stands for its request key;
  activities and `claimed_by` are left out.
* `ExecutionStore`, the dispatcher and `DeliveryOutbox` have a clock, read once at the
  start of a transaction; the exceptions are `claim()` (`scanning`) and
  `prepare_parts`, which reads it before the lock (`Stalls`). In `SessionTurns`,
  `GatewayTurn` and `DurableTasks` the passing of an expiry is an action (`Lapse...`) and
  a renewal only postpones it.
* What a run does is: become observable, park an effect, end with an outcome,
  raise. What the agent does with a batch is any sequence of the accounting and
  effect tools. A model's answer is: produced observable output or not, started
  background work or not.
* A database error in a handler, or a cancellation there, ends the handler: the
  slot becomes idle and the row stays, exactly as after a crash. `HeartbeatFails`
  and `NotifyRaises` are the errors with an effect of their own.
* In `Retention`, which acknowledgements have a cancelled outbox entry is chosen
  freely, and every notification counts as delivered by the time it is pruned.
* In `DeliveryOutbox` an exception of the transport other than the two it
  declares is a `Crash`: nothing is written and the lease lapses.
* In `GatewayTurn` one conversation key is modelled; read-only commands and compaction
  answer without a turn and are left out.
* In `JobStreams` messages and collections happen at distinct instants, an item has one
  action key, and every outcome of a run that is not `succeeded` is `failed`.
* In `UpgradeCoordinator` what users wrote is the number of the last write, and software
  and data generations are numbered alike.

## Runs

| Run | Result | Shows |
|---|---|---|
| `store` | pass | two named jobs under two claiming workers with holds and retries, or two ad hoc requests with approvals: rows valid, one run per request, owned by its claim, never before its acknowledgement, no retry beside its parent, and the store implements `OnceOnlyWork` |
| `dispatcher` | pass | one worker and two occurrences of one effect; two workers that take over; one worker that reports: an effect dispatched at most once, `cancelled` only without observable work unless a takeover came between, no live approval without its waiter, reports equal outcomes and follow the acknowledgement. Or a stream under two launching processes: nothing skipped, blocked items reach the user, the cursor moves forward and passes settled messages only |
| `fair_parts` | pass | liveness: cancellations settle, finished requests are reported, lapsed leases are settled; upgrades implement `AtomicUpgrade`, lose no write, stay restorable, keep their decisions and always leave the installation usable again |
| `ledgers` | pass | budgets exact, no effect twice, evidence sound, ambiguity and revocation stop further effects; or delivery: ledgers agree, nothing sent twice, `delivered` has all receipts |
| `gateway` | pass | one turn per message, no lost update, acknowledgements kept, inbox and result agree, `/new` idempotent, uncertainty kept; or tasks: the baton is respected but for a hand-over by a concurrent call of the same response, a failed parking never cancels a delivered review under its own lease |
| `dispatcher_two_workers` | violation | finding 1 |
| `retention_plan` | violation | finding 2 |
| `delivery_stalled` | violation | finding 3 |
| `effects_live_recovery` | violation | finding 4 |
| `session_takeover` | violation | finding 5 |
| `handoff_repair` | violation | finding 6 |
| `stream_first_run` | violation | finding 7 |

### Bounds

* Store and dispatcher: `MaxTime` 2 lets a lease be renewed, lapse, be recovered and be
  issued again; `MaxFence` 2 is a claim and its successor. Two requests are a request
  and its retry, or two rivals; two workers an owner and a successor; one effect with two
  approvals is the smallest conflict. `Crash` happens only while the lease can still lapse
  before `MaxTime`, and `OutlivesClock` exempts a lease that outlives the explored time:
  without them the end of time would look like a system that does not recover.
* Delivery: one entry of two parts (the first, and the one after a receipt), two loops,
  three fences, an attempt limit of 2, so that the limit and not the bound stops a retry.
* Effects: two concurrent calls, two keys, two actions; money 1 and run budget 2 can
  be reached, the limit of 3 effect calls lies beyond them so that no other counter hides
  a wrong one. A behaviour has either finalizations that raise or a grant that is
  revoked or expires; the proofs have both together.
* Gateway: two messages, one of them `/new`; two claims per message and one crash; two
  turns and three fences in a session, which an old owner, its successor and a third share.
* Tasks: one task, one call of an attended session, two concurrent calls of an unattended
  one, six revisions, two claims. Explored in two parts (`ToolsFocus`, `ParksFocus`):
  without parkings, the attended call and one of the two claim the task or hand it over,
  while the other claims or progresses (the mutation stands for all leased ones: which
  state it writes no property tells apart); and all three calls parking, beside the claim
  of one. The proofs have every operation, any number of calls and sessions.
* Streams: two messages, limit 1 (so that a burst is incomplete), two runs, two
  launchers, four instants (two messages and two collections).
* Upgrades: two operations of two steps each, two faults anywhere, one user write.

History counters stop one past what the properties allow. Deadlock is not checked:
when every request is over and a bound is reached, nothing is left to do.

### Fairness

`fair_parts`: weak fairness of time and of each worker's own steps (`Progress`), which
include the recovery of each poll: an asyncio task that is not blocked is scheduled, and
`worker()` loops for ever. Crashes, exceptions, users and approvals have none. In an
upgrade a coordinator that was started goes on (weak fairness of its steps) and the
operator tries `resume` and `rollback` again and again (strong fairness, since either is
refused in some states), as the coordinator's own error messages ask for; faults are
finitely many. `handoff_repair`: the service loops (worker, delivery, reconciliation) are
scheduled and leases lapse. No liveness is claimed for delivery, whose stale claims are
recovered only when the gateway starts or an operator asks, nor for streams, tasks and the
effect ledger, where the next step is a schedule's or a person's.

## Findings

1. `dispatcher_two_workers` (`executions/dispatcher.py:968`). A worker cancelled
   while preparing a claim that lapsed meanwhile settles the row under the claim
   it reads then, its successor's. The request becomes `cancelled` while the
   successor's run goes on. `.designs/architecture.md:376` promises `cancelled` only
   when nothing is observable.
2. `retention_plan` (`executions/store.py:1975`). The parent of a named-job retry
   is not protected; its deletion fails on the foreign key and ends the pass.
   `gateway/retention.py:3` promises only unreferenced records.
3. `delivery_stalled` (`messaging/store.py:971`). `prepare_parts` judges the lease by
   a clock read before the lock, so parts can appear between recovery's look at
   them and its decision. `notifications/store.py:345` calls that requeue illegal.
4. `effects_live_recovery` (`gateway/recovery.py:667`). Recovery by command strands the
   reservation of a live run and consumes no grant; the run's own finalization raises, or
   had raised before, and the grant stays usable. `browser/authority.py:174` says that any
   ambiguity freezes further mutations.
5. `session_takeover` (`sessions/store.py:652`). A turn whose lease ran out fails and
   then releases the lease, after which nothing finds its `running` turn.
   `sessions/service.py:270` says startup inspection can surface it.
6. `handoff_repair` (`gateway/store.py:294`). Reconciliation of a handoff whose
   conversation was replaced violates the index of active conversations on every
   attempt, so the acknowledged request is never released. `.designs/architecture.md:408`
   says recovery repairs committed handoffs.
7. `stream_first_run` (`jobs/stream.py:33`). When the first run fails and the next comes
   later than the lookback, the messages the first run saw are passed over.
   `docs/jobs-and-schedules.md:288` says a later run can account for them.

Observations from the translation that have no run of their own:

* `durable_tasks/review.py:113`: the claim is made before the `try`, and a cancelled call
  still lands in the store thread, so a parking cancelled there leaves a leased task nobody
  knows (`ParkClaimCancelled`; `LoseSync` is the same of a tool).
  Two concurrent parkings with one dedupe key both create a task.
* `agent/loop.py:802-816` runs the calls of one response concurrently. After
  `state_guard.py:36-71` has let a call through, a sibling `wait_durable_task` with
  `waiting_on=user` can land; the call then reads the new revision (`tools.py:233`), holds
  the same lease and changes a task that waits for the user. `BatonRespected` allows
  exactly this and nothing more; without the exception TLC finds the trace.
* `durable_tasks/review.py:194` knows the holder by its session only. When the lease of a
  parking ran out and another call of the same session claimed the task after it was
  parked, the first one's unwinding cancels the delivered review under the other's lease.
  `DeliveredReviewSurvives` allows exactly this; without the exception TLC finds the
  trace.
* `jobs/escalation.py:91`: a crash between the creation of a task and its correlation makes
  the next run create a second task (`reviewTasks` counts them); the lease of the created
  task is never released.
* A burst larger than `item_limit` makes every run end as incomplete, and the window only
  grows until somebody raises the limit.
* The Slack adapter's docstring calls the window inclusive of its upper end; its request
  says `inclusive: "false"`. The model's distinct instants leave the tie out.
* Cleanup keeps only the newest successful backup and those of operations in progress,
  while the docstring at `upgrades/orchestrator.py:337` calls an unreadable journal a
  reason to keep bytes.

## Proofs

Every theorem holds for every value of the constants, from the named ASSUMEs of the
component's module alone (limits and instants are naturals, sets of names do not hold
`None`, `Never` lies beyond the clock's bound plus every duration). A theorem that needs
more says so in its statement. Nearly all state a property that a run checks on a small
instance; the inductive invariants were model-checked too. Every module follows one plan:
an inductive invariant, one lemma per action or kind of action, a lemma that collects
them, and the property from the invariant.

**`ExecutionStoreProofs`**: `TypeCorrect`, `RowsStayValid`, `RunOwnership`, `StartedOnce`,
`HandoffGated`, `RetryAfterEnd` (`NoParallelAttempts`), `WorkIsOnceOnly`. None is
inductive alone. That a request starts once rests on a fact about rows that are not
running: a row that waits for its acknowledgement, is queued or is claimed has never
started (`Unstarted`), because recovery requeues only `claimed` rows. That the current
claim owns the run needs the run's fence to be the only one in `runs`; that handed off
work waits needs the acknowledgement of every row from `queued` on. `RowInv(row, R)` says
all this of one row and the fences `R` it was started under, `GoodRow` adds the types, and
`IInv` is `GoodRow` of every row with the bounds of the clock and of the clocks captured
by `claim()`; those keep every new deadline below `Never`. The lemmas `Good...` say which
row updates preserve `GoodRow`; actions that rewrite many rows (`Recover`, `ClaimQueued`,
`Prune`) reduce to the update of one. `WorkIsOnceOnly` is the refinement: under the
mapping of `ExecutionStore` every step of the store is a step of `OnceOnlyWork` or changes
nothing there; `IInv` supplies that a row about to run has not run before. `RetryAfterEnd`
adds that a row that has ended is rewritten by nobody but the operator, who only settles
an `uncertain` one, and that `Prune` keeps the parent of every stored retry.

**`ExecutionDispatcherProofs`**: `DispatcherUsesStore` says that every step of a worker is
a step of `ExecutionStore` or leaves its variables alone, so the theorems about the store
are theorems about the dispatcher. `OpenApprovalsAwaited` (`ApprovalHasWaiter`),
`EffectsNotRepeated` (`EffectDispatchedOnce`), `ReportsAreTrue` (`ReportMatchesOutcome`)
and `ReportsFollowAcknowledgement` (`ResultAfterAcknowledgement`) rest on one invariant:
what a slot that owns a claim knows of its row and what it will write or report
(`SlotOwns`, `SlotVerdict`, `SlotsDiffer`), that an approval open under a live claim is
the one its tool is at (`OpenIsTooled`), that an effect has at most one approval that is
open or consumed (`OneChance`), and that a consumed one is dispatched by one tool, once
(`OneDispatch`). That `cancelled` means nothing observable is false in general, which is
finding 1: a handler reads the row again and settles it under a successor's claim. What
is true is proved from one invariant of a single request (`SoleInv`: while no second slot
works on it, the row a handler reads again is its own, nothing was seen of a run that has
not started, and evidence once read stands). `CancelledWorkUnobservedWithoutRivals` has
the hypothesis that this request never has two slots at work (`[]~Rivals(r)`), and says
nothing of the other requests. `OneClaimCancelsCleanly` (`CancelledAfterOneClaim`) needs
no hypothesis: a second slot needs a second claim, so while the fence is the first one the
row has no rivals. The exception is exactly a takeover, also one inherited from the parent
of a retry. `DispatchedWorkIsOnceOnly` carries the refinement of `OnceOnlyWork` over to
workers, crashes and settlements.

The same module proves what holds beside `Retention`, where rows disappear under the
workers and `ReportMatchesOutcome`, for one, no longer can. `Steering` is the part of the
invariant that survives a deletion: what a worker must know for its next step to be one of
the store. With it `RetentionUsesStore` holds, and so do the store's theorems:
`RetainedWorkIsOnceOnly` (`ImplementsWork`, `NoParallelAttempts`). A pass reads the
handoffs, plans, and deletes in three transactions. `PlansStayFinished` says that the plan
does not go stale: every planned request is still finished when it is deleted.
`HandoffsSpared` says the same of the first read: a handoff that still owes its
acknowledgement is deleted only when it was cancelled and the acknowledgement had lapsed
at the cutoff. That rests on dates, which no operation rewrites (`Evolves`), and on new
rows being younger than the cutoff (`HandoffsRead`); hence its hypothesis
`MinAge \in Nat`, which the configuration's bound gives. What a pass does not protect is
the parent of a named-job retry (finding 2). No run checks these facts: the run of
`Retention` shows that finding.

**`EffectLedgerProofs`**: `OccurrenceOnce` (`EffectedOnce`), `LedgerTellsTruth`
(`EvidenceSound`), `RevocationIsFinal`, `AmbiguityIsFrozen`. That an occurrence is
performed once is a fact about reservations: two calls never hold one action
(`HeldApart`), a held action is unresolved until its call resolves it (`HeldUnresolved`),
and an occurrence has at most one row that is not `not_performed` (`OneOpenPerKey`). The
grant's half (`GrantInv`) says that a termination reached the budget or has a revoker on
its way, and that an action in doubt retired the grant, has a call still finalizing it, or
was left by a finalization that raised (`DoubtRetires`). A finalization reaches the budget
after the grant, which never becomes active again (`ConsumedFirst`), and a call belongs to
an open run (`CallsOfOpenRuns`); so a finalization that raised at the budget still admits
nobody, although a call admitted before may reserve. What `AmbiguityIsFrozen` leaves out is
what the code leaves open: an action that recovery stranded in a live run (finding 4), and
a finalization that raised before the grant was consumed, after which the grant stays
active and the run may go on. `ChargesAreExact` (`BudgetsExact`) splits the steps into
reservations and the rest, which rewrites statuses only (`ChargesNothing`). Money is
counted as a set of units, each named by its action, so that the sum grows by the
cardinality of a disjoint set and no induction over the ledger is needed; that the set is
finite is carried along (`BudgetInv`).

**`GatewayTurnProofs`**: `CommitsAreNotLost` (`NoLostUpdate`), `UncertaintyStays`
(`UncertainUntilArchived`) about sessions. A commit is guarded by revision and lease. The
invariant says what every turn remembers (its revision is never ahead of the row), that
two holders have different leases, and that no commit lies at or above the current
revision; the guard then leaves room for one commit per revision. The composition:
`NoMessageReplayed` (`OneTurnPerMessage`), `AcknowledgementsStand`
(`AcknowledgementKept`), `InboxAgrees` (`SettledAgrees`), `ArchivedStaysInactive`,
`RotationIsIdempotent` (`NeverRotatesItself`), and `GatewayCommitsAreNotLost`, since every
step of the gateway keeps the session's invariant. `GatewayInv` says which point of the
worker and of the recovery implies what about inbox, result, conversation and turn
(`Placed`, `Inspected`). A second claim does not replay a message because a message that
may still get a turn has none (`TurnsFollow`); a handoff keeps its acknowledgement because
another answer is written only once the turn is past (`AnsweredAfterTurn`). The theorems
assume that no message or session is called "none", the value of an empty column.

**`DeliveryOutboxProofs`**: `OutboxLedgersAgree` (`LedgersAgree`) and `DeliveredWasSent`
(`DeliveredHasReceipts`) for every setting. The invariant says that an attempt is open
only up to the row's fence (`FencesInOrder`), that a loop holds a fence that was issued to
it alone (`Holders`), and that the parts of an attempt are sent in order, each after the
receipt of the one before (`SentInOrder`). `NothingSentTwice` (`SentOnce`) and
`RequeuedUnprepared` (`RequeuedOnlyUnprepared`) have the hypothesis `~Stalls`: a
transaction does not wait for the lock past the instant at which it judged the lease. Then
a claim that recovery found lapsed is still the claim it saw, and nobody prepares it any
more (`LapsedStays`); an entry of which something was sent is never claimed again, and a
loop that may give its claim back has sent nothing (`SendersAlone`). The hypothesis is the
one `delivery_stalled` drops, finding 3.

**`DurableTasksProofs`**: `BatonStaysWithUser` (`BatonRespected`), `ReviewsSurvive`
(`DeliveredReviewSurvives`). Guard, look and mutation of a tool are three transactions, so
the invariant is about what a call in between holds. Since its guard looked, the user can
have got the baton by a hand-over only (`Looked`); a lease that a call or its session
knows and that is still the row's is the one that hand-over used (`Trusted`), because
leases are freshly drawn and the holder alone hands over; a parking that created a
delivered task no longer holds it by its own lease (`ParkingInv`). `Moves` says once what
a step may do to a row, and the invariant of all other calls and sessions follows from it.

**`JobStreamsProofs`**: `StreamSkipsNothing` (`NothingSkipped`), `BlockedIsEscalated`,
`CursorLeavesNothing` (`CursorPassesSettled`), `SeenIsNeverPassed` (`SeenIsSettled`). The
lock leaves one run at work (`OneAtWork`); what it has collected covers everything from
the start of its window to the end unless it reported itself incomplete
(`WindowCovered`), and a blocked item of an outcome on its way to the database is
escalated already (`OnTheWay`). So the cursor, once there is one, moves forward only and
passes settled messages only, for every lookback and limit (`CursorLeavesNothing`). The
first run has no cursor, and its window starts at the lookback: `StreamSkipsNothing` and
`SeenIsNeverPassed` (what any run has seen is settled before the cursor passes it) have the
hypothesis `Lookback >= MaxInstant`, a lookback that covers the history. Without it
`SeenIsSettled` is what `stream_first_run` refutes.

**`UpgradeCoordinatorProofs`**: `CleanIsWhole` (`WholeWhenClean`), `WritesSurvive`
(`NothingLost`), `ChangesAreRestorable` (`Restorable`), `DecisionsAreFinal`. The key is
`BackupHolds`: while the manifest is not clean, an operation without a verified digest has
changed nothing, and a published backup holds every store at the source generation with
the last write of each, since nobody writes in between. `JournalsSound` ties the digest to
the states behind the backup, also through `failed`, and `CoordinatorKnows` says what each
point of the coordinator implies about manifest, journal, stores and release; a crash
forgets all of it, and recovery derives it again from journal and manifest.
`UpgradesAreAtomic` is the refinement of `AtomicUpgrade`. Preparation closes the
installation as it stands, and a clean manifest opens it upgraded or as before; every
other step is a stutter (`Stands`). That the generation moves by one rests on `GenHeld`:
while it is closed, the manifest keeps the generation the journal starts from. That the
restore shows through neither of its writes rests on `BackupHolds`: the backup a torn store
stands for holds the last write.

Only model-checked: all liveness (`fair_parts`, and what `handoff_repair` refutes;
fairness and ENABLED are outside what the proof system handles). Every other property of
a passing run has a theorem. No module declares a RECURSIVE operator.

## Not modelled, and why

* *Drafts and contracts*: the confirmation protocol of a draft is a revision check like
  the one of `SessionTurns`; compilation is a pure function over large documents.
* *Schedules*: one process rewrites one crontab block under a lock; *protected values*:
  cryptography with a small reserve and finalize protocol. Both are candidates.
* *Browser runtime*: page automation is I/O against an external program; its parks and
  leases appear in `ExecutionDispatcher` as what the parked tool reserves.
* *Gateway service, health, audit; workflows; agent loop; language model providers; tools;
  memory, skills, profiles, media; configuration and command line*: I/O, pure functions of
  large documents, or, as far as they change modelled state, what a run or a turn may do.

Most of the repository's lines are of these kinds (browser, tools, configuration and
providers alone are about half of them), so the map covers a small share of the whole
and most of the code that decides what happens between processes.
