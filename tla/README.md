# A verification project for options-monitor

options-monitor (OM) watches one person's option accounts: it scans the market
for candidates, takes every execution the broker reports into a local ledger,
and tells its user what happened. It never places an order. What must not go
wrong is the bookkeeping: an execution must be booked once, from evidence that
does not contradict itself, and its receipt must reach the user once, although
pushes, lookups, backfills, files, retries, several processes, crashes and
operators all work on the same records.

This directory models that part of the program in TLA+, model-checks it with
TLC and proves its main results with TLAPS. Paths below are relative to the
repository; `trades/` is `src/application/trades/`.

## 1. Inventory

### The components, their state and their operations

| Component | State it keeps | Operations | Status |
|---|---|---|---|
| Trade inbox and intake worker (`trades/inbox.py`, `auto_intake.py`, `intake.py`, `resolver.py`) | SQLite row per execution (status, claim, payload version, result, receipt envelope), its evidence rows | enqueue and judge, claim, commit scope, save, settle, list/prepare for recovery, resume, reconcile | modelled in part (`TradeInbox`) |
| Trade receipts (`trades/receipt.py`, receipt half of `inbox.py`) | one frozen receipt per kind of result: status, attempts, route, stop reason | prepare, begin, send, finish, recover | modelled in part (`TradeReceipt`) |
| Notification fan-out (`notification_fanout*.py`) | one JSON file per message: frozen plan, a child per recipient | prepare, dispatch, snapshot | modelled (`NotificationFanout`) |
| Intake state file (`trades/state.py`) | JSON buckets per deal: processed, skipped, unresolved, failed | compare-and-write of entries, reconciliation | the bucket of one execution, in `TradeInbox` |
| Ledger event store (`ledger/repository_core.py`, `commands.py`) | append-only events, writer file lock | write under the lock, enrich, void | one effect per execution and the lock, in `TradeInbox` |
| Portfolio refresh intents (`inbox.py` 1350-1572, `auto_intake.py`, `backfill.py`) | refresh intent on the inbox row, replay cursor of the listener | record, claim alone or by account, dispatch, confirm, replay | modelled (`PortfolioRefresh`) |
| Lifecycle notification outbox (`ledger/notification_outbox.py`, `trades/lifecycle_*`) | outbox rows, batches, route intervals | enqueue with the event, plan, claim, start, complete, recover stale, reconcile, resend | modelled in part (`LifecycleOutbox`) |
| Settlement attempts (`lifecycle_runtime.py`, `settlement_attempts.py`, `inbox.py` 1681-2970) | control row per case, batch lease per account, audits in the ledger | list, reconcile, plan, reserve, start, finish, audit, settle, renew, resolve | modelled in part (`SettlementAttempt`) |
| Trade backfill (`trades/backfill.py`) | history cursor per account | query, deliver to the inbox, advance | the cursors (`HistoryCursor`); the deliveries are a source of `TradeInbox` |
| Trade lifecycle cases (`trades/lifecycle*.py`, `domain/option_lifecycle.py`) | cases of expiry, assignment, exercise | observe, decide, resolve | not modelled: large rule tables |
| Receipt compensation, order fees, close reasons | one file or table each | operator and background corrections | not modelled |
| Position projection (`ledger/position_projection_*`, `repository_projection_*`, `domain/ledger/projection.py`, `lots.py`) | published lots, a head per account, checkpoints, their mode | write an event and publish, rebuild, rewrite, migrate, activate, deactivate, preview, read | modelled in part (`PositionProjection`) |
| Wheel strategy, combos, decision snapshots (`ledger/wheel_*`, `domain/ledger`) | further read models of the ledger | folds over the event list | not modelled: long arithmetic folds, no actors |
| Tick pipeline, scheduler, guards, prefetch (`multi_tick/`, `tick_*`, `scan_scheduler.py`) | run workspace, failure counters | scan per account, record, notify | not modelled |
| Bot host and control operations (`bot/`) | operations with confirmation tokens, outbox of final receipts | preview, edit, cancel, confirm, execute, recover, deliver | modelled in part (`OperationStore`) |
| Daily brief (`daily_decision_brief_*`) | brief generations, delivery records | prepare, render, deliver | not modelled: mostly rendering |
| Configuration authoring (`config_authoring*.py`) | config.yaml and the files generated from it, lock, journal | publish, recover | publication and recovery (`ConfigTransaction`) |
| Service upgrade | release links, systemd/launchd units | upgrade, rollback | not modelled: external effects |

`PROJECT.json` lists every component with its files and the reason for what is
left out.

### How they interact

    broker push ----\                                   +--> intake state file (JSON)
    broker lookup ---+--> enqueue --> row --> worker ---+
    backfill, file -/       |          ^        |       +--> ledger (SQLite + writer lock)
                            |          |        |
                    evidence rows      |        +--> receipt --> target, or fan-out --> targets
                                       |        |
       operator resume, reconcile -----+        +--> refresh intent --> portfolio worker
       receipt thread (readback, resend)

* Every entry into the inbox is judged against all evidence stored so far under
  the **ledger writer lock** (a file lock shared by all processes). A worker
  holds the same lock over its commit scope, in which it re-checks its claim and
  writes the ledger. All other inbox statements are single SQLite transactions.
* The listener also has a process-local lock around `_process_payload`. It is
  not modelled: the command line and other processes call the same function
  without it, so nothing may depend on it.
* The receipt thread shares rows with workers but takes no claim. What protects
  it is a compare-and-set on everything it observed.
* Nobody keeps two processes from dispatching the same fan-out.
* The lifecycle outbox sends its batches straight to a target or through the
  fan-out; the ledger's transactions write its rows together with their events.
* A settlement attempt is kept in the inbox database and audited in the ledger.
  No transaction spans the two, so whoever comes later reconciles them.
* A bot operation and its worker are separate processes that meet only in the
  operation store; publishers of a configuration meet in a file lock.

### What is hard, and what must hold

* **Ordering of contradiction and adoption.** A contradicting payload may arrive
  at any moment of another worker's attempt. Before adoption it must stop it;
  after adoption it must neither undo nor repeat it.
* **A ledger write of unknown fate.** It may raise after it committed, and the
  process may die before the result is saved. No one may say "recorded" without
  an effect, and no one may book twice.
* **Leases.** A claim may expire while its holder still works, and a send may
  outlive its lease.
* **Receipts of unknown fate** must never be repeated, refused ones must be, and
  neither may change target.
* **Calls whose outcome outlives their caller.** A provider call, a bot
  operation or an upgrade may end after somebody else declared it dead.
* **Several files as one.** A configuration generation is many files, and a
  publisher may die between any two of them.
* **Liveness.** Rows, receipts and refresh intents must not stay pending for
  ever because a claim holder died, a limit was reached or a listing leaves them
  out.

Each hazard is listed at its line in `PROJECT.json` with the properties that
cover it.

## 2. Plan

In this order; each module EXTENDS only the standard modules, takes its bounds
as CONSTANTS with named assumptions and uses no RECURSIVE operator, so that it
can be proved about.

1. `TradeInbox`, refining `TradeAdoption`, proofs in `TradeInboxProofs`. Done.
2. `NotificationFanout`, refining `OneShotDelivery`, proofs in
   `NotificationFanoutProofs`. Done.
3. `TradeReceipt`, which uses the fan-out by the promise of `OneShotDelivery`
   and refines `OneShotDelivery` itself, proofs in `TradeReceiptProofs`. Done.
4. `LifecycleOutbox`: batches of one route, sent straight to a target or through
   the fan-out; a direct batch refines `OneShotDelivery`, proofs in
   `LifecycleOutboxProofs`. Done.
5. `SettlementAttempt`: the control row, the batch lease and the audit, proofs in
   `SettlementAttemptProofs`. Done.
6. `PortfolioRefresh`, `OperationStore`, `HistoryCursor`, `ConfigTransaction` and
   `PositionProjection`: five stores with one run (`MCServices`), proofs in
   `OperatorProofs` (the operation store and the configuration), `IntakeTailProofs`
   (the refresh and the backfill) and `PositionProjectionProofs`. Done.
7. Every safety property of the passing runs is stated by a theorem. Left to model:
   the cases of the lifecycle runtime beyond one attempt, the wheel's read model,
   the project guard, receipt compensation.

One run per component for safety, and one for liveness where it needs other
bounds. Theorems worth proving for each: the inductive invariant and the
refinement of its abstract specification, or its action properties.

## 3. The modules

### TradeInbox

One execution, because every statement of the inbox is keyed by `inbox_id`, the
hash of the execution's identity.

| Variable | Code |
|---|---|
| `row` | the `trade_inbox` row: `status`, `result_reason`, `payload_version` (`ver`), claim and lease, `attempt_count` (`att`), `next_attempt_at_ms` (`wait`), the marker in `last_error` (`note`), `receipt_recovery_allowed` (`allowed`), the reconciliation's suppression (`muted`), source, payload, stored result and the current key of the receipt envelope (`env`) |
| `evidence` | `trade_inbox_evidence` |
| `effect` | what the ledger has booked for the execution |
| `entry` | its bucket in the intake state file |
| `lock` | the ledger writer lock, where it is held over more than one step |
| `work[w]` | locals of one `_process_payload` call |
| `obs` | the observation the receipt thread listed |

A worker goes `Receive | Retry` -> (`LookupEvidence`) -> `Claim` ->
(`NormalizeFails`) -> `EnterCommit` -> `LedgerWrite | SkipNonOption` -> `Save`
-> `WriteState` -> `Settle`, and may `Fail` or `Crash` on the way. Each is one
transaction or one locked section of the code. `ListRecovery`, `RecoverReadable`
and `RecoverUnreadable` are the receipt thread, `Reconcile` and `Resume` the
operator, `Tick` the clock.

Decisions a reader should know:

* A claim token is the worker that drew it; a worker has one claim at a time.
  The payload version subsumes the payload hash that is checked with it.
* A payload is its economic content, one order association, the deal status and
  the source revision. A source-identity conflict is judged like an economic
  one and shares its reason.
* A tick is 60 s. `lease` and `wait` count down, so they never reach a bound.
* There are three kinds of deal, by their economic values: an option deal that
  opens or whose effect is not known, one that closes a position (`Closes`) and a
  stock deal (`Stocks`). The readback of an unknown ledger write leaves stock
  deals and booked closes to other owners (auto_intake.py 440-453) and refuses a
  deal that contradicts what is booked (`Undecidable`). Such a row keeps the kind
  verification_pending, which neither the retry loop nor, because `Resume` keeps
  the kind, a resumed attempt takes up again: it stays pending unless new evidence
  moves it or the operator reconciles it with an effect in the ledger.
* `NormalizeFails` promises a retry only when SQLite was busy (intake.py 104-126,
  559-564). Its entry in the state file goes under the bare deal id (142-164),
  which the resolver does not look up, so it changes nothing here. Its result
  leaves the row visible all the same (`FailuresTold`).
* The resolver books a deal and finds the projection wrong, or raises with the
  write done or not, or leaves the deal unresolved; only what it raises is read
  back.
* The state file's snapshot is read before the commit and merged at the write;
  as entry writes are fenced by the claim, reading it in the write is the same.
* The save that the receipt callback repeats is folded into `Settle`, which
  compares the same claim and stores the same result.
* Recovery of a handled row changes none of these variables: it concerns its
  receipts, and is in `TradeReceipt`.
* A first delivery comes from a live source; a file line is modelled for rows
  that exist. Historical rows, rows that belong to the lifecycle outbox and a readback
  that cannot read the lifecycle context (auto_intake.py 424-434, handled like an
  unreadable ledger) are left out.

### TradeAdoption

What the inbox promises, in three variables: whether a conflict holds the
execution, what is booked and whether anyone was told. `KeepsPromise` maps the
inbox to it: booked at most once and only while nothing holds the execution,
afterwards only completed by a missing order; only a missing status can be
supplied; told only what is booked. (A status that goes missing may also
replace a registered contradiction: see the observations.)

### NotificationFanout and OneShotDelivery

One fan-out. `plan = {}` is "no state file"; a plan is its set of recipients, as
any other plan for the message is refused in the same way. Each locked section
of `dispatch_notification_fanout` (`Begin`, `Finish`) and of
`prepare_notification_fanout` (`Prepare`) is one step; the provider call and the
route check happen between them. `attempt_id` is the attempt count that rises
with it. The provider is trusted in exactly two things, when its reply is not
doubtful: what it refuses before acceptance was not delivered, and what it
confirms to this recipient was. The idempotency key sent along is not relied on.
One attempt counts as one delivery: an adapter that retries internally reports
that as doubt.

`OneShotDelivery` is the abstract promise: attempted only while due, due again
only after a refusal, taken at most once, and for ever open when the fate is
unknown.

### TradeReceipt

The receipts of one row. `rcpt[k]` is the receipt of kind `k` in `receipt_json`;
`cur` is `current_result_key`. Its status `started` is the code's `unknown`
without a stored result, and `by` stands for `attempt_id`. `claim`, `live` and
`held` are what receipts see of the row; `route` is the target the configuration
resolves to, a direct one or the fan-out. A sender is a worker that announces
the result of its own claim (`Announce`), or the receipt thread (`RecoverDue`,
`RecoverRead`); both go on with `Begin`, `Refused` or `Stopped`, then `Send`, or
`Try`, `Reply`, `Pass` and `Snapshot` for a fan-out, then `Finish`. A fan-out
child is `due`, `out`, `done` or `spent`, the promise of `NotificationFanout`;
when its attempts run out is left open.

* Listing and preparing are one step because prepare compares the whole
  observation. Any sender may act as worker or as receipt thread, and a worker
  may announce more than once: more behaviours than the code has.
* The route is read at `Ready` and may be stale at `Begin`. The code's second
  look at the configuration only narrows that window.
* A missing route and a skipped callback are `Crash`: nothing is written.
* History entries of `attempts` are dropped since nothing reads them back; a
  result for such an attempt changes nothing. A fan-out receipt's own attempt
  count is not kept because nothing reads it either.
* Left out: version 1 envelopes, the handoff to the lifecycle outbox, evidence
  of earlier compensations, sends without an inbox row, wording.

### LifecycleOutbox

One route of the outbox: a direct target, or the fan-out. `row[r]` is the status
of the outbox row of a transition and its delivery revision, `batch[m]` the
delivery batch whose members are `m` (its id is a hash of them), `child[m]` the
fan-out's children. A dispatcher goes `Poll` (recover stale sends) -> `Plan` ->
`Claim` -> `MarkStarted` -> `SendDirect`, or `Visit` and `Answer` per recipient
and then `FanoutReturns` -> `Complete`, and may `Crash`. Each is one SQLite
transaction of `notification_outbox.py`, or one locked section of the fan-out.
`Enqueue` is the ledger's transaction that writes the row; `ComboChanges`,
`Reconcile` and `Resend` are what invalidates a combo and what the operator does.

* A poll reads the clock once; any time may pass before each of its steps, so
  the times it writes may be old. That is why the spacing of sends is a question.
* Creation times are left out: any eligible row may be the oldest and the
  aggregation window may still be open.
* A closed authorisation on a direct route is recorded `unknown` by the code,
  and so is it here.
* Left out: several routes, compensation intents of other kinds, wording.

### SettlementAttempt

One case and the batch lease of its account. `row` is the control row in the
inbox database, `audit` what the ledger holds of each invocation, `work[w]` a due
run. A run goes `Survey` -> `List` -> (`ReadAudit` -> `Reconcile`) -> `Sort` ->
`Plan` -> `ClaimBatch` -> (`OtherCase`) -> `Reserve` -> `Prepare` -> `Start` ->
`Collected` -> `Finish` -> `Commit` -> `Settle` -> `Close`; `Replace` puts a
failure, or stale facts, in place of a finished observation whose ledger
transaction raised; `Renew` is the guard thread; `Abort` and `Crash` end a run anywhere. `Unattempted` is what a run writes of the case without
any reservation: its collector is disabled or blocked, has other capabilities
than before, or the guard of the batch cannot start. `OperatorReads` and `OperatorResolves` are
`resolve-ambiguous`: the operator may say that a call was not executed only when
no worker is at the provider (`Quiet`), the judgement the command asks of him.

* Times are what is left of them; a claim is the number of the reservation that
  drew it.
* Another case of the account is only the call a run makes for it first.
* `Commit` may raise after the ledger has committed, as a later stock candidate
  of the same observation can (close_reason_reconciliation.py 227-263).
* Left out: several sources of due runs, the contents of evidence, cases whose
  account has no provider.

### PortfolioRefresh

The intents to refresh an account's holdings after a stock execution. `intent[r]`
are the columns of inbox row `r`, `pm[i]` what PM knew when it first took request
`i`, `cursor` the listener's replay cursor, `call[t]` a claimer or the loop.
`SaveIntent`, `SettleIntent`, `Redeliver` and `ReconcileRow` are the inbox's side:
a row the operator reconciled from the ledger is neither listed nor claimed any
more (inbox.py 1434, 1536), also if its hand-off was under way. `ClaimIntents` is
the push callback or the backfill, `ListPending`, `Replay`, `ListUnclaimed`,
`ClaimGroup` and `CycleEnds` the listener's cycle, `Accepted`, `Unanswered` and
`ConfirmHandoff` a dispatch. PM is external: it takes a request id once.

### HistoryCursor

`mark[a]` is the checkpoint of account `a`. A run goes `BeginRun` (window from
the oldest cursor, less the overlap) -> `QueryHistory` -> `QueuePayload`* ->
`Advance`, and may `CrashRun`. `Happen` and `Show` are the market and the
broker's history, which shows an execution at most `Delay` hours late.
`CursorAssumption` says what the code relies on: the history is late by at most
the overlap, and a run ends within the lookback less the overlap (six hours less
one, for a run that takes minutes).

### OperationStore

One confirmed operation of the bot. `op` is its row, `box` the row of its final
receipt, `hand[h]` a message handler, `upg[w]` an upgrade worker, `done` what was
in fact executed. `Ask`, `Edit`, `Cancel`, `CheckConfirm` and `Confirm` are the
messages; `Launch`, `Run`, `Apply` and `Record` the execution by the handler;
`Recover` and `Prove` the recovery of a manual trade from the ledger; `Fetch` to
`CompleteBox` the worker; `Sweep` the expiry and the timeouts, which every
listing of the store applies.

### ConfigTransaction

`file[f]` is the version in place, `txn` the journal. A publisher goes
`LoadConfig` -> `TakeLock` -> `Enter`, recovers what it finds (`RecoverTxn`,
`RestoreFile`, `ReadBack`, `SweepDirectory`), then `CheckSource` -> `PrepareTxn`
-> `BeginCommit` -> `PublishFile`* -> `CommitTxn`; a failure is `Compensate`, a
death `CrashPublisher`, an edit by hand `Outside`. Contents are version numbers,
which stand for their digests. A hand-written file gets a version of its own, so
"newer" in the properties means "written later".

### PositionProjection

The lots that are published beside the trade events. `ledger` is the part of the
database the projection reads and writes: `stored` the events with their times,
`gen` `source_generation`, `lots` `position_lots`, `head[a]` the head of account
`a`, `build` the state row's projector fingerprint, `mode` and `checkpoints` the
checkpoints that are trusted. `Write` stores an event and publishes in the same
transaction, `WriteBoth` two events (both by `Wrote`), `Repeat` is a writer that finds its event stored, `Rebuild` the full
replay on demand, `Rewrite` an event that is bound to its order or whose time is
repaired, `Migrate`, `Activate` and `Deactivate` the operator's commands.
`PreviewLots` is the preview, `Readable` what a reader asks of a head. A lot is
the list of events it was made of, so two replays agree only if they took the
same events in the same order, and what two builds compute is taken to differ.

* `Takes` and `After` are what one event does to one lot, `Applied` the transition
  of the whole replay, `Replayed` a set of events applied in the order of
  `_validated_events`; `FullReplay` starts from no lot and skips what is voided,
  `TailReplay` from open lots, and evicts the lots it finishes.
* Each action is one SQLite transaction under the ledger's writer lock, so a
  failure or a crash rolls it back and is the same as no action. Hence there is
  no interleaving inside it; the hazards are in the history of transactions.
* Whether a writer knows its own implementation (`known`), asks for the fast path
  (`fast`) and whether a checkpoint is small enough to keep (`fits`) are left
  open. Choices that make no difference are not enumerated twice.
* A head's own content fingerprint is not kept apart: the triggers count every
  write of a lot, and `dirty` is that count. The chain hash of a checkpoint is
  its set of events, `prefix`.
* Left out: transactions of more than two events and previews of more than one,
  changes of quantity by an adjustment, combos and economic allocation,
  untrusted and invalid checkpoints (nobody reads them), the readiness of the
  schema, and the modes `repair` and `verification`, which change no lot.

## 4. The runs

| Run | Instance | What it shows |
|---|---|---|
| `inbox_race` | 2 workers; pushes and lookups, six payloads that contradict or complete each other (price, order, status missing, cancelled, revision); 2 attempts; lease 1; 3 versions, 2 pieces of evidence | takeovers during commits, lost and verified results, contradictions and a late association at every step: types, `RecordedMeansBooked`, `NoTradeVanishes`, `EvidenceInv`, `KeepsPromise`, `AdoptionIsFenced`, `AdoptionMatchesEvidence` |
| `inbox_operator` | 1 worker; push, file and lookup, lookups may start a review; an opening deal whose status is missing then supplied, a closing one, a stock deal; 2 attempts, 1 resume, surroundings below, fairness | the inductive invariant `IInv`, `NoTradeVanishes`, `PushedRowSettles` |
| `receipt` | 2 senders, kinds verification_pending and recorded, one direct target and a fan-out of one, 2 attempts | the inductive invariant `ReceiptInv` (with `AttemptsAreKept` and `ReceiptsAreTrue`), `OneTarget`, `SendsOnce` |
| `receipt_ends` | 1 sender that may crash and start again, a fan-out of two recipients, fairness | `ReceiptsAreTrue` with a partial fan-out, `DueReceiptEnds` |
| `fanout` | 2 dispatchers, 2 recipients, 2 attempts, lease 2 | `FanoutInv`, `PlanIsFrozen`, `DeliversOnce` |
| `outbox` | 2 dispatchers, 2 intents (or one and its compensation), direct or fan-out (one recipient, one row), one possible combo, 2 attempts, times to 3 | the inductive invariant `OutboxInv` (batch, members and provider agree), `StartsAreSpaced`, `BatchDeliversOnce` |
| `settlement` | 2 due runs, 2 reservations, one change of facts, one crash, lease 1 | the inductive invariant `AttemptInv` (with `AuditsAgree`), `OneCall`, `OneBatch`, `BegunOnce`, `NothingForgotten` |
| `services` | one of five stores per behaviour: an operation with 2 handlers and 2 workers; 2 intents, a claimer and the loop, pages of one; 2 backfill runs, 2 accounts, 2 hours; 2 publishers, 2 targets and the source, 3 versions; 7 events of 2 lots in 2 accounts, 2 builds, 2 times, 3 writes of events, checkpoints rotated after 2 | four inductive invariants, `ProjectionInv` (published lots, checkpoints and readers agree with a full replay; `CheckpointsHoldPrefix`), `AllReadable`, `PreviewIsHonest`, `FinalStays`, `SentStays`, `EveryHandoffEnds`, `CursorForward`, `OutsideWritesSurvive`, `BasedOnSource` |
| `finding_*` | the smallest instance that shows it | section 7 |

Why these bounds are enough to see the interesting cases: two workers give a
stale claim holder and the one that replaced it, and a third only repeats the
second's role. Two attempts give a first, a retried and a last attempt, so the
turn from "retry promised" to "manual" happens. Versions and evidence bound only
new deliveries (`MaxVersion`, `MaxEvidence`); three versions allow a fence, and
a fence of the fence. A lease of one or two ticks lets it expire at every step.
Two kinds suffice for superseding and revisiting. `recorded` is in the set
because it alone may not regress, and `verification_pending` because it alone may
follow it. The bounds are in the guards (`Bounded`, `resumes < MaxResumes`) and
not in constraints. Instances of `TradeInbox` end when nothing is left to do, as do
those whose clock or versions are bounded (`outbox`, `settlement`, `services`),
so their deadlock check is off; the fan-out and the receipts never stop.
Workers, senders and dispatchers are symmetric in the safety runs; the fairness
runs use no symmetry. `outbox` has the one state constraint (`Small`): two rows
are written at most. Two rows give two batches, a batch of two and a
compensation beside its original; a fan-out multiplies the states by its
children and is run with one row. In `services` the five stores run one per
behaviour, because they share no variable: this checks the union of their
state spaces. Page size one with two intents makes the replay cursor wrap; one
refused request shows that it does not block the other. A lookback of two hours
with an overlap and a delay of one, and two hours, give a first window, an
overlapping run, a window stretched to a cursor left behind, and an execution
shown after it was asked for. Three writes of events let a
checkpoint be made, activated, resumed from with a tail of two, and rotated; two
times with the order of ids give ties, late arrivals and events that sort into a
checkpoint's prefix. The events open a lot, close it twice, adjust it and void
a closing, and open another lot twice, which is a collision; `Together` names the
pairs that are written in one transaction. A third build or account would only
repeat the part of the second.

`inbox_operator` has three kinds of deal, and checks liveness, within quieter
surroundings (the action constraint `Surrounded`, which excludes no step the
fairness asks for): the push tells the deal once, and only lookups
and files add to it; a file line repeats an opening deal nobody has resumed; the
operator resumes an opening deal without a file line whose attempts are used up,
and not while the receipt thread holds an outdated listing of it. Workers, the
receipt thread, crashes, reconciliation, reviews and the clock are as in `Spec`;
a repeated push and a contradiction are the matter of `inbox_race`.

**Fairness.** `TradeInbox`: the clock, the listing and a weakly fair retry loop
exist in the listener (60 s polling). Strong fairness is used where another
actor may take the lock or the claim in between. The one assumption about the
surroundings is that, from some time on, the stored payload can be normalised and
the ledger file be read. `PushedRowSettles` exempts the rows that end to be
verified although the readback refuses them (`Undecidable`), which nothing in the
code settles, and those whose source a lookup took over (section 7). `Crash`, `Fail`,
`Receive` and the operator have no fairness. `TradeReceipt`: clock and receipt
threads likewise, and the surroundings eventually rest: the row keeps its
result, no claim is live (economic attempts are limited) and a direct route
stays configured. Without a route the code waits on purpose. `PortfolioRefresh`:
the listener's loop polls and each request ends within its timeout (weak
fairness of the loop's steps), and PM sooner or later takes a request that is
sent again and again and that it does not refuse (strong fairness of its
acceptance). Claimers have none: a claim nobody dispatches is the loop's to find.
`EveryHandoffEnds` exempts reconciled rows, whose refresh nobody hands over.

Every property of a passing run has a mutant in `PROJECT.json`: a plausible slip
in one definition (a dropped limit, a comparison left out, a lock not taken)
that makes TLC report that property violated.

## 5. What is proved

For every value of the constants, from the named assumptions only
(`BoundsAssumption`, `NoneAssumption`, `PayloadAssumption`; `FanoutAssumption`;
`ReceiptAssumption`; `RefreshAssumption`; `CursorAssumption`;
`OperationAssumption`; `ConfigAssumption`; `AttemptAssumption`;
`OutboxAssumption`; `ProjectionAssumption`). Two theorems about the inbox have
hypotheses besides, named and explained there (`~Reviews`, `Complete`).

* **`TradeInboxProofs`.** `TypeCorrect`; `InvariantHolds`, `RecordedIsBooked`,
  `TradesStayVisible`, `AdoptionFenced`, `EvidenceIsJudged`,
  `AdoptionFollowsEvidence`, and `InboxKeepsPromise`, the refinement of
  `TradeAdoption`. The inductive invariant is `IInv == TypeOK /\ PayloadInHand /\
  CommitOwnsRow /\ ResultsAreBooked /\ ListingIsOpen /\ EntriesStay /\ FailuresTold`.
  `PayloadInHand` is needed to type what the ledger books. `CommitOwnsRow` is the
  heart: while a worker is in its commit scope it holds the lock, so nobody can
  judge new evidence, resume, reconcile or recover, and the row stays its own.
  `ResultsAreBooked` strengthens `RecordedMeansBooked` to every place a result can
  be copied from, the workers' locals included. `ListingIsOpen` is what keeps
  recovery from releasing a conflict: it never holds the listing of one, and its
  compare-and-set fails if the row became one. One step per action and one lemma
  per helper (what `Received`, `Stored`, `Settled`, `Outcomes` preserve).
  `NoTradeVanishes` rests on `EntriesStay`: a result that writes nothing to the
  state file was called a duplicate because of an entry that is there, and no
  step removes an entry; and on `FailuresTold`, for the one other result that
  writes nothing there, a failure to normalise. It also needs that a readback which finds nothing
  either promises a retry or asks for a person, whatever result it started from.
  `EvidenceInv` (all sources of a row outside a conflict agree, a conflict that
  can be lifted lacks a status and nothing else, workers hold only delivered
  payloads and orders) is inductive together with `IInv` when no lookup starts a
  review (`~Reviews`): a review overwrites the reason of the row, and what recovery
  then does to it is finding 4. `AdoptionMatchesEvidence` follows, if moreover
  each payload states its economic values (`Complete`), as those of every run do:
  the resolver leaves a deal with a missing field unresolved and books nothing
  (resolver.py 582, 638, 677). The orders it speaks of are those of
  sources that report the deal as OK; section 7 says why.
* **`NotificationFanoutProofs`.** `FanoutIsSound`, `PlanStaysFrozen` and
  `FanoutDeliversOnce`, the refinement of `OneShotDelivery`. The invariant is
  `FanoutInv == TypeOK /\ Planned /\ Aimed /\ RepliesAreKept /\ OneSenderEach /\ Truth`.
  `OneSenderEach` cannot stand alone: it follows from the status a send in flight
  leaves behind (`RepliesAreKept`), and the at-most-once half of `Truth` needs
  that a dispatcher about to send finds `taken = 0`.
* **`TradeReceiptProofs`.** `ReceiptsAreSound`, of which `ReceiptsTellTheTruth` and
  `ReceiptsKeepTheirTarget` are the two parts a reader asks for, and `ReceiptSendsOnce`, the
  refinement of `OneShotDelivery` for receipts sent straight to a target. The
  invariant is `ReceiptInv == TypeOK /\ AttemptsAreKept /\ ReceiptsAreTrue /\
  OneTarget /\ InHand /\ OneAsksEach /\ FanoutsUntaken`. `InHand` ties a sending
  to the receipt it began: the route it carries is the one that was frozen, and a
  direct send finds the receipt untaken. With `AttemptsAreKept` it follows that a
  direct attempt is alone with its receipt (`DirectAlone`), whatever became of
  the claim. `OneAsksEach` keeps two senders that share a fan-out attempt
  from asking one recipient, without which a late reply could undo a `done` child
  and with it a receipt stored as sent. `FanoutsUntaken` is what lets an
  unfinished fan-out be continued. A step that leaves every receipt's status,
  route and attempt alone is handled once (`QuietStep`).
* **`SettlementAttemptProofs`.** `AttemptsAreConsistent`, `OneCallAtATime`,
  `OneBatchAtATime`, `CallsAreBegunOnce`, `CallsAreNotForgotten`. The invariant is
  `AttemptInv == TypeOK /\ AuditsAgree /\ InvocationsAreFresh /\ ReadingsHold /\
  OneCaller /\ BatchIsHeld`. `AuditsAgree` rests on the rest: audits are only
  added, so a stale reading of them is nothing or still true (`ReadingsHold`); an
  invocation is begun by the one worker whose claim is in the row, and afterwards
  nobody may plan, reserve or complete the row, so a caller finds it as he left
  it or ambiguous, until an audit of his is in the ledger (`OneCaller`). From then
  on the row may be settled by others, and `AuditsAgree` allows exactly one
  difference: a failure in the row for an observation whose error came after the
  ledger's commit. `AloneWithTheRow` and `OthersFit` state once what a caller's
  step means for the other callers. `OneCall` then needs no live claim. Steps that
  leave the row's invocation, state and outcome alone, or drop an invocation
  without a call, are handled once (`QuietStep`).
* **`OperatorProofs`**, about what an operator starts.
  *Operation store*: `OperationsAreTrue`, `FinalStatusStays`,
  `SentReceiptStays`. The invariant is `OpInv`: `StatusIsTrue` (the row and the
  receipt tell what was executed) follows from who may execute: the one handler
  that confirmed, or the one worker that marked the operation as running
  (`HandsAgree`, `WorkersAgree`); `WaitingIsUndone` bounds what may have happened
  while the row still waits, and `SendersHold` is about senders in their lease.
  *Configuration transaction*: `ConfigInvariant`, `HandWritingSurvives`,
  `PublicationsAreBased`. `ConfigInv` adds to `AllOrNothing` where a transaction
  is for each place its holder can be at (`LockKept`), that version numbers grow
  (`VersionsGrow`), that every file is the old or the new one and the source is
  replaced last (`OldOrNew`), which is what recovery decides by, and that
  handwriting is newer than all a waiting transaction knows (`EditedIsNewer`).
* **`LifecycleOutboxProofs`.** `OutboxIsConsistent`, `SendsAreSpaced`,
  `BatchesDeliverOnce` (the refinement of `OneShotDelivery` by every direct batch).
  The invariant is `OutboxInv`. Its parts for every route are types, who may work
  on a batch (`Claims`: a claim token is handed out once, so the batch of a stale
  dispatcher carries another) and what it may hold (`Hands`). For a direct route
  `MembersAwait` and `MembersAgree` tie a batch to its rows, and `Truth` ties both
  to the provider: a message in flight is known to be in flight or unknown, which
  is why recovering a stale batch may not return it to `pending`. A fan-out is
  left out of these, because finding 3 refutes `MembersAwait` there. `Paced` is for
  direct routes without combo confirmations: one batch at most is active, and the
  last start is remembered either by the batch that made it or by one that may
  not start again within the interval. The second alternative is what a claim
  needs, which forgets the start of its batch; it is where `OutboxAssumption`
  says that neither the lease nor a backoff is shorter than the interval, as the
  code's constants are.
* **`IntakeTailProofs`**, about two components beside the inbox.
  *Portfolio refresh*: `HandoffsAreTrue`, of `RefreshInv`. `RequestsCover`
  is the heart: a row joins a request only before PM took it, by the row that
  names the request, so a request PM took covers every row that carries its id;
  `CallsHold` carries that through a thread that sends, waits and confirms.
  *Backfill*: `CursorInvariant`, `CursorsMoveForward`. `CursorInv`
  adds to `CursorCovers` that windows overlap whatever run writes last
  (`WindowsOverlap`, which uses that `CursorAssumption` relates lookback, overlap,
  delay and the length of a run), and that a run vouches only for accounts all of
  whose executions it has queued (`SoundMeansQueued`).
* **`PositionProjectionProofs`.** `PublicationsAreReplays` (of `ProjectionInv`),
  `PreviewsAreHonest`, `PositionsStayReadable` and `CheckpointsStandForPrefixes`,
  for any events, times, lots, accounts, builds and rotation. The invariant is
  `ProjectionIInv == LedgerHolds(ledger) /\ AllReadable /\ blind \in BOOLEAN`, with
  `LedgerHolds(d) == Database(d) /\ CheckpointsHold(d) /\ Published(d) /\ HeadsHold(d)`.
  `CheckpointsHold` says of a checkpoint that it stands for a prefix and holds
  what the prefix replays to, and of all of them that they are of one build and
  ordered by age, so that pruning and the newest one are well defined. `HeadsHold` says that
  an account without a head has no lot, and that the lots of a trusted head nobody
  wrote to since are what the head's own build replays.
  The proof has three parts.
  1. *What a replay computes.* A replay is a fold over a finite set of events.
     `SetsByInduction` is induction over finite sets stated about a set of sets
     instead of about an operator, so that it can be cited; from it `ReplayUnfolds`
     and `ReplayStep` (a replay is the replay of all but the last event, and then
     the last) and what rests on them: a replay takes each lot apart from the
     others (`LotsAreTheirOwn`), reads nothing of the database but the times
     (`SourceSuffices`), and two builds give lots that differ in their signature
     and nothing else (`ReplaysDifferBySignature`), so that a lot which another
     build's replay leaves as it was is one the head's build would give too
     (`SignaturesTell`).
  2. *Tails.* A tail that sorts behind a prefix and meets no new lot with an old
     name continues from the open lots alone (`TailContinues`, `TailReplays`): a
     finished lot takes no event. `CollisionsAreSeen` is why the fast path's own
     check is enough for that, and `UntouchedStays` why it may leave the lots it
     did not touch.
  3. *Publications.* One lemma for each thing a transaction writes
     (`LotsWrittenIs`, `HeadsPublishedIs`, `CheckpointedHolds`), one for each way an
     event arrives (`InsertedStages`, which takes a transaction from one event to the
     next, and `UpdatedStages`: a checkpoint that survives the
     trigger still stands for its prefix, `SurvivorsHold`), then the two paths
     (`FastPathHolds`, `FullPathHolds`) and the actions.
  `ProjectionAssumption` asks that opening and closing events have a positive
  size, as `validate_trade_event` does of every event a replay takes, and that
  there is a build. Without positive sizes the lemma on tails is false: a closing of
  nothing would still fit a lot that is finished.

`RecordedMeansBooked`, `KeepsPromise`, `FanoutInv`, `ReceiptInv`, `AttemptInv` and
the others are the very definitions the runs check.

**Only model-checked**: all liveness (`PushedRowSettles`, `DueReceiptEnds`,
`EveryHandoffEnds`): temporal proofs under fairness and ENABLED are outside what
the prover here can do. `EvidenceInv` and `AdoptionMatchesEvidence` with `Reviews` are neither: a row
whose review recovery has lifted (finding 4) may be resumed and booked.

## 6. How to run it

    tlc -config MCTradeInboxRace.cfg MCTradeInbox
    tlapm TradeReceiptProofs.tla

The passing runs take between one and four minutes each with two workers.

## 7. Where the documents and the code part

Each has a run that ends in a counterexample, was replayed on the Python code
and is recorded under `findings`.

1. `InterruptedTradeIsJudged`: a first attempt whose resolver meets a transient
   error of SQLite leaves a failed entry in the state file and is to be retried.
   The second saves an unresolved, retryable result and is cut short, by an error
   or its death, before it writes the state file. The third then finds the older
   failed entry, which only lets a failed result be judged again, and calls the
   execution a duplicate. The row is handled, nothing is booked and nobody is asked.
2. `AssociationReachesLedger`: an order that becomes known between saving the
   result and settling the row never reaches the ledger.
3. `MembersAwait`: a fan-out batch whose recipients have used up their attempts
   is projected onto its members, and is then claimed again, because the claim
   does not ask how many attempts a fan-out batch had. Its completion can only
   raise the code's own "member mismatch", over and over.
4. `ReviewStays`: a lookup that contradicts the configured underlying puts a row
   that was claimed before under review. The receipt recovery lists it, as it lists
   all but conflicts, does not read it back, because it is not pending, and stores
   its empty result as handled: neither booked, nor under review, nor reported.

Further observations, without a run. Receipts and inbox:

* A row whose missing status a lookup supplied carries the source `lookup`
  (inbox.py 337), which recovery does not list (654, 1134). After an interrupted
  attempt it stays pending (LEDGER_ARCHITECTURE.md:317-318).
* A fan-out receipt whose recipients have all used up their attempts stays
  `failed` without a stop reason; recovery begins and finishes an empty attempt
  every minute (FUTU_TRADE_HOLDINGS_SYNC.md:625-627, inbox.py 1076, 1119).
* An order contradiction can be lifted. Two deliveries without a deal status that
  name different orders are registered as an economic conflict; a later delivery
  without status and order rewrites the reason to "status missing", and an OK
  payload without an order then reopens the row. The claim merges the orders it
  finds, though LEDGER_ARCHITECTURE.md:305-306 says it merges known associations
  without conflict (inbox.py 305-332, 665-680). `AdoptionMatchesEvidence` is
  therefore about the orders of sources that report the deal as OK.
* A registered `applied association` conflict can be overwritten by "status
  missing" and then be reopened by a later OK payload, though the docstring of
  `enqueue_trade_payload` says conflicts are never cleared. `TradeAdoption`
  therefore lets `Hold` replace one reason by the other.
* A stock deal or a booked close whose ledger write was interrupted is never read
  back (auto_intake.py 440-453): its row stays pending with a result to be
  verified, without a bound on time, unless an operator reconciles it with the
  ledger.
* A manual row whose state entry is unresolved and not retryable is judged a
  duplicate when the operator resumes it.
* Two senders may work on one unfinished fan-out receipt (inbox.py 1070). The
  second reads a snapshot in which the first's recipients are in flight and
  stores `unknown` for good. In the model this is a `Finish` whose `r.by # s`.
* Superseding a receipt overwrites `route_changed_requires_review`, and
  revisiting it clears the reason. `OneTarget` still holds, because beginning an
  attempt compares the frozen route again.

Outbox:

* The same unknown batch can be resent more than once, each time with the next
  revision; a batch that holds two revisions of one transition cannot be resent.
* A fan-out batch may end `partial` or `unknown` although a late answer of a
  child confirms it afterwards.
* A fan-out route may start two sends within the interval
  (FUTU_TRADE_HOLDINGS_SYNC.md:1050-1051, notification_outbox.py 1043); so may a
  direct route with combo confirmations and dispatchers that are authorised for
  different accounts. `StartsAreSpaced` says where the interval does hold.

Position projection:

* The preview does not look for a lot that exists already under the id of the
  new one, as the commit does; the commit then replays everything and refuses.
  `PreviewIsHonest` is therefore about events the ledger takes.
* Once a checkpoint could not be decoded or was too large, the mode `untrusted`
  is left only by a migration; until then every write replays everything.

Settlement attempts:

* An observation that raises after the ledger's commit is taken for a failure.
  The audit of that failure is refused as contradicting the one of the
  observation (repository_lifecycle_attempts.py 112-165), so the row stays
  finished as failed; once its claim has run out every later run raises on
  reconciling it. `AuditsAgree` says that this is the only difference.
* An invocation is reconciled as old because its claim had run out in a listing,
  also when its holder has renewed the claim since (lifecycle_runtime.py 853-882,
  inbox.py 2409-2422): a live call becomes `ambiguous` and waits for an operator
  (FUTU_TRADE_HOLDINGS_SYNC.md:1252-1253). `NothingForgotten` and `OneCall` hold.
* A crash or a lapsed claim between the finish and the ledger's audit leaves an
  ambiguous row with an outcome and no audit, which neither resolution accepts.

Operations, refresh, configuration:

* Reconciling a row with the ledger gives its wanted refresh up, also when the
  hand-off was begun (inbox.py 1434, 1536): no other step asks for it again.
* An upgrade whose worker outlives the timeout, or whose launch reports a timeout
  although it started, stays `failed` though it is applied, and its final receipt
  is never queued. A late `mark_applied` of the other kinds does correct it:
  `FinalStays` names exactly this exception.
* A receipt sender that outlives its lease may overwrite `sent` by `failed`, and
  the receipt is sent again: the condition `~late` of `SentStays`.
* Of two concurrent edits of one trade preview the later overwrites the earlier.
* A refresh request may be sent again after PM took it, when the loop had listed
  it before; PM takes an id once.
* The removal of a finished transaction directory is not atomic: killed half-way
  it can leave a journal without its copies, and every later entry fails
  validation although the files are consistent (`SweepDirectory`, `txn.whole`).
* An edit of config.yaml between the last digest check and the write is
  overwritten, and two runtime roots that share one config.yaml take different
  locks. The model has one root.

## 8. Not modelled

The repository has 360 000 lines, most of which render briefs and reports, fetch
market data, migrate stored data or test. What is modelled are the stores in
which several actors change the same durable record. Left out, beyond what
section 1 says: `ProjectGuard` (`multi_tick/project_guard.py` 125) reads, changes
and writes its failure counter without a lock, so there is no promise to check
beyond the single-process case: concurrent failures are counted once, and a
success can close a circuit another process has just opened. The provider, PM
and the broker are external and modelled by what the code relies on.
