# TLA+ models of Butterbot

Butterbot is a Discord bot with a virtual economy kept in one SQLite file. One
process (`src/src/butterbot`) runs an asyncio loop: command handlers, a storage
monitor and the shutdown all interleave at `await`s. This directory holds TLA+
models of the parts whose correctness depends on such interleavings or on long
sequences of legal requests, TLC configurations that check them, and proofs.

Paths below are relative to `src/src/butterbot`.

## Inventory

| Component | State | Operations | Hard behaviour | What makes it correct |
|---|---|---|---|---|
| **Transaction lifecycle** `infrastructure/persistence/unit_of_work.py`, `application/transactions.py` | accepting flag, writer permits, waiting tasks, admitted units, unresolved cleanups; per unit a phase, a session, a connection, deferred callbacks | register, begin, commit, rollback, shielded cleanup, finish; retry on busy; begin_shutdown, drain, cleanup retry | cancellation at every await, shielded commits, failing closes, timeouts, shutdown racing admission | permits conserved, nothing open is forgotten, the caller hears the truth, at most one commit per run, a drained runtime is quiescent |
| **Storage monitor and identity guard** `storage_monitor.py`, `storage.py` | safe flag, queued transitions, sampler task | sample, close, identity_failure, verify before and after commits | a sample's verdict is older than its end; telemetry that fails | transitions reported in order, recovery, loss noticed |
| **Safety domain** `application/safety`, `application/economy/grants.py`, `corrections.py` and their repositories | capabilities, restrictions, proposals, executions, corrections, wallets | bootstrap, change capability, propose, approve, execute grant, correct grant | authority that changes between approval and execution, clocks that go back, rolling windows, policy changes at restart | two-person rule, standing authority, one execution per grant, ceilings, conservation |
| **Transport idempotency** `application/operations/idempotency.py`, `repositories.py` | transport request rows with an outcome and a retention instant | claim, replay, complete, delete expired | retry of an interaction after a crash or after retention; the outcome canonicalised before it is stored | one application per interaction; a replay returns what was stored |
| **Ledger, join, balance, daily claim** `application/players`, `application/economy`, `daily.py`, `models.py` | players, wallets, ledger transactions, postings, seals | join, balance, daily inspect and claim | a claim that waits across midnight; unique receipts | one reward per player and day, balances equal postings |
| **Runtime composition** `database.py`, `bootstrap.py`, `discord_app/startup.py` | close task, shutdown capture, monitor close task | create runtime, close, retry of close | monitor close in parallel with the drain, disposal and lock release that fail, SIGTERM | the lock is released last, and only over a quiescent engine |
| **Process lock** `process_lock.py` | abstract socket or file lock | acquire, release | death of the holder | one writer process |
| **History paging** `history.py`, `application/economy/history.py`, `extensions/balance.py` | none; the cursor travels with the player | page by cursor | commits between two pages, with a clock that may go back | nothing lost, nothing twice, balances that add up |
| **Readiness, schema contract, offline verification** `readiness.py`, `schema_contract.py`, `release_manifest.py`, `verification.py` | none | compare a file with the release, look at the sentinel | a bounded look that stands for a scan; a revision row that lies | a database that is admitted has no hole |
| **Migrations and triggers** `src/migrations` | tables, keys, CHECKs, triggers, the sentinel `operations_integrity_violations` | upgrade, downgrade, every SQL statement they guard | REPLACE, recursive triggers, moves by UPDATE, rows older than their triggers, the implicit rowid | alarms outlive holes, sealed rows never change, receipts tell what happened |
| **Discord adapters, configuration, telemetry** | none | parse, format, emit | telemetry may fail | - |
| **Economy simulation** `simulation/economy.py` | none | pure computation over balance sheets | - | conservation of its totals |

How they interact. A handler calls a service, which calls
`ApplicationTransactionRunner.run`; the runner opens units of work until one
succeeds, a retry is not allowed or the deadline passed. A unit registers with
the lifecycle (one permit of four), checks the file through the identity guard,
and begins `IMMEDIATE`. Inside the body the service consults
`GlobalMutationEligibility`, which reads the monitor's flag, and the
idempotency coordinator, which claims the interaction's key. On exit the unit
commits under a shield, confirms the file's identity, runs deferred callbacks,
closes and finishes. `DatabaseRuntime.close` stops the monitor and drains the
lifecycle in parallel, then disposes of the engine and releases the process lock.

## Modules

| Module | Models | Used by |
|---|---|---|
| `UnitOfWork` | transaction lifecycle, retry runner, shutdown drain | `MCUnitOfWork`, `UnitOfWorkProofs` |
| `UnitOfWorkProofs` | theorems about `UnitOfWork` | - |
| `Lifecycle` | abstract: what the runtime relies on in a transaction lifecycle | `UnitOfWork`, `RuntimeCloseProofs` |
| `RuntimeClose` | process lock, startup, close and its retries, death of the process | `MCRuntimeClose`, `RuntimeCloseProofs` |
| `RuntimeCloseProofs` | theorems about `RuntimeClose` | - |
| `StorageMonitor` | the safe flag, its writers, its events | `MCStorageMonitor`, `StorageMonitorProofs` |
| `StorageMonitorProofs` | theorems about `StorageMonitor` | - |
| `Safety` | capabilities, proposals, grants, corrections | `MCSafety`, `SafetyProofs` |
| `SafetyProofs` | theorems about `Safety` | - |
| `Idempotency` | claim, completion, retention and cleanup of request rows | `Daily` |
| `Daily` | join and daily claim on top of `Idempotency` | `MCDaily`, `DailyProofs` |
| `ExactlyOnce` | abstract: what a request that moves coins promises | `Daily` |
| `DailyProofs` | theorems about `Daily` | - |
| `HistoryPaging` | `/history`, its cursor and the transactions that commit meanwhile | `MCHistoryPaging`, `HistoryPagingProofs` |
| `HistoryPagingProofs` | theorems about `HistoryPaging` | - |
| `AggregateIntegrity` | the tables of players, accounts and balances, the sentinel, migrations 0001 to 0003, readiness | `MCAggregateIntegrity`, `AggregateIntegrityProofs` |
| `AggregateIntegrityProofs` | theorems about `AggregateIntegrity` | - |
| `ProposalSeal` | the database's protection of proposals (0004, 0005) | `LedgerSeal` |
| `LedgerSeal` | the ledger, the receipts and the triggers that seal them (0006 to 0009), composed with `ProposalSeal` | `MCLedgerSeal`, `LedgerSealProofs` |
| `LedgerSealProofs` | theorems about `LedgerSeal` and `ProposalSeal` | - |
| `MC*` | instances for TLC: model values, small sets, symmetry | the `.cfg` files |

### UnitOfWork

A task (`Owner`) stands at one await, `pc[o]`; a unit (`Unit`) is one
`SqlAlchemyUnitOfWork` object. Every action is the code between two awaits, so
all interleavings of tasks, cancellations, the drain and its cleanup attempts
are explored. `accepting`, `active`, `unresolved` and `waiting` are the fields
`_accepting`, `_active`, `_unresolved` and `_waiting`; `slots` is the free
count of `_writer_slots`; `held[u]` says which of `_session` and `_connection`
are not `None`; `capture` is the `ShutdownCapture`.

* **Entering.** `Refuse` and `Enter` are the two outcomes of the first test in
  `register`; `Admit` is the permit being granted, `AdmissionFails` its timeout
  or cancellation. `Connect` and `Begin` are the checkout and the `BEGIN`,
  `StartFails` everything in `__aenter__` that can fail after admission,
  including a cancelled `BEGIN IMMEDIATE` that the driver's thread still
  executes.
* **Leaving.** `BeginCommit`, `AssertionFails` and `BeginRollback` are the
  branches at the head of `__aexit__`; `Commit`, `CommitFails`, `Confirm`,
  `Rollback` and `Rescue` run under the shield, where a cancellation only sets
  `cancelling`; `Close` ends the shielded cleanup, calls `finish` and settles
  the attempt.
* **Between.** `GiveUp` ends the backoff, `Return` the handler, `Cancel` is
  anybody's `task.cancel()`.
* **Shutdown.** `BeginShutdown`, `DrainTimeout`, `DrainGivesUp`,
  `StartCleanup`, `CleanupEnds`, `FinishCleanup`, `RetryShutdown`.

`DatabaseRuntime` sees of all this only which units may touch the database and
how far the shutdown is (`Open`, `Stage`); `ImplementsLifecycle` says that under
this mapping `UnitOfWork` implements `Lifecycle`: units start only while the door
is open, and success of a drain means that nothing is open, for good.

Deadlines are not counted: a timeout may happen at every await that has one.
That gives the model at least the program's behaviours.

### Lifecycle, RuntimeClose

An element of `Process` is one incarnation of the bot; a restart is another one.
`Acquire`, `CreateEngine`, `CheckReadiness` and `UndoStartup` are
`create_database_runtime` and its failures; a disposal that raises while a
startup is undone leaves the lock with the process (`stuck`) until it ends.
`Die` ends a process at any instant: the operating system frees the abstract
socket or the file lock together with the connections.

`Work` is all that `Lifecycle` allows the transactions, `SampleStarts` and
`SamplerEnds` are the monitor's task. A caller of `close` waits for one attempt
(`waitsFor` counts the values of `_close_task`), and a cancelled one goes back to
wait for whatever `_close_task` then is. `StartAttempt` to `Dispose` are
`_close`: the two parts that `gather` waits for decide on their own, each may
fail, and a monitor close that outlived its time limit is used again by the next
attempt. A lock release that raises has freed the lock all the same, so a retry
may release when another process owns it.

`Work` restates the actions of `Lifecycle` per process, and `DrainDecides` is
its `Quiesce` or the verdict of `DrainGivesUp`.

### StorageMonitor

`storage` is what a look at the file system finds: sound, degraded (space,
volume or permissions; identity intact) or swapped (another file under the
path). `SampleStart`, `SampleConnect` and `SampleEnds` split
`DatabaseStorageMonitor.sample` at its awaits. `Drain` is
`_drain_safety_transitions`, which stops at the first event that telemetry
refuses. A sample of sound storage succeeds in the model; in the code its pool
checkout or its checkpoint may also fail for reasons that are not the storage's
(`storage_monitor.py:81-83`), which makes the runtime unsafe until the next sample.
Nothing about safety depends on that, `Recovers` does.
`Admit`, `Evaluate`, `PreCommit`, `Confirm` and `Close` are the points
of a transaction that read or write the flag. `stale` is a history variable: a
failure was reported since the running sample validated.

### Safety

Each service method is one serialised write transaction, so it is one action,
guarded by all of its checks. A rejected request changes no domain row and is
no step. Time is the injected clock, which may be set back; `Day` stands for 24
hours. `Approve` and `Propose` sample the clock when the request arrives,
`ExecuteGrant` and `CorrectGrant` inside the transaction; `Arrivals` is the set
of instants a request may have sampled while it waits, at most `MaxLag` from the
present one: earlier ones, and later ones where the clock may be set back. A restart may
change the configured policy or leave none. Identities of interactions are
replaced by the proposal's own identity; replay of one interaction belongs to
the idempotency coordinator.

### Idempotency, Daily, ExactlyOnce

An interaction carries one command of one user, and the UTC day of its creation
that its snowflake fixes (`Press`; Discord's clock and the bot's are one). `Deliver` is one delivery of it to
`JoinService.join` or `DailyService.claim`: the code's one write transaction.
A delivery answers from the permanent receipt (`ReplayReceipt`, daily only),
else from the stored row (`ReplayRow`), else judges the request and stores the
outcome, refusals included (`Join`, `Claim`). `Answer` lets the reply be lost,
so a behaviour in which the process dies after the commit is the same
interaction delivered again; death before the commit rolls everything back and
is no step, and so is a busy writer. Since the intent of an interaction never
changes, its fingerprint does not, and `FingerprintConflict` cannot be raised.

`Join` samples the clock when the request arrives, `Claim` inside the
transaction; `Arrivals` and `Samples` are those instants. Sampling and committing a
claim are one step, so `CreditedInItsDay` is about the sampled instant: the commit
may fall a moment after midnight. `Cleanup` is
`TransportIdempotencyMaintenance.cleanup`, which nothing in the source calls
yet; it may run at any time. `Switch` freezes or releases a user, or stands for the
eligibility of all. Players never leave the active state and wallets are
created with their players, so the outcomes `inactive` and `unavailable` do not
arise. `wallet` counts only daily rewards.

`ExactlyOnce` says what a user may rely on: a request takes effect at most
once, each answer says truly whether it did, and a refusal that was heard is
final. `Daily` implements it under the mapping of `Promise`: the requests that
took effect are those with a receipt, and of an answer only success or refusal
is visible. Finality of a refusal rests on two facts of the deployment: an
outcome is kept longer than a day (seven days in the code), so that when the row
of a refused claim goes its day is over; and the clock is not set back
over the retention. `daily` therefore runs with a retention of a day and a
forward clock; without either the refused claim may be judged anew.

### HistoryPaging

`Write` are the transactions that post to the player's wallet, `Open` and
`Follow` the command without and with a cursor, each one read snapshot. The
query fetches one row more than a page holds; `NextCursor` is the last row shown
when there was one. `Commit` stamps a row with a clock that `Tick` moves either
way and takes any unused id, so a row may sort below, between or above the pages
already read. `shown` and `present` belong to the reading, not to the program:
the entries of its earlier pages and the transactions that were there when it
began. `regular` says that the commits kept their order; `StatementAddsUp` is
about readings of such a ledger only, since after the clock was set back the
list is by time and not by commit (`docs/decisions.md:881-888` and
`docs/database.md:442-450` promise no more).

### AggregateIntegrity

Every action is one SQL statement that commits, on any of the aggregate tables
and by anybody, the bot included. A statement that the schema aborts changes
nothing and is no action. `policy` is the conflict clause and `recursive` the
pragma `recursive_triggers`: the two decide which delete triggers a REPLACE
fires. `keyed` are the rows in its way by a declared key and `named` the one whose
implicit rowid it names (`Namable`); `displaced` are both. The constant `RowidNamed`
says with which settings of the pragma statements name a rowid. The bot never does,
and what the schema lets such a statement do is the known gap below. `violations` is the sentinel. `installed` is the set of revisions whose
triggers the schema really has and `stamp` the row of `alembic_version`, which
an operator can set without migrating. `Head` is 3: revisions 0004 to 0009 leave
these triggers alone and count as part of 3. `Start` is the readiness check;
`startup` remembers its verdict until the database changes. Its verdict
`schema_behind` stands for every revision that is not the release's: behind, ahead,
unknown, incompatible or missing (`readiness.py:121-132`, `:198-214`). The look for
transport requests without an outcome (`:137-148`) is left out; it can only refuse
more.

Left out: statements with `foreign_keys=OFF`, a migration that a crash cuts short, and dropping a trigger by hand (the schema
fingerprint finds these, like any other difference from the release).

### ProposalSeal, LedgerSeal

Again an action is one statement that commits; each is modelled in the form that
says REPLACE, which can do whatever the plain form can. Statements name declared
columns: those that name the implicit rowid are outside these two modules, and what
they show does not hold of them (see the known gap below). A statement on
proposals is an action of `ProposalSeal`; `LedgerSeal` extends it with the
ledger and the three receipt tables, which read the proposals in their validate
triggers. `Displaced` are the rows that a key of the new row would delete,
`LedgerWritable` and `PostingWritable` the guards the sealing triggers leave,
`GrantMatches`, `CorrectionMatches` and `TwoPostings` the comparisons of the
validate triggers, by number of rows and by join, as they are written.

`Upgrade` is `alembic upgrade head` from 0004 with nobody else writing; the revisions
between are not stopped at, since startup refuses all but the last. Downgrades are not modelled: those of 0008 and 0009
refuse while there are receipts, the one of 0006 drops them silently, and the
operators' manual says to restore a backup (`docs/operations.md:189`, `:263-264`).

## Runs

| Run | Question | Instance |
|---|---|---|
| `uow_attempts` | Are permits, open resources and captured tasks accounted for, is what the caller is told true, and is the lifecycle what the runtime relies on? | 2 tasks, a writer and a snapshot, 2 permits, 1 retry, everything cancellable, every close may fail |
| `uow_live` | Does every attempt end and a shutdown decide while another task hangs? Does it quiesce? Can a retry apply twice? | `FairSpec`, 2 tasks, one of which may hang or be cancelled, 1 permit, 2 writers, one of which may fail to close |
| `runtime_close` | Does only the owner of the lock use the database, and does close return and tell the truth? | `FairSpec`, 2 incarnations, one of which is asked to close up to 3 times by 2 callers, 2 transactions that may hang |
| `monitor_reports` | Are transitions reported in order through telemetry failures? Recovery, notice of a loss | `FairSpec`, 2 transactions, 2 changes of the storage; deadlock checked |
| `monitor_later_sample` | Violated: see findings | 1 transaction, 1 change |
| `safety_grants` | Two-person rule, standing authority, settled proposals, corrections bounded, wallets explained | 2 operators, 2 wallets, 2 proposals, all operations, capabilities that change, 2 policies |
| `safety_windows` | One execution per grant; ceilings over rolling days | 1 operator, 3 grants, clock both ways over two and a half days, policy changes, late requests |
| `safety_expiry` | Violated: see findings | 2 operators, 1 proposal, lag 1 |
| `daily` | One reward per day and in its day, books explained, replays exact, and is the claim an `ExactlyOnce`? | 3 interactions of 1 player over two days, requests that wait over midnight, rows kept for one day |
| `history` | Does a reading in pages lose or repeat anything, and do its balances add up? | 5 transactions over 2 instants, clock both ways, pages of 2; deadlock checked |
| `aggregate` | Does every hole have its row, for good, and is the look at the sentinel worth the scan? | 2 players, 2 identities, 3 accounts, a system account; rowids named with recursive triggers only; deadlock checked |
| `seal` | Does any statement on declared columns break a receipt, its ledger rows or an old proposal? Is anything booked twice? | 1 grant, 2 operators, 1 wallet, 2 transactions, 2 correlations, 2 interactions |

**Why the bounds are enough.** In `uow_live` one permit and two tasks make every
waiter meet every holder; in `uow_attempts` the second permit adds the overlap of
a snapshot with a writer (for any number of permits `SlotsAccounted` is proved). With one retry a run that takes both units exhausts the runner's limit,
so the whole retry loop is there (the code allows two retries, and the proofs
cover any number), and runs of different tasks share nothing but the permits
and the writer lock. A proposal is decided independently of others
except for the rolling sums, and three are needed for two inside a window and
one outside. There `Day = 2` gives an instant strictly inside the window and one on
each edge; `safety_grants`, which is about who may do what, needs one instant
inside a day and one after it. In `runtime_close` a second incarnation that never closes is enough:
what it does to the first is to hold the lock and to use the file, and three
attempts are a failure, its retry and a retry of the retry. Three interactions are a join and two claims, the fewest with which a
wallet changes between a claim and its repetition. That one reward is paid per day
also when the clock is set back is proved, for any movement of the clock, and not
repeated by the run. In `aggregate` a row can displace another one, two wallets and a
system account fit, and the triggers of 0002 and 0003 are installed in every combination. In `seal` two
transactions let one displace another, and let a grant and its correction or two claims
meet; the postings and proposal rows that statements may insert (`Movement`,
`Inserted`) are those a receipt can be about, and wrong combinations of them. Five
transactions make `history` three pages long with ties of the clock across the
edge of a page. Bounds on the environment, all named in the modules: `Cancellable`
(who is cancelled from outside), `Leaky` (whose close may fail), `MaxChanges`,
`MaxClock`, `MaxLag`, `Changeable` (capabilities that change hands) and
`Operations`, `CleanupLimit`, `ClockSteps`, `MaxAttempts` and `Closing`; the number of units bounds the length of a behaviour of
`UnitOfWork`, since an object is used once.

**Symmetry** is used only in runs without temporal properties other than
action properties, over constants that are interchangeable in that instance.

**Deadlock.** The handlers of `UnitOfWork` end and units run out; requests of
`Safety` and `Daily` are finitely many, and their clocks bounded; the processes of
`RuntimeClose` end; a database of `LedgerSeal` in which everything is sealed admits no
statement. These runs switch deadlock checking off. `monitor_reports`,
`monitor_later_sample`, `aggregate` and `history` check it: telemetry may always
change, a database can be started again, a history be opened again.

## Fairness

`FairSpec` of `UnitOfWork` lets a task inside a unit proceed (`InUnit`). The
code justifies it: admission, checkout and the SQLite busy wait run under the
attempt's deadline, and commit, rollback and close are local calls of the driver.
The backoff and the handler end. Nothing else is fair: entering, cancelling and
shutting down may never happen, and a task in `Hanging` may stop for good at
any await, which is what the drain is built for: its own timers (`DrainStep`)
are trusted. `RunsSettle` speaks of the tasks that run, `ShutdownQuiesces` of
shutdowns without a hanging transaction, `DrainDecides` of all.
`FairSpec` of `RuntimeClose` lets an attempt proceed, whose two waits and disposal
have time limits, and a caller return; transactions and samples are not fair, so
`CloseReturns` holds although they may hang. A caller whose process dies is excused.
`FairSpec` of `StorageMonitor` runs the sampler's task: its wait has a timeout
and its awaits return. `Recovers` and `NoticesLoss` speak of behaviours in which the monitor is not stopped.
`Recovers` rests besides on samples of sound storage succeeding, which is an assumption
on the environment: a pool that is exhausted at every sample would keep the flag unsafe.

## Proofs

`UnitOfWorkProofs` shows for any finite sets of tasks and units, any number of
permits and retries, that every safety invariant checked for `UnitOfWork` holds,
and two facts that no run repeats, `DrainedIsFinal` and `LeakMarksUnsafe`. The assumptions are those of the module: `NoOwner` and
`NoUnit` are not elements, the sets are finite, `WriterSlots` is positive.

None of the invariants is inductive alone, for each depends on where the owner
of a unit stands. `IInv` adds:

* `OwnersCoupled`, `ActiveCoupled`: `pc[o]` and `unit[o]` determine each other,
  and `active` is the set of units whose owner is inside them. Without it
  `Finish` could return a permit for a unit that has none.
* `FreshUnits`: a unit that nobody entered has left no trace.
* `Underway`: which failures, phases and durability go with each await. This
  carries `TruthfulResult` through a cancelled commit.
* `RunsCoupled`: while a run goes on no earlier attempt of it is durable.
* `CommitsDecided`: a durable unit is past the phase in which it can be stopped.
* `CleanupCoupled`, `DrainCoupled`: what the shutdown has established at each of
  its awaits; the lock has a resource behind it.

There is one lemma per group of conjuncts (`SlotsStep`, `TypeStep`,
`CouplingStep`, `VerdictsStep`, `CustodyStep`), each with one step per action;
`Inductive` combines them, and each invariant is read off. The accounting of
permits rests on the cardinality of a finite set with one element more or less.

`Implements` shows the refinement of `Lifecycle`. Its parts are `OpenShrinks` (once
the door is closed only an admitted unit takes a resource, so the open units
only become fewer), `DrainCompletes` (the step to `drained` finds nothing open)
and `DrainedStep` (nothing moves afterwards, which is also `DrainedIsFinal`).

`RuntimeCloseProofs` shows `OwnerOnly`, `CloseTruthful` and `DisposesQuiescent`
for any processes, transactions, callers and attempts. Its `IInv` says where a
process may have something at work (`Startable`), that a running one owns the
lock as long as its engine is open (`KeepsOwnership`), that what an attempt found
ended stays so (`PartsEnded`: without it a sampler could start again between the
verdict and the disposal) and that a success is the last attempt
(`ClosedForGood`). `Contract` joins the two modules: the transactions of each process,
as close relies on them, start and move as `Lifecycle` says until the process ends
(a parametrised instance, one lifecycle per process), and that is what `UnitOfWork`
implements. It needs `DoorShut`: an attempt has closed the door before it drains.

`StorageMonitorProofs` shows `ReportsInOrder` for any bounds on transactions and
changes. Every writer of the flag goes through `SetSafe` (`FlagStep`), and a
report that fails, or one that is under way while another writer queues its own,
moves an event at most from the queue to the received ones (`DrainKeeps`): the two
together, `History`, only grow, by the value the flag just took.

`DailyProofs` shows `OneRewardPerDay`, `CreditedInItsDay`, `RewardsExplained` and
`ReplaysExact` for any players, interactions, reward, day, retention and any
movement of the clock. `OneRewardPerDay` is inductive as it stands: by `IssueStep`
money moves only when a claim is delivered that has no receipt, for a day without
one, and its day is the one of the instant sampled in the transaction (`StepAdds`).
The same lemma carries `RewardsExplained`, which needs that the receipts are
finitely many: one receipt more is one reward more, and its balance is the next
one. `ReplaysExact` rests on `RowsMatch`: the row of a claim with a receipt, while
it stands, tells the receipt's balance; `Claim` writes both in one transaction.
Two results no run repeats: all successes heard of one claim are the same
(`SameSuccess`; by `AllBacked` each is what the one receipt says, and receipts and
intents are permanent), and no refusal and success are heard of one claim
(`NoContradiction`, under `Deployment`).

`Implements` is the refinement of `ExactlyOnce`, assuming
`Deployment`: the clock moves forward and an outcome is kept for a day or
longer. The invariant `PromiseInv` says that a row of a claim is true of the
receipts and outlives the day of the claim (`RowsTrue`), and that an answer is
true and, when it is a refusal, either still stored or of a day that is over
(`AnswersTrue`); so the interaction of a heard refusal cannot be judged to
succeed. `StepMaps` then takes each step to a step of `ExactlyOnce` or a
stutter. The arithmetic of days is in `PeriodMonotone` and `PeriodPasses`.

`AggregateIntegrityProofs` shows the three properties of `AggregateIntegrity` for
any players, identities, accounts and system keys, under one assumption on the
statements, `RowidsFireTriggers`: a rowid is named, if at all, on connections with
recursive triggers. Only the type invariant is free of it. `Alarms` needs types besides: in
each action, once 0002 froze the identities, a row that leaves the sentinel is no hole
in the next state. Before 0002 an UPDATE OR REPLACE may give an account the id of one it
displaces, whose alarm goes although the hole stays; `AlarmsOutliveHoles` claims nothing there.
`SentinelComplete` is not inductive alone; it needs `Alarms` and that with all
triggers in place a step records what it opens (`OpenedRecorded`), while a step
that completes the triggers is an `Upgrade`, which records all holes there are
(`InstallRecords`). `Bounded` follows: what startup admits has an empty
sentinel, so no hole.

`LedgerSealProofs` shows the four properties of `LedgerSeal` for any proposals,
operators, targets, amounts, transactions, accounts, and for any postings and
proposal rows that statements name, as long as they name declared columns. `Seals` takes each statement's guard to the
rows it changes. `Once` strengthens `BookedOnce` with `Labelled`: a receipt and its
transaction carry the same label, kinds differ between the tables, and a sealed
row keeps its label. `Receipts` rests on `Explained`, which says the story of each
receipt; when one is written, `ExactPostings` turns the counts the validate
trigger compares into the very set of postings (a transaction with as many
postings as there are beneficiaries and one, and with these, has no others), and
`ScopesSound` excludes the empty list, for which the counts would prove nothing;
afterwards `SealHolds` and `ProposalsHold` keep every part of it in place.

`SafetyProofs` shows `TwoPersonRule`, `SettledForGood`, `GrantedOnce` and
`IssuedOnStandingAuthority` for any operators, targets, amounts, policies,
lifetimes and movements of the clock, assuming that the targets are finitely
many and that no proposal is the value that stands for its absence. `Decides`
says what may become of the proposals in a step that touches them: one proposal
is created, or one pending proposal gets a decision and an approver and nothing
else; `DecisionStep` shows it of every action. `TwoPersonRule` is not inductive
alone, because it speaks of settled proposals only: `ApprovalsRecorded` adds that
a bulk or global proposal asks for an approval from the moment it is created.
`GrantedOnce` and `IssuedOnStandingAuthority` rest on `ExecutionFrame` (only
`ExecuteGrant` adds an execution) and on the guard that rechecks the authority.

The four properties about money need sums over finite sets. `SumFunction` of the
community modules is a fold, whose value for every set could be shown only by
induction; the first section of the module therefore takes a least counterexample
among the parts of the set (`MinimalSet`) and derives what the proofs use: the sum
of a split set, of a single entry, of zeros, of a larger set or larger entries, of a
wallet table in which some targets are credited. `MoneyInv` is the invariant
behind `WalletsExplained` and `CorrectionsBounded`: what was executed is an
approved grant on record, which no decision touches again (`ExecutedUntouched`), a
correction is of an execution, within its credit and the only one of it, and each
wallet is its credits less its debits. `CreditStep` and `DebitStep` are the two ways
in which money moves.

`GrantWindow` and `ProposalWindow` speak of every day-long window around a new
execution or proposal. The code compares one sum with the ceiling: what the last
day holds, counting everything stamped at or after its start; `WindowBound`
compares each window with it, entries stamped later than the present clock
included. From the steps follows the state of affairs for any window whatsoever,
which no run repeats (`IssuedInADay`, `ProposedInADay`, `CorrectedInADay`): if
every configured rolling ceiling is at most some limit, no operator has ever
issued, proposed or taken back more than that limit in any day, wherever policies,
restarts and the clock went.

`HistoryPagingProofs` shows `NothingLost`, `PagesDescend` and `StatementAddsUp`
for any ids, amounts, page size and movements of the clock, assuming that
the cursor that stands for its absence is not a cursor. The lemma at the heart is
`PageOf`: the newest `PageSize` of the newest `PageSize + 1` rows are the newest
rows, the cursor is the last of them, and every row left out is older than it; it
rests on the existence of a newest and an oldest row in a finite ledger
(`Extremes`). `ReadingOK` is the strengthening of `NothingLost`: what was there
when the reading began has been shown or lies below the cursor, and nothing shown
does. `Chain` is that of `StatementAddsUp`: the newest row records the balance of
the wallet, and each row continues the next older one.

The type invariants of all modules with runs are proved.

Only model-checked: liveness (`RunsSettle`, `ShutdownQuiesces`, `DrainDecides`,
`CloseReturns`, `Recovers`, `NoticesLoss`), since fairness and `ENABLED` are beyond
the prover, and the two properties of the documentation that do not hold. Every
safety property a passing run checks is a theorem.

## Findings

* `monitor_later_sample` refutes `docs/database.md:252-255` ("... until a later
  healthy sample or restart"). `sample` checks the path first, awaits the
  checkpoint, and then stores the verdict of those checks. A failure that a
  transaction reports during the await is overwritten by checks that ran
  before it. `NoticesLoss` holds: the next sample finds a lasting loss.
* `safety_expiry` refutes `docs/decisions.md:755-756` ("Approval rechecks ...
  expiration"). `approve` compares the expiry with the instant at which the
  request arrived; a request that waits for the writer settles a proposal that
  has expired. Grants are unaffected, since execution samples again; a
  restriction takes effect at approval.

### A known gap: the implicit rowid

No table of the migrations is `WITHOUT ROWID`, so each has one more unique key, its
rowid. The triggers of 0003, 0005, 0006, 0008 and 0009 that stop a REPLACE compare
declared columns of the new row, and those of 0002 guard declared columns. A
REPLACE that names the rowid of another row passes them and deletes that row. With
`recursive_triggers` on the delete triggers see the deletion; with them off, SQLite's
default, which the bot leaves as it is, nothing does. In words:

* `INSERT OR REPLACE INTO economy_account_balances(rowid, account_id, ...)` with the
  rowid of A's balance and the account B, which has none: A's balance is gone, B's
  alarm is cleared, the sentinel is empty, startup says ready, and the offline scan
  refuses. An account without a balance may go likewise and leave its player without a
  wallet. On `operations_integrity_violations` the statement removes a true alarm.
* on `economy_ledger_postings`, with the rowid of a sealed posting and an unsealed
  transaction: the sealed posting is gone. Likewise for a grant's targets and for the
  receipts of grants, corrections and claims.
* on `safety_proposal_scopes`, with the rowid of a seal that 0005 made: that seal is
  gone, a verified one may follow, and the old proposal acts.

So what `docs/database.md:372-375` and `docs/decisions.md:600-602` say of replacement
("All PK/identity uniqueness conflicts abort", independently of `recursive_triggers`)
is true of the declared keys and not of the rowid. Nothing in `src/` names a rowid;
it takes an operator with a SQL shell. `RowidNamed` is therefore `{TRUE}` in
`AggregateIntegrity.cfg` and an assumption of the proofs; with
`RowidNamed = {TRUE, FALSE}` TLC refutes each of `SentinelComplete`,
`AlarmsOutliveHoles` and `BoundedScanSuffices`.
`ProposalSeal` and `LedgerSeal` leave such statements out. `BookedOnce` does not
depend on that: a displaced receipt only disappears.

## Not modelled

Inside the modelled components: the append-only audit rows and the audited
reads of the safety domain; the recovery of authority by the bootstrap
configuration after every manager was revoked, beyond the action `Bootstrap`
itself; the amounts and identifiers of ledger rows beyond
what conservation needs; sizes and thresholds of the storage sample; the exact
deadlines and backoff times; a connection that the driver may leak when a
checkout is cancelled before it returns, which no object of the program refers
to. Integers are unbounded: the code keeps them in 64 bits by explicit checks
that reject a request. Of the migrations the transport rows, the audit and
bootstrap triggers, the column encodings and the downgrades of 0004 to 0009; of
readiness the pragmas and the files.

Components left out: the **economy simulation** is an offline, deterministic and
sequential computation over hypothetical balance sheets that touches no state of
the bot, and its own tests compare it with fixed results; the **Discord adapters**
parse and word, except for the history command and the day of an interaction,
which are in `HistoryPaging` and `Daily`; **telemetry** formats and writes, and that
it may fail is in `StorageMonitor`.

## Plan

In this order; each item names what it adds.

1. `SafetyReplay`: interactions of operators on the idempotency facility, with
   the receipts of executions and corrections.
2. That each service method of `Safety` and `Daily` is a sequence of statements
   `LedgerSeal` admits: the composition of the domain with its schema.
