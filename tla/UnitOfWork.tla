----------------------------- MODULE UnitOfWork -----------------------------
(***************************************************************************)
(* The transaction lifecycle of the bot's SQLite runtime:                  *)
(* UnitOfWorkLifecycle and SqlAlchemyUnitOfWork, driven by the retrying    *)
(* ApplicationTransactionRunner.                                           *)
(*                                                                         *)
(* An owner is an asyncio task.  It enters units of work one after the     *)
(* other; every action below is the code between two suspension points, so *)
(* owners, external cancellations and the shutdown task interleave exactly *)
(* at the awaits.  A unit is one SqlAlchemyUnitOfWork object and is used   *)
(* for one attempt.                                                        *)
(***************************************************************************)
EXTENDS Integers, FiniteSets

CONSTANTS
    Owner,        \* asyncio tasks that open units of work
    Unit,         \* unit-of-work objects; the pool bounds the behaviours
    ReadUnits,    \* the units that are read snapshots (BEGIN, no writer lock)
    WriterSlots,  \* permits of the admission semaphore (4 in the code)
    MaxRetries,   \* RetryPolicy.max_retries (2 in the code)
    Cancellable,  \* bound: the owners that code outside the shutdown cancels
    Leaky,        \* bound: the units whose close may fail
    Hanging,      \* the owners that may stop for good at any await
    NoOwner, NoUnit

ASSUME OwnerAssumption == NoOwner \notin Owner
ASSUME UnitAssumption == NoUnit \notin Unit /\ ReadUnits \subseteq Unit
ASSUME FiniteAssumption == IsFiniteSet(Owner) /\ IsFiniteSet(Unit)
ASSUME SlotsAssumption == WriterSlots \in Nat \ {0}
ASSUME RetriesAssumption == MaxRetries \in Nat

VARIABLES
    (* UnitOfWorkLifecycle *)
    accepting,       \* _accepting
    slots,           \* free permits of _writer_slots
    waiting,         \* _waiting: owners suspended in the semaphore
    active,          \* _active: admitted units that have not finished
    unresolved,      \* _unresolved: finished units with open resources
    attempts,        \* units whose shutdown cleanup attempt is running
    drain,           \* where the shutdown task stands
    capture,         \* ShutdownCapture.owners
    marked,          \* mark_unsafe was called for a cleanup failure
    (* one unit of work *)
    phase,           \* _phase
    owner,           \* the task that entered the unit
    held,            \* which of _session and _connection are not None
    shutdownCancel,  \* _shutdown_cancel_requested
    failure,         \* what the attempt is going to raise
    result,          \* what the "async with" block gave its caller
    callbacks,       \* the _after_commit list
    (* one owner *)
    pc,              \* the await the task is suspended at
    unit,            \* the unit it is inside
    run,             \* the units of the current runner.run call
    cancelling,      \* task.cancelling() > 0
    mustCancel,      \* a CancelledError is due at the current await
    (* the SQLite file *)
    writer,          \* the unit holding the SQLite writer lock
    durable          \* units whose COMMIT is durable

lifecycleVars == <<accepting, slots, waiting, active, unresolved, attempts,
                   drain, capture, marked>>
unitVars  == <<phase, owner, held, shutdownCancel, failure, result, callbacks>>
ownerVars == <<pc, unit, run, cancelling, mustCancel>>
dbVars    == <<writer, durable>>
vars      == <<lifecycleVars, unitVars, ownerVars, dbVars>>

Phases == {"new", "starting", "active", "committing", "committed",
           "rolling_back", "rolled_back", "failed"}
Failures == {"none", "busy", "error", "cancelled"}
CallbackStates == {"none", "deferred", "run", "cleared"}
Results  == {"pending", "success", "busy", "error", "cancelled"}
Resources == {"session", "connection"}

\* Awaits a cancellation interrupts, and the shielded ones that absorb it.
Interruptible == {"idle", "backoff", "admission", "connecting", "beginning", "body"}
Shielded == {"committing", "confirming", "rolling", "rescue", "closing"}
OwnerStates == Interruptible \cup Shielded \cup {"done"}
\* The owner is inside a unit that is in _active.
Admitted == {"connecting", "beginning", "body"} \cup Shielded
DrainStates == {"open", "waiting", "cancelling", "cleanup", "drained", "incomplete"}

Init ==
    /\ accepting = TRUE
    /\ slots = WriterSlots
    /\ waiting = {}
    /\ active = {}
    /\ unresolved = {}
    /\ attempts = {}
    /\ drain = "open"
    /\ capture = {}
    /\ marked = FALSE
    /\ phase = [u \in Unit |-> "new"]
    /\ owner = [u \in Unit |-> NoOwner]
    /\ held = [u \in Unit |-> {}]
    /\ shutdownCancel = [u \in Unit |-> FALSE]
    /\ failure = [u \in Unit |-> "none"]
    /\ result = [u \in Unit |-> "pending"]
    /\ callbacks = [u \in Unit |-> "none"]
    /\ pc = [o \in Owner |-> "idle"]
    /\ unit = [o \in Owner |-> NoUnit]
    /\ run = [o \in Owner |-> {}]
    /\ cancelling = [o \in Owner |-> FALSE]
    /\ mustCancel = [o \in Owner |-> FALSE]
    /\ writer = NoUnit
    /\ durable = {}

-----------------------------------------------------------------------------
(* How an attempt ends.                                                    *)

\* The block of unit u ended with r; a busy attempt sleeps before the next one
\* while the runner has retries left, anything else reaches the handler.
Settle(o, u, r) ==
    /\ result' = [result EXCEPT ![u] = r]
    /\ failure' = [failure EXCEPT ![u] = "none"]
    /\ unit' = [unit EXCEPT ![o] = NoUnit]
    /\ pc' = [pc EXCEPT ![o] = IF r = "busy" /\ Cardinality(run[o]) <= MaxRetries
                               THEN "backoff" ELSE "idle"]

\* An unsuccessful unit clears its deferred callbacks.
ClearCallbacks(u) ==
    callbacks' = [callbacks EXCEPT ![u] = IF @ = "deferred" THEN "cleared" ELSE @]

\* A cancellation that is due is the only thing the await can raise.
Raises(o) == IF mustCancel[o] THEN {"cancelled"} ELSE {"busy", "error"}

Deliver(o) == mustCancel' = [mustCancel EXCEPT ![o] = FALSE]

\* Mutants: the permit is returned only by a clean finish; an unclean finish is
\* forgotten.
FinishKeepsPermit(u, rest) ==
    /\ active' = active \ {u}
    /\ slots' = IF rest = {} THEN slots + 1 ELSE slots
    /\ unresolved' = IF rest = {} THEN unresolved ELSE unresolved \cup {u}
FinishForgets(u, rest) ==
    /\ active' = active \ {u}
    /\ slots' = slots + 1
    /\ UNCHANGED unresolved

\* UnitOfWorkLifecycle.finish, after a cleanup attempt that left rest open.
Finish(u, rest) ==
    /\ active' = active \ {u}
    /\ slots' = slots + 1
    /\ unresolved' = IF rest = {} THEN unresolved ELSE unresolved \cup {u}

\* What a cleanup attempt can leave open: session and connection close
\* independently, and either close may fail.
LeftOpen(u) == IF u \in Leaky THEN SUBSET held[u] ELSE {{}}

\* record_cleanup_failure.
RecordFailure(rest) == marked' = (marked \/ rest # {})

\* Closing either the session or the connection ends an open transaction.
ReleaseLock(u, rest) ==
    writer' = IF writer = u /\ rest # held[u] THEN NoUnit ELSE writer

-----------------------------------------------------------------------------
(* Entering: __aenter__ and register.                                      *)

\* First check of register on a lifecycle that drains: the entry is refused
\* and, not being retryable, ends the run.
Refuse(o) ==
    /\ pc[o] \in {"idle", "backoff"} /\ ~mustCancel[o]
    /\ ~accepting
    /\ \E u \in Unit :
        /\ phase[u] = "new"
        /\ phase' = [phase EXCEPT ![u] = "failed"]
        /\ owner' = [owner EXCEPT ![u] = o]
        /\ run' = [run EXCEPT ![o] = IF pc[o] = "backoff" THEN @ \cup {u} ELSE {u}]
        /\ Settle(o, u, "error")
    /\ UNCHANGED <<lifecycleVars, held, shutdownCancel, callbacks,
                   cancelling, mustCancel, dbVars>>

\* A new attempt: the first of a run, or the next one after the backoff.
Enter(o) ==
    /\ pc[o] \in {"idle", "backoff"} /\ ~mustCancel[o]
    /\ accepting
    /\ \E u \in Unit :
        /\ phase[u] = "new"
        /\ phase' = [phase EXCEPT ![u] = "starting"]
        /\ owner' = [owner EXCEPT ![u] = o]
        /\ unit' = [unit EXCEPT ![o] = u]
        /\ run' = [run EXCEPT ![o] = IF pc[o] = "backoff" THEN @ \cup {u} ELSE {u}]
    /\ waiting' = waiting \cup {o}
    /\ pc' = [pc EXCEPT ![o] = "admission"]
    /\ UNCHANGED <<accepting, slots, active, unresolved, attempts, drain, capture,
                   marked, held, shutdownCancel, failure, result, callbacks,
                   cancelling, mustCancel, dbVars>>

\* The semaphore grants a permit.  The second accepting test of register is
\* the guard: begin_shutdown cancels every waiter, so it never fails here.
Admit(o) ==
    /\ pc[o] = "admission" /\ ~mustCancel[o]
    /\ slots > 0
    /\ accepting
    /\ slots' = slots - 1
    /\ active' = active \cup {unit[o]}
    /\ waiting' = waiting \ {o}
    /\ pc' = [pc EXCEPT ![o] = "connecting"]
    /\ UNCHANGED <<accepting, unresolved, attempts, drain, capture, marked, unitVars,
                   unit, run, cancelling, mustCancel, dbVars>>

\* WriterAdmissionTimeout or a cancellation while waiting: no permit, no
\* resource, and finish finds nothing in _active.
AdmissionFails(o) ==
    /\ pc[o] = "admission"
    /\ \E f \in Raises(o) \ {"error"} : Settle(o, unit[o], f)
    /\ phase' = [phase EXCEPT ![unit[o]] = "failed"]
    /\ waiting' = waiting \ {o}
    /\ Deliver(o)
    /\ UNCHANGED <<accepting, slots, active, unresolved, attempts, drain, capture,
                   marked, owner, held, shutdownCancel, callbacks, run, cancelling,
                   dbVars>>

Connect(o) ==
    /\ pc[o] = "connecting" /\ ~mustCancel[o]
    /\ held' = [held EXCEPT ![unit[o]] = {"connection"}]
    /\ pc' = [pc EXCEPT ![o] = "beginning"]
    /\ UNCHANGED <<lifecycleVars, phase, owner, shutdownCancel, failure, result,
                   callbacks, unit, run, cancelling, mustCancel, dbVars>>

\* BEGIN IMMEDIATE takes the writer lock of the file; a snapshot's BEGIN does not.
\* The body that follows defers callbacks until the commit.
Begin(o) ==
    /\ pc[o] = "beginning" /\ ~mustCancel[o]
    /\ IF unit[o] \in ReadUnits
       THEN UNCHANGED writer
       ELSE writer = NoUnit /\ writer' = unit[o]
    /\ held' = [held EXCEPT ![unit[o]] = Resources]
    /\ phase' = [phase EXCEPT ![unit[o]] = "active"]
    /\ callbacks' = [callbacks EXCEPT ![unit[o]] = "deferred"]
    /\ pc' = [pc EXCEPT ![o] = "body"]
    /\ UNCHANGED <<lifecycleVars, owner, shutdownCancel, failure, result,
                   unit, run, cancelling, mustCancel, durable>>

\* The awaits of __aenter__ that fail on their own; mutant: BEGIN has no timeout.
OnlyConnecting == {"connecting"}
StartAwaits == {"connecting", "beginning"}

\* The rest of __aenter__ fails: the deadline passed, the path or connection is
\* refused, SQLite is busy, or the task is cancelled.  A BEGIN IMMEDIATE whose
\* await is cancelled may still be executed by the driver's thread.
StartFails(o) ==
    /\ pc[o] \in StartAwaits
    /\ \E f \in Raises(o) : failure' = [failure EXCEPT ![unit[o]] = f]
    /\ \/ UNCHANGED <<held, writer>>
       \/ /\ pc[o] = "beginning"
          /\ held' = [held EXCEPT ![unit[o]] = Resources]
          /\ \/ UNCHANGED writer
             \/ /\ mustCancel[o] /\ writer = NoUnit /\ unit[o] \notin ReadUnits
                /\ writer' = unit[o]
    /\ phase' = [phase EXCEPT ![unit[o]] = "failed"]
    /\ Deliver(o)
    /\ pc' = [pc EXCEPT ![o] = "closing"]
    /\ UNCHANGED <<lifecycleVars, owner, shutdownCancel, result, callbacks,
                   unit, run, cancelling, durable>>

-----------------------------------------------------------------------------
(* Leaving: __aexit__.                                                     *)

\* _cancellation_requested for a body that raised nothing.
CancellationRequested(o) == shutdownCancel[unit[o]] \/ cancelling[o]

\* Mutant: the callbacks run when the commit begins.
BeginCommitCallsBack(o) ==
    /\ pc[o] = "body" /\ ~mustCancel[o]
    /\ ~CancellationRequested(o)
    /\ phase' = [phase EXCEPT ![unit[o]] = "committing"]
    /\ callbacks' = [callbacks EXCEPT ![unit[o]] = "run"]
    /\ pc' = [pc EXCEPT ![o] = "committing"]
    /\ UNCHANGED <<lifecycleVars, owner, held, shutdownCancel, failure, result,
                   unit, run, cancelling, mustCancel, dbVars>>

\* The body returned, the completeness assertions hold, nobody asked to stop.
BeginCommit(o) ==
    /\ pc[o] = "body" /\ ~mustCancel[o]
    /\ ~CancellationRequested(o)
    /\ phase' = [phase EXCEPT ![unit[o]] = "committing"]
    /\ pc' = [pc EXCEPT ![o] = "committing"]
    /\ UNCHANGED <<lifecycleVars, owner, held, shutdownCancel, failure, result,
                   callbacks, unit, run, cancelling, mustCancel, dbVars>>

\* The body returned with an incomplete aggregate or a pending transport claim.
AssertionFails(o) ==
    /\ pc[o] = "body" /\ ~mustCancel[o]
    /\ ~CancellationRequested(o)
    /\ failure' = [failure EXCEPT ![unit[o]] = "error"]
    /\ phase' = [phase EXCEPT ![unit[o]] = "failed"]
    /\ pc' = [pc EXCEPT ![o] = "rescue"]
    /\ UNCHANGED <<lifecycleVars, owner, held, shutdownCancel, result, callbacks,
                   unit, run, cancelling, mustCancel, dbVars>>

\* The body raised, was cancelled, or returned although a cancellation that an
\* earlier await absorbed is still requested.
BeginRollback(o) ==
    /\ pc[o] = "body"
    /\ \/ \E f \in Raises(o) : failure' = [failure EXCEPT ![unit[o]] = f]
       \/ /\ CancellationRequested(o)
          /\ failure' = [failure EXCEPT ![unit[o]] = "cancelled"]
    /\ phase' = [phase EXCEPT ![unit[o]] = "rolling_back"]
    /\ Deliver(o)
    /\ pc' = [pc EXCEPT ![o] = "rolling"]
    /\ UNCHANGED <<lifecycleVars, owner, held, shutdownCancel, result, callbacks,
                   unit, run, cancelling, dbVars>>

\* session.commit() inside the shielded _commit.
Commit(o) ==
    /\ pc[o] = "committing"
    /\ durable' = durable \cup {unit[o]}
    /\ writer' = IF writer = unit[o] THEN NoUnit ELSE writer
    /\ pc' = [pc EXCEPT ![o] = "confirming"]
    /\ UNCHANGED <<lifecycleVars, unitVars, unit, run, cancelling, mustCancel>>

\* The identity check before the commit, or the commit itself, raises.
CommitFails(o) ==
    /\ pc[o] = "committing"
    /\ \E f \in {"busy", "error"} : failure' = [failure EXCEPT ![unit[o]] = f]
    /\ phase' = [phase EXCEPT ![unit[o]] = "failed"]
    /\ pc' = [pc EXCEPT ![o] = "rescue"]
    /\ UNCHANGED <<lifecycleVars, owner, held, shutdownCancel, result, callbacks,
                   unit, run, cancelling, mustCancel, dbVars>>

\* Mutant: the post-commit identity check reports what it finds to the caller.
ConfirmRaises(o) ==
    /\ pc[o] = "confirming"
    /\ \E f \in {"busy", "error"} : failure' = [failure EXCEPT ![unit[o]] = f]
    /\ phase' = [phase EXCEPT ![unit[o]] = "failed"]
    /\ pc' = [pc EXCEPT ![o] = "closing"]
    /\ UNCHANGED <<lifecycleVars, owner, held, shutdownCancel, result, callbacks,
                   unit, run, cancelling, mustCancel, dbVars>>

\* The post-commit identity check raises nothing whatever it finds; the
\* deferred callbacks run in the same step.
Confirm(o) ==
    /\ pc[o] = "confirming"
    /\ phase' = [phase EXCEPT ![unit[o]] = "committed"]
    /\ callbacks' = [callbacks EXCEPT ![unit[o]] = "run"]
    /\ pc' = [pc EXCEPT ![o] = "closing"]
    /\ UNCHANGED <<lifecycleVars, owner, held, shutdownCancel, failure, result,
                   unit, run, cancelling, mustCancel, dbVars>>

Rollback(o) ==
    /\ pc[o] = "rolling"
    /\ \/ /\ phase' = [phase EXCEPT ![unit[o]] = "rolled_back"]
          /\ writer' = IF writer = unit[o] THEN NoUnit ELSE writer
          /\ pc' = [pc EXCEPT ![o] = "closing"]
          /\ UNCHANGED failure
       \/ /\ phase' = [phase EXCEPT ![unit[o]] = "failed"]
          /\ failure' = [failure EXCEPT ![unit[o]] = "error"]
          /\ pc' = [pc EXCEPT ![o] = "rescue"]
          /\ UNCHANGED writer
    /\ UNCHANGED <<lifecycleVars, owner, held, shutdownCancel, result, callbacks,
                   unit, run, cancelling, mustCancel, durable>>

\* The rollback after a failed completion; its own failure is only logged.
Rescue(o) ==
    /\ pc[o] = "rescue"
    /\ \/ writer' = IF writer = unit[o] THEN NoUnit ELSE writer
       \/ UNCHANGED writer
    /\ pc' = [pc EXCEPT ![o] = "closing"]
    /\ UNCHANGED <<lifecycleVars, unitVars, unit, run, cancelling, mustCancel, durable>>

\* The shielded cleanup attempt ends, having closed a part of the resources,
\* the unit finishes and the block returns or raises.
Close(o) ==
    LET u == unit[o] IN
    /\ pc[o] = "closing"
    /\ \E rest \in LeftOpen(u) :
        /\ held' = [held EXCEPT ![u] = rest]
        /\ RecordFailure(rest)
        /\ ReleaseLock(u, rest)
        /\ Finish(u, rest)
    /\ IF failure[u] = "none"
       THEN Settle(o, u, "success") /\ UNCHANGED callbacks
       ELSE Settle(o, u, failure[u]) /\ ClearCallbacks(u)
    /\ UNCHANGED <<accepting, waiting, attempts, drain, capture, phase, owner,
                   shutdownCancel, run, cancelling, mustCancel, durable>>

-----------------------------------------------------------------------------
(* Between units.                                                          *)

\* DatabaseRetryExhausted, or the cancellation of the backoff sleep.
GiveUp(o) ==
    /\ pc[o] = "backoff"
    /\ pc' = [pc EXCEPT ![o] = "idle"]
    /\ Deliver(o)
    /\ UNCHANGED <<lifecycleVars, unitVars, unit, run, cancelling, dbVars>>

\* The handler's task ends, and its state with it.
Return(o) ==
    /\ pc[o] = "idle"
    /\ pc' = [pc EXCEPT ![o] = "done"]
    /\ run' = [run EXCEPT ![o] = {}]
    /\ cancelling' = [cancelling EXCEPT ![o] = FALSE]
    /\ Deliver(o)
    /\ UNCHANGED <<lifecycleVars, unitVars, unit, dbVars>>

\* task.cancel() on every task in os.
CancelTasks(os) ==
    /\ cancelling' = [o \in Owner |-> cancelling[o] \/ o \in os]
    /\ mustCancel' = [o \in Owner |-> mustCancel[o] \/ (o \in os /\ pc[o] \in Interruptible)]

\* Somebody other than the shutdown cancels a task.
Cancel(o) ==
    /\ o \in Cancellable
    /\ \/ pc[o] \in Interruptible /\ ~mustCancel[o]
       \/ pc[o] \in Shielded /\ ~cancelling[o]
    /\ CancelTasks({o})
    /\ UNCHANGED <<lifecycleVars, unitVars, pc, unit, run, dbVars>>

-----------------------------------------------------------------------------
(* Shutdown: begin_shutdown, drain and _retry_unresolved_cleanup.          *)

ActiveOwners == {owner[u] : u \in active}
Alive == {o \in capture : pc[o] # "done"}

\* The units begin_shutdown still cancels; a commit in progress is left alone.
ShutdownCancellable(u) == phase[u] \in {"new", "starting", "active"}

\* The units that still have something to close; mutant: only sessions count.
OpenSessions == {u \in unresolved : "session" \in held[u]}
StillOpen == {u \in unresolved : held[u] # {}}

\* The owners begin_shutdown captures; mutant: it overlooks the waiting ones.
AdmittedOnly == ActiveOwners
Captured == waiting \cup ActiveOwners

BeginShutdown ==
    /\ drain = "open"
    /\ accepting' = FALSE
    /\ capture' = Captured
    /\ CancelTasks(waiting)
    /\ drain' = "waiting"
    /\ UNCHANGED <<slots, waiting, active, unresolved, attempts, marked, unitVars,
                   pc, unit, run, dbVars>>

\* The drain timeout: owners outside a unit are cancelled, owners inside one
\* only while its commit or rollback has not begun.
DrainTimeout ==
    LET stoppable == {o \in Alive : \A u \in active :
                                        owner[u] = o => ShutdownCancellable(u)}
    IN
    /\ drain = "waiting" /\ Alive # {}
    /\ shutdownCancel' = [u \in Unit |-> \/ shutdownCancel[u]
                                         \/ u \in active /\ owner[u] \in stoppable]
    /\ CancelTasks(stoppable)
    /\ drain' = "cancelling"
    /\ UNCHANGED <<accepting, slots, waiting, active, unresolved, attempts, capture,
                   marked, phase, owner, held, failure, result, callbacks,
                   pc, unit, run, dbVars>>

\* Mutant: the second wait has no timeout.
WaitsForever ==
    /\ drain = "cancelling" /\ Alive = {}
    /\ drain' = "incomplete"
    /\ UNCHANGED <<accepting, slots, waiting, active, unresolved, attempts, capture,
                   marked, unitVars, ownerVars, dbVars>>

\* The cancellation window closes on live owners: ShutdownIncomplete.
DrainGivesUp ==
    /\ drain = "cancelling" /\ Alive # {}
    /\ drain' = "incomplete"
    /\ UNCHANGED <<accepting, slots, waiting, active, unresolved, attempts, capture,
                   marked, unitVars, ownerVars, dbVars>>

\* Every captured owner has ended: start one attempt per unit still open.
StartCleanup ==
    /\ drain \in {"waiting", "cancelling"} /\ Alive = {}
    /\ IF active # {}
       THEN drain' = "incomplete" /\ UNCHANGED <<unresolved, attempts>>
       ELSE /\ unresolved' = StillOpen
            /\ attempts' = StillOpen
            /\ drain' = IF StillOpen = {} THEN "drained" ELSE "cleanup"
    /\ UNCHANGED <<accepting, slots, waiting, active, capture, marked, unitVars,
                   ownerVars, dbVars>>

\* A cleanup attempt ends, also after the drain that started it gave up.
CleanupEnds(u) ==
    /\ u \in attempts
    /\ attempts' = attempts \ {u}
    /\ \E rest \in LeftOpen(u) :
        /\ held' = [held EXCEPT ![u] = rest]
        /\ RecordFailure(rest)
        /\ ReleaseLock(u, rest)
    /\ UNCHANGED <<accepting, slots, waiting, active, unresolved, drain, capture,
                   phase, owner, shutdownCancel, failure, result, callbacks,
                   ownerVars, durable>>

\* All attempts ended or the window closed: done only when nothing is open.
FinishCleanup ==
    /\ drain = "cleanup"
    /\ unresolved' = StillOpen
    /\ drain' = IF StillOpen = {} THEN "drained" ELSE "incomplete"
    /\ UNCHANGED <<accepting, slots, waiting, active, attempts, capture, marked,
                   unitVars, ownerVars, dbVars>>

\* DatabaseRuntime.close called again after ShutdownIncomplete: same capture.
RetryShutdown ==
    /\ drain = "incomplete"
    /\ drain' = "waiting"
    /\ UNCHANGED <<accepting, slots, waiting, active, unresolved, attempts, capture,
                   marked, unitVars, ownerVars, dbVars>>

-----------------------------------------------------------------------------

Entering(o) == Refuse(o) \/ Enter(o) \/ Admit(o) \/ AdmissionFails(o)
               \/ Connect(o) \/ Begin(o) \/ StartFails(o)
Leaving(o) == BeginCommit(o) \/ AssertionFails(o) \/ BeginRollback(o) \/ Commit(o)
              \/ CommitFails(o) \/ Confirm(o) \/ Rollback(o) \/ Rescue(o) \/ Close(o)
DrainStep == DrainTimeout \/ DrainGivesUp \/ StartCleanup \/ FinishCleanup

Next ==
    \/ \E o \in Owner : Entering(o) \/ Leaving(o) \/ GiveUp(o) \/ Return(o) \/ Cancel(o)
    \/ BeginShutdown
    \/ DrainStep
    \/ \E u \in Unit : CleanupEnds(u)
    \/ RetryShutdown

Spec == Init /\ [][Next]_vars

\* An owner inside a unit keeps running: admission, checkout and the SQLite
\* busy wait are bounded by the attempt's deadline, the rest is local I/O.
InUnit(o) == pc[o] \notin {"idle", "backoff", "done"} /\ (Entering(o) \/ Leaving(o))

\* Sleeps and handlers end; entering another unit, cancelling a task and
\* shutting down are the environment's choice.  A task in Hanging may stop for
\* good at any await; the timers of the drain are trusted.
FairSpec ==
    /\ Spec
    /\ WF_vars(DrainStep)
    /\ \A o \in Owner \ Hanging :
        WF_vars(InUnit(o)) /\ WF_vars(GiveUp(o)) /\ WF_vars(Return(o))

-----------------------------------------------------------------------------
(* Properties.                                                             *)

\* What DatabaseRuntime sees of the lifecycle: the units that may touch the
\* database, and how far the shutdown is.
Open == active \cup {u \in Unit : held[u] # {}}
Stage == IF accepting THEN "serving" ELSE IF drain = "drained" THEN "drained" ELSE "closing"
L == INSTANCE Lifecycle WITH open <- Open, stage <- Stage

\* Units start only before the shutdown, in whatever state its drain, its
\* retries and the cleanup attempts are, and a drain reports success over
\* closed resources only: all that DatabaseRuntime.close relies on.
ImplementsLifecycle == L!Spec

\* Every variable stays in its range.
TypeOK ==
    /\ accepting \in BOOLEAN /\ marked \in BOOLEAN
    /\ slots \in 0..WriterSlots
    /\ waiting \in SUBSET Owner /\ capture \in SUBSET Owner
    /\ active \in SUBSET Unit /\ unresolved \in SUBSET Unit /\ attempts \in SUBSET Unit
    /\ drain \in DrainStates
    /\ phase \in [Unit -> Phases]
    /\ owner \in [Unit -> Owner \cup {NoOwner}]
    /\ held \in [Unit -> SUBSET Resources]
    /\ shutdownCancel \in [Unit -> BOOLEAN]
    /\ failure \in [Unit -> Failures]
    /\ result \in [Unit -> Results]
    /\ callbacks \in [Unit -> CallbackStates]
    /\ pc \in [Owner -> OwnerStates]
    /\ unit \in [Owner -> Unit \cup {NoUnit}]
    /\ run \in [Owner -> SUBSET Unit]
    /\ cancelling \in [Owner -> BOOLEAN] /\ mustCancel \in [Owner -> BOOLEAN]
    /\ writer \in Unit \cup {NoUnit}
    /\ durable \in SUBSET Unit

\* No path through admission, failure, cancellation or cleanup loses or
\* duplicates a permit of the writer semaphore.
SlotsAccounted == slots + Cardinality(active) = WriterSlots

\* A connection or session that is still open, and the SQLite lock it may hold,
\* belongs to a unit the shutdown knows: admitted, or left for a cleanup retry.
ResourcesTracked ==
    \A u \in Unit : held[u] # {} \/ writer = u => u \in active \cup unresolved

\* What the block tells its caller is the truth about the database: success
\* exactly when the commit is durable, whatever was cancelled or failed later.
TruthfulResult ==
    \A u \in Unit : result[u] # "pending" => (result[u] = "success" <=> u \in durable)

\* Post-commit callbacks run only after a durable commit, and a durable commit
\* is not reported before they ran.
CallbacksFollowCommit ==
    \A u \in Unit :
        /\ callbacks[u] = "run" => u \in durable
        /\ u \in durable /\ result[u] # "pending" => callbacks[u] = "run"

\* The retry loop never applies a request twice: at most one attempt of a run
\* becomes durable.
AtMostOneCommitPerRun ==
    \A o \in Owner : \A u, v \in run[o] \cap durable : u = v

\* A transaction the shutdown asked to stop is never committed.
StoppedNeverCommits == \A u \in Unit : shutdownCancel[u] => u \notin durable

\* Once the lifecycle drains, every task that waits for or owns a transaction
\* is one the drain waits for.
CaptureComplete == ~accepting => waiting \cup ActiveOwners \subseteq capture

\* A leaked resource is never silent: the runtime was marked unsafe.
LeakMarksUnsafe == unresolved # {} => marked

\* When drain returns, nothing is admitted, waiting, open or locked, so the
\* engine may be disposed and the process lock released.
DrainedIsQuiescent ==
    drain = "drained" =>
        /\ active = {} /\ waiting = {} /\ attempts = {} /\ writer = NoUnit
        /\ \A u \in Unit : held[u] = {}

\* After a complete drain no step opens, locks or commits anything again.
DrainedIsFinal == [][drain = "drained" => UNCHANGED <<lifecycleVars, held, dbVars>>]_vars

\* Every attempt of a task that runs ends, also while another one hangs with the
\* permit and the SQLite lock: the waiter fails by its deadline.
RunsSettle == \A o \in Owner \ Hanging : unit[o] # NoUnit ~> unit[o] = NoUnit

\* A shutdown leaves no transaction behind, and none starts again, unless one
\* hangs.
ShutdownQuiesces ==
    ~accepting /\ (\A o \in Hanging : unit[o] = NoUnit) ~> [](active = {} /\ waiting = {})

\* A shutdown attempt reaches its verdict even when transactions hang.
DrainDecides ==
    drain \in {"waiting", "cancelling", "cleanup"} ~> drain \in {"drained", "incomplete"}
=============================================================================
