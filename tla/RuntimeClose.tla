--------------------------- MODULE RuntimeClose ---------------------------
(***************************************************************************)
(* The database runtime of a process, from taking the process lock to its  *)
(* release: create_database_runtime, DatabaseRuntime.close with its        *)
(* retries, the sampler it stops and the death of the process.  What       *)
(* transactions do is what module Lifecycle allows.  A process element is  *)
(* one incarnation: a restart is another element.                          *)
(***************************************************************************)
EXTENDS Integers, FiniteSets

CONSTANTS
    Process,      \* incarnations of the bot on one machine
    Transaction,  \* units of work of a process
    Caller,       \* tasks that call close
    MaxAttempts,  \* bound: close attempts of a process
    Closing,      \* bound: incarnations that are asked to close
    NoProcess

ASSUME ProcessAssumption == NoProcess \notin Process
ASSUME AttemptAssumption == MaxAttempts \in Nat \ {0}

VARIABLES
    lock,          \* the process that owns the socket or the file lock
    life,          \* where the process stands
    engine,        \* its engine
    open, stage,   \* its transaction lifecycle
    sampler,       \* the task of its storage monitor
    stopping,      \* the monitor's _stop event
    monitorClose,  \* _monitor_close_task
    current,       \* number of the attempt that _close_task runs, 0 for none
    attempt,       \* where that attempt stands
    verdict,       \* what its two waits have returned
    result,        \* how attempts ended
    waitsFor,      \* per caller, the attempt it is shielding; 0 for none
    cancelled,     \* callers that were cancelled while waiting
    told           \* what close gave its callers

runtimeVars == <<engine, open, stage, sampler, stopping>>
closeVars == <<monitorClose, current, attempt, verdict, result>>
callerVars == <<waitsFor, cancelled, told>>
vars == <<lock, life, runtimeVars, closeVars, callerVars>>

Lives == {"new", "starting", "undoing", "stuck", "running", "exited"}
Parts == {"monitor", "drain"}
Pending == [part \in Parts |-> "pending"]

Init ==
    /\ lock = NoProcess /\ life = [p \in Process |-> "new"]
    /\ engine = [p \in Process |-> "none"]
    /\ open = [p \in Process |-> {}] /\ stage = [p \in Process |-> "serving"]
    /\ sampler = [p \in Process |-> "off"] /\ stopping = [p \in Process |-> FALSE]
    /\ monitorClose = [p \in Process |-> "none"]
    /\ current = [p \in Process |-> 0] /\ attempt = [p \in Process |-> "none"]
    /\ verdict = [p \in Process |-> Pending]
    /\ result = [p \in Process |-> [n \in 1..MaxAttempts |-> "pending"]]
    /\ waitsFor = [p \in Process |-> [c \in Caller |-> 0]]
    /\ cancelled = [p \in Process |-> {}]
    /\ told = [p \in Process |-> [c \in Caller |-> "nothing"]]

\* release frees what the process itself holds, and nothing when called again;
\* mutant: it unlinks whatever is there.
UnlinkLock(p) == lock' = NoProcess
ReleaseLock(p) == lock' = IF lock = p THEN NoProcess ELSE lock

-----------------------------------------------------------------------------
(* create_database_runtime.                                                *)

Acquire(p) ==
    /\ life[p] = "new"
    /\ IF lock = NoProcess
       THEN lock' = p /\ life' = [life EXCEPT ![p] = "starting"]
       ELSE life' = [life EXCEPT ![p] = "exited"] /\ UNCHANGED lock
    /\ UNCHANGED <<runtimeVars, closeVars, callerVars>>

\* The second validation of the file precedes the engine.
CreateEngine(p) ==
    /\ life[p] = "starting" /\ engine[p] = "none"
    /\ \/ engine' = [engine EXCEPT ![p] = "open"] /\ UNCHANGED <<lock, life>>
       \/ /\ life' = [life EXCEPT ![p] = "exited"]
          /\ ReleaseLock(p) /\ UNCHANGED engine
    /\ UNCHANGED <<open, stage, sampler, stopping, closeVars, callerVars>>

\* Schema readiness and the first sample pass, and the sampler starts; or not.
CheckReadiness(p) ==
    /\ life[p] = "starting" /\ engine[p] = "open"
    /\ \/ /\ life' = [life EXCEPT ![p] = "running"]
          /\ sampler' = [sampler EXCEPT ![p] = "waiting"]
       \/ life' = [life EXCEPT ![p] = "undoing"] /\ UNCHANGED sampler
    /\ UNCHANGED <<lock, engine, open, stage, stopping, closeVars, callerVars>>

\* A startup that failed disposes of its engine and releases the lock, unless
\* the disposal raises: then it keeps both until the process ends.
UndoStartup(p) ==
    /\ life[p] = "undoing"
    /\ \/ /\ engine' = [engine EXCEPT ![p] = "disposed"]
          /\ ReleaseLock(p) /\ life' = [life EXCEPT ![p] = "exited"]
       \/ life' = [life EXCEPT ![p] = "stuck"] /\ UNCHANGED <<lock, engine>>
    /\ UNCHANGED <<open, stage, sampler, stopping, closeVars, callerVars>>

-----------------------------------------------------------------------------
(* The running process.                                                    *)

\* Transactions start and end, as Lifecycle allows; one may hang for good.
Work(p) ==
    /\ life[p] = "running"
    /\ \E t \in Transaction :
        \/ t \in open[p] /\ open' = [open EXCEPT ![p] = @ \ {t}]
        \/ /\ stage[p] = "serving" /\ t \notin open[p]
           /\ open' = [open EXCEPT ![p] = @ \cup {t}]
    /\ UNCHANGED <<lock, life, engine, stage, sampler, stopping, closeVars, callerVars>>

\* The interval passes and a sample begins.
SampleStarts(p) ==
    /\ life[p] = "running" /\ sampler[p] = "waiting" /\ ~stopping[p]
    /\ sampler' = [sampler EXCEPT ![p] = "sampling"]
    /\ UNCHANGED <<lock, life, engine, open, stage, stopping, closeVars, callerVars>>

\* A sample ends, or the wait does because of the stop event.
SamplerEnds(p) ==
    /\ life[p] = "running"
    /\ \/ sampler[p] = "sampling"
       \/ sampler[p] = "waiting" /\ stopping[p]
    /\ sampler' = [sampler EXCEPT ![p] = IF stopping[p] THEN "off" ELSE "waiting"]
    /\ UNCHANGED <<lock, life, engine, open, stage, stopping, closeVars, callerVars>>

\* The process ends or is killed, at any instant: what it holds goes with it.
Die(p) ==
    /\ life[p] \notin {"new", "exited"}
    /\ life' = [life EXCEPT ![p] = "exited"]
    /\ lock' = IF lock = p THEN NoProcess ELSE lock
    /\ engine' = [engine EXCEPT ![p] = "none"]
    /\ open' = [open EXCEPT ![p] = {}] /\ stage' = [stage EXCEPT ![p] = "serving"]
    /\ sampler' = [sampler EXCEPT ![p] = "off"]
    /\ stopping' = [stopping EXCEPT ![p] = FALSE]
    /\ monitorClose' = [monitorClose EXCEPT ![p] = "none"]
    /\ current' = [current EXCEPT ![p] = 0] /\ attempt' = [attempt EXCEPT ![p] = "none"]
    /\ verdict' = [verdict EXCEPT ![p] = Pending]
    /\ result' = [result EXCEPT ![p] = [n \in 1..MaxAttempts |-> "pending"]]
    /\ waitsFor' = [waitsFor EXCEPT ![p] = [c \in Caller |-> 0]]
    /\ cancelled' = [cancelled EXCEPT ![p] = {}]
    /\ told' = [told EXCEPT ![p] = [c \in Caller |-> "nothing"]]

-----------------------------------------------------------------------------
(* close.                                                                  *)

\* A new attempt is due: none yet, or the last one was incomplete.
Due(p) == attempt[p] \in {"none", "failed"} /\ current[p] < MaxAttempts

\* close: begin the shutdown, retry an incomplete one, or join what is going on.
CallClose(p, c) ==
    /\ p \in Closing
    /\ life[p] = "running" /\ waitsFor[p][c] = 0
    /\ \/ /\ Due(p)
          /\ stage' = [stage EXCEPT ![p] = IF @ = "serving" THEN "closing" ELSE @]
          /\ current' = [current EXCEPT ![p] = @ + 1]
          /\ attempt' = [attempt EXCEPT ![p] = "created"]
       \/ /\ attempt[p] \notin {"none", "failed"}
          /\ UNCHANGED <<stage, current, attempt>>
    /\ waitsFor' = [waitsFor EXCEPT ![p][c] = current'[p]]
    /\ cancelled' = [cancelled EXCEPT ![p] = @ \ {c}]
    /\ told' = [told EXCEPT ![p][c] = "nothing"]
    /\ UNCHANGED <<lock, life, engine, open, sampler, stopping, monitorClose, verdict,
                   result>>

\* A cancelled caller keeps waiting, for what _close_task then is.
CancelCaller(p, c) ==
    /\ life[p] = "running" /\ waitsFor[p][c] # 0 /\ c \notin cancelled[p]
    /\ cancelled' = [cancelled EXCEPT ![p] = @ \cup {c}]
    /\ waitsFor' = [waitsFor EXCEPT ![p][c] = current[p]]
    /\ UNCHANGED <<lock, life, runtimeVars, closeVars, told>>

\* Mutant: the shield is missing, a cancelled caller returns at once.
ReturnsAtOnce(p, c) ==
    /\ life[p] = "running" /\ waitsFor[p][c] # 0
    /\ result[p][waitsFor[p][c]] # "pending" \/ c \in cancelled[p]
    /\ told' = [told EXCEPT ![p][c] =
                    IF c \in cancelled[p] THEN "cancelled" ELSE result[p][waitsFor[p][c]]]
    /\ waitsFor' = [waitsFor EXCEPT ![p][c] = 0]
    /\ UNCHANGED <<lock, life, runtimeVars, closeVars, cancelled>>
\* The caller learns how the attempt ended: a failure is raised even when it
\* was cancelled, its cancellation only after success.
Return(p, c) ==
    /\ life[p] = "running" /\ waitsFor[p][c] # 0
    /\ result[p][waitsFor[p][c]] # "pending"
    /\ told' = [told EXCEPT ![p][c] =
                    IF result[p][waitsFor[p][c]] = "closed" /\ c \in cancelled[p]
                    THEN "cancelled" ELSE result[p][waitsFor[p][c]]]
    /\ waitsFor' = [waitsFor EXCEPT ![p][c] = 0]
    /\ UNCHANGED <<lock, life, runtimeVars, closeVars, cancelled>>

\* _close begins: a close of the monitor that still runs is reused.
StartAttempt(p) ==
    /\ life[p] = "running" /\ attempt[p] = "created"
    /\ attempt' = [attempt EXCEPT ![p] = "gathering"]
    /\ monitorClose' = [monitorClose EXCEPT ![p] = IF @ = "none" THEN "pending" ELSE @]
    /\ stopping' = [stopping EXCEPT ![p] = TRUE]
    /\ UNCHANGED <<lock, life, engine, open, stage, sampler, current, verdict, result,
                   callerVars>>

\* The monitor's close ends with the sampler's task, also after its time limit.
MonitorCloses(p) ==
    /\ life[p] = "running" /\ monitorClose[p] = "pending" /\ sampler[p] = "off"
    /\ monitorClose' = [monitorClose EXCEPT ![p] = "done"]
    /\ UNCHANGED <<lock, life, runtimeVars, current, attempt, verdict, result, callerVars>>

Decide(p, part, outcome) ==
    /\ life[p] = "running" /\ attempt[p] = "gathering" /\ verdict[p][part] = "pending"
    /\ verdict' = [verdict EXCEPT ![p][part] = outcome]

\* Mutant: the wait for the monitor has no time limit.
AwaitMonitor(p) ==
    /\ monitorClose[p] = "done" /\ Decide(p, "monitor", "ok")
    /\ UNCHANGED <<lock, life, runtimeVars, monitorClose, current, attempt, result, callerVars>>
\* _bounded_monitor_close.
MonitorDecides(p) ==
    /\ \/ monitorClose[p] = "done" /\ Decide(p, "monitor", "ok")
       \/ monitorClose[p] # "done" /\ Decide(p, "monitor", "failed")
    /\ UNCHANGED <<lock, life, runtimeVars, monitorClose, current, attempt, result, callerVars>>

\* drain: quiescent, or ShutdownIncomplete within its bounds.
DrainDecides(p) ==
    /\ \/ open[p] = {} /\ Decide(p, "drain", "ok") /\ stage' = [stage EXCEPT ![p] = "drained"]
       \/ stage[p] # "drained" /\ Decide(p, "drain", "failed") /\ UNCHANGED stage
    /\ UNCHANGED <<lock, life, engine, open, sampler, stopping, monitorClose, current,
                   attempt, result, callerVars>>

\* Mutant: only the drain has to succeed.
Drained(p) == verdict[p]["drain"] = "ok"
Succeeded(p) == \A part \in Parts : verdict[p][part] = "ok"

\* gather returned: any failure leaves engine and ownership alone.
GatherEnds(p) ==
    /\ life[p] = "running" /\ attempt[p] = "gathering"
    /\ \A part \in Parts : verdict[p][part] # "pending"
    /\ IF Succeeded(p)
       THEN attempt' = [attempt EXCEPT ![p] = "disposing"] /\ UNCHANGED result
       ELSE /\ attempt' = [attempt EXCEPT ![p] = "failed"]
            /\ result' = [result EXCEPT ![p][current[p]] = "failed"]
    /\ verdict' = [verdict EXCEPT ![p] = Pending]
    /\ UNCHANGED <<lock, life, runtimeVars, monitorClose, current, callerVars>>

\* The engine is disposed of and the lock released without an await between
\* them; a release that raises has freed the lock all the same.
Dispose(p) ==
    /\ life[p] = "running" /\ attempt[p] = "disposing"
    /\ \/ /\ engine' = [engine EXCEPT ![p] = "disposed"] /\ ReleaseLock(p)
          /\ \E outcome \in {"closed", "failed"} :
                /\ attempt' = [attempt EXCEPT ![p] = outcome]
                /\ result' = [result EXCEPT ![p][current[p]] = outcome]
       \/ /\ attempt' = [attempt EXCEPT ![p] = "failed"]
          /\ result' = [result EXCEPT ![p][current[p]] = "failed"]
          /\ UNCHANGED <<lock, engine>>
    /\ UNCHANGED <<life, open, stage, sampler, stopping, monitorClose, current, verdict,
                   callerVars>>

-----------------------------------------------------------------------------

Startup(p) == Acquire(p) \/ CreateEngine(p) \/ CheckReadiness(p) \/ UndoStartup(p)
Attempt(p) == StartAttempt(p) \/ MonitorDecides(p) \/ DrainDecides(p) \/ GatherEnds(p) \/ Dispose(p)

Next ==
    \E p \in Process :
        \/ Startup(p) \/ Work(p) \/ SampleStarts(p) \/ SamplerEnds(p) \/ MonitorCloses(p)
        \/ Attempt(p) \/ Die(p)
        \/ \E c \in Caller : CallClose(p, c) \/ CancelCaller(p, c) \/ Return(p, c)

Spec == Init /\ [][Next]_vars

\* The event loop runs the attempt, whose waits have time limits, and its
\* callers.  Transactions and samples may hang.
FairSpec ==
    /\ Spec
    /\ \A p \in Process : WF_vars(Attempt(p)) /\ \A c \in Caller : WF_vars(Return(p, c))

-----------------------------------------------------------------------------
(* Properties.                                                             *)

\* Every variable stays in its range.
TypeOK ==
    /\ lock \in Process \cup {NoProcess} /\ life \in [Process -> Lives]
    /\ engine \in [Process -> {"none", "open", "disposed"}]
    /\ open \in [Process -> SUBSET Transaction]
    /\ stage \in [Process -> {"serving", "closing", "drained"}]
    /\ sampler \in [Process -> {"off", "waiting", "sampling"}]
    /\ stopping \in [Process -> BOOLEAN]
    /\ monitorClose \in [Process -> {"none", "pending", "done"}]
    /\ current \in [Process -> 0..MaxAttempts]
    /\ attempt \in [Process -> {"none", "created", "gathering", "disposing", "failed", "closed"}]
    /\ verdict \in [Process -> [Parts -> {"pending", "ok", "failed"}]]
    /\ result \in [Process -> [1..MaxAttempts -> {"pending", "failed", "closed"}]]
    /\ waitsFor \in [Process -> [Caller -> 0..MaxAttempts]]
    /\ cancelled \in [Process -> SUBSET Caller]
    /\ told \in [Process -> [Caller -> {"nothing", "closed", "cancelled", "failed"}]]

InUse(p) == engine[p] = "open" \/ open[p] # {} \/ sampler[p] = "sampling"

\* Only the owner of the process lock uses the database, through failed
\* startups, failed and retried closes, and deaths: two processes never do.
OwnerOnly == \A p \in Process : InUse(p) => lock = p

\* Who hears that the runtime is closed, or that his cancellation took effect,
\* may start another process: all parts have ended and the lock is free of it.
CloseTruthful ==
    \A p \in Process, c \in Caller :
        told[p][c] \in {"closed", "cancelled"} =>
            ~InUse(p) /\ stage[p] = "drained" /\ monitorClose[p] = "done" /\ lock # p

\* A disposal never meets a sample or a transaction.
DisposesQuiescent ==
    [][\A p \in Process : engine[p] = "open" /\ engine'[p] = "disposed" =>
        open[p] = {} /\ sampler[p] # "sampling"]_vars

\* close returns within its bounds although transactions and samples hang.
CloseReturns ==
    \A p \in Process, c \in Caller :
        waitsFor[p][c] # 0 ~> waitsFor[p][c] = 0 \/ life[p] = "exited"
=============================================================================
