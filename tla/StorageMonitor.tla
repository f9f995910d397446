--------------------------- MODULE StorageMonitor ---------------------------
(***************************************************************************)
(* Runtime storage safety: the DatabaseStorageMonitor samples the database *)
(* file every minute, the DatabaseIdentityGuard of each transaction checks *)
(* it at admission, before and after the commit, and both write the one    *)
(* safe flag that mutation eligibility reads.  Changes of the flag are     *)
(* queued and reported as telemetry events.                                *)
(***************************************************************************)
EXTENDS Integers, Sequences

CONSTANTS
    Txn,         \* transactions, each run once
    MaxChanges   \* bound: how often the storage changes under the runtime

ASSUME ChangesAssumption == MaxChanges \in Nat

VARIABLES
    storage,      \* what a look at the file system finds
    changes,      \* how often it changed
    telemetryUp,  \* emitting an event succeeds
    safe,         \* _safe
    pending,      \* _pending_safety_transitions
    emitted,      \* the mutations_state events telemetry received
    sampler,      \* where the monitor's task stands
    stop,         \* _stop
    stale,        \* a failure was reported since the running sample validated
    txn           \* where each transaction stands

envVars  == <<storage, changes, telemetryUp>>
safeVars == <<safe, pending, emitted>>
vars     == <<envVars, safeVars, sampler, stop, stale, txn>>

\* "degraded": the sample's checks fail (free space, volume, permissions) while
\* the identity is intact.  "swapped": the path names another file.
StorageStates == {"sound", "degraded", "swapped"}
SamplerStates == {"waiting", "connecting", "checkpointing", "stopped"}
TxnStates == {"idle", "open", "eligible", "committing", "confirming", "closing",
              "ended"}

Init ==
    /\ storage = "sound" /\ changes = 0 /\ telemetryUp = TRUE
    /\ safe = TRUE /\ pending = <<>> /\ emitted = <<>>
    /\ sampler = "waiting" /\ stop = FALSE /\ stale = FALSE
    /\ txn = [t \in Txn |-> "idle"]

-----------------------------------------------------------------------------
(* The flag and its events.                                                *)

\* _drain_safety_transitions: events leave the queue in order until one fails.
Drain(queue) ==
    \E n \in 0..Len(queue) :
        /\ telemetryUp => n = Len(queue)
        /\ emitted' = emitted \o SubSeq(queue, 1, n)
        /\ pending' = SubSeq(queue, n + 1, Len(queue))

\* Mutants: a recovery replaces what is still queued; a failure latches.
SetSafeOverwrites(ok) ==
    /\ safe' = ok
    /\ Drain(IF ok = safe THEN pending ELSE <<ok>>)
SetSafeLatches(ok) ==
    /\ safe' = (safe /\ ok)
    /\ Drain(IF ok \/ ~safe THEN pending ELSE Append(pending, FALSE))

\* _set_safe queues an event when the flag changes, and the caller drains.
SetSafe(ok) ==
    /\ safe' = ok
    /\ Drain(IF ok = safe THEN pending ELSE Append(pending, ok))

\* DatabaseIdentityGuard.mark_unsafe, called by a transaction.
MarkUnsafe ==
    /\ SetSafe(FALSE)
    /\ stale' = (stale \/ sampler \in {"connecting", "checkpointing"})

-----------------------------------------------------------------------------
(* The monitor's task.                                                     *)

\* Mutant: a failed check is only logged.
SampleStartLogs ==
    /\ sampler = "waiting" /\ ~stop
    /\ stale' = FALSE
    /\ sampler' = IF storage = "sound" THEN "connecting" ELSE sampler
    /\ UNCHANGED <<envVars, safeVars, stop, txn>>

\* The interval elapsed: the synchronous part of sample, up to its first await.
SampleStart ==
    /\ sampler = "waiting" /\ ~stop
    /\ stale' = FALSE
    /\ IF storage = "sound"
       THEN sampler' = "connecting" /\ UNCHANGED safeVars
       ELSE SetSafe(FALSE) /\ UNCHANGED sampler
    /\ UNCHANGED <<envVars, stop, txn>>

\* The pool's checkout hook checks the identity again; the sample fails with it.
SampleConnect ==
    /\ sampler = "connecting"
    /\ IF storage = "swapped"
       THEN SetSafe(FALSE) /\ sampler' = "waiting"
       ELSE sampler' = "checkpointing" /\ UNCHANGED safeVars
    /\ UNCHANGED <<envVars, stop, stale, txn>>

\* The checkpoint answered or raised; nothing is validated again.  That a sample
\* of sound storage answers is an assumption on the environment: in the code its
\* statements may fail for other reasons (a busy or an exhausted pool), and then
\* the flag is unsafe until the next sample.
SampleEnds ==
    /\ sampler = "checkpointing"
    /\ \E ok \in (IF storage = "sound" THEN {TRUE} ELSE BOOLEAN) : SetSafe(ok)
    /\ sampler' = "waiting"
    /\ UNCHANGED <<envVars, stop, stale, txn>>

\* _run sees the stop event only between samples.
SamplerStops ==
    /\ sampler = "waiting" /\ stop
    /\ sampler' = "stopped"
    /\ UNCHANGED <<envVars, safeVars, stop, stale, txn>>

Stop ==
    /\ ~stop
    /\ stop' = TRUE
    /\ UNCHANGED <<envVars, safeVars, sampler, stale, txn>>

-----------------------------------------------------------------------------
(* One mutating transaction, seen by the guard.                            *)

\* verify_path or verify_connection_path: a replaced file is reported at once.
Verify(t, passed) ==
    IF storage = "swapped"
    THEN MarkUnsafe /\ txn' = [txn EXCEPT ![t] = "closing"]
    ELSE txn' = [txn EXCEPT ![t] = passed] /\ UNCHANGED <<safeVars, stale>>

Admit(t) ==
    /\ txn[t] = "idle"
    /\ Verify(t, "open")
    /\ UNCHANGED <<envVars, sampler, stop>>

\* GlobalMutationEligibility.evaluate inside the body.
Evaluate(t) ==
    /\ txn[t] = "open"
    /\ txn' = [txn EXCEPT ![t] = IF safe THEN "eligible" ELSE "closing"]
    /\ UNCHANGED <<envVars, safeVars, sampler, stop, stale>>

PreCommit(t) ==
    /\ txn[t] = "eligible"
    /\ Verify(t, "committing")
    /\ UNCHANGED <<envVars, sampler, stop>>

Commit(t) ==
    /\ txn[t] = "committing"
    /\ txn' = [txn EXCEPT ![t] = "confirming"]
    /\ UNCHANGED <<envVars, safeVars, sampler, stop, stale>>

\* The post-commit confirmation: a mismatch, or any failure to confirm.
Confirm(t) ==
    /\ txn[t] = "confirming"
    /\ txn' = [txn EXCEPT ![t] = "closing"]
    /\ \/ MarkUnsafe
       \/ storage # "swapped" /\ UNCHANGED <<safeVars, stale>>
    /\ UNCHANGED <<envVars, sampler, stop>>

\* The unit closes its session and connection, which may fail.
Close(t) ==
    /\ txn[t] = "closing"
    /\ txn' = [txn EXCEPT ![t] = "ended"]
    /\ MarkUnsafe \/ UNCHANGED <<safeVars, stale>>
    /\ UNCHANGED <<envVars, sampler, stop>>

-----------------------------------------------------------------------------
(* The environment.                                                        *)

StorageChanges ==
    /\ changes < MaxChanges
    /\ changes' = changes + 1
    /\ storage' \in StorageStates \ {storage}
    /\ UNCHANGED <<telemetryUp, safeVars, sampler, stop, stale, txn>>

TelemetryChanges ==
    /\ telemetryUp' = ~telemetryUp
    /\ UNCHANGED <<storage, changes, safeVars, sampler, stop, stale, txn>>

Sampling == SampleStart \/ SampleConnect \/ SampleEnds \/ SamplerStops

Next ==
    \/ Sampling
    \/ Stop
    \/ \E t \in Txn : \/ Admit(t) \/ Evaluate(t) \/ PreCommit(t) \/ Commit(t)
                      \/ Confirm(t) \/ Close(t)
    \/ StorageChanges
    \/ TelemetryChanges

Spec == Init /\ [][Next]_vars

\* The event loop runs the monitor's task: its timer fires, its awaits return.
FairSpec == Spec /\ WF_vars(Sampling)

-----------------------------------------------------------------------------
(* Properties.                                                             *)

\* Every variable stays in its range.
TypeOK ==
    /\ storage \in StorageStates /\ changes \in 0..MaxChanges
    /\ telemetryUp \in BOOLEAN /\ safe \in BOOLEAN
    /\ pending \in Seq(BOOLEAN) /\ emitted \in Seq(BOOLEAN)
    /\ sampler \in SamplerStates /\ stop \in BOOLEAN /\ stale \in BOOLEAN
    /\ txn \in [Txn -> TxnStates]

\* What telemetry received and what still waits is together the history of the
\* flag: unsafe and safe alternate, in order, and the last event is the present
\* value.  A failing telemetry sink delays events and never drops, repeats or
\* overwrites one.
ReportsInOrder ==
    LET history == emitted \o pending IN
    /\ \A i \in 1..Len(history) : history[i] = (i % 2 = 0)
    /\ safe = (Len(history) % 2 = 0)

\* The monitor does not latch: once the storage is sound for good and the
\* transactions are over, the flag ends safe (while the monitor runs, and as far
\* as samples of sound storage succeed: see SampleEnds).
Recovers ==
    <>[](storage = "sound" /\ ~stop /\ \A t \in Txn : txn[t] = "ended") => <>[]safe

\* A storage that stays unsound is noticed without any transaction, also when a
\* sample that validated before the change ends after it.
NoticesLoss == <>[](storage # "sound" /\ ~stop) => <>[]~safe

\* The documented rule (docs/database.md): after a failure the runtime stays
\* unsafe until a LATER healthy sample, one whose checks ran after the failure.
SafeOnlyAfterLaterSample == [][~safe /\ safe' => ~stale]_vars
=============================================================================
