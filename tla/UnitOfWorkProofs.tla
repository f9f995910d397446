-------------------------- MODULE UnitOfWorkProofs --------------------------
(***************************************************************************)
(* The safety of the transaction lifecycle, for any number of tasks, units *)
(* and permits.  IInv is the inductive invariant; every safety invariant   *)
(* that the runs of MCUnitOfWork check follows from it.                    *)
(***************************************************************************)
EXTENDS UnitOfWork, FiniteSetTheorems, TLAPS

\* Where a task stands and the unit it is inside determine each other, a
\* cancellation is due only at an await it can interrupt.
OwnersCoupled ==
    \A o \in Owner :
        /\ unit[o] # NoUnit <=> pc[o] \in Admitted \cup {"admission"}
        /\ unit[o] # NoUnit => owner[unit[o]] = o
        /\ o \in waiting <=> pc[o] = "admission"
        /\ mustCancel[o] => pc[o] \in Interruptible

\* The admitted units are those whose owner is inside them.
ActiveCoupled ==
    \A u \in Unit :
        u \in active <=> /\ owner[u] \in Owner
                         /\ unit[owner[u]] = u
                         /\ pc[owner[u]] \in Admitted

\* A unit nobody entered has left no trace.
FreshUnits ==
    \A u \in Unit : phase[u] = "new" =>
        /\ owner[u] = NoOwner /\ held[u] = {} /\ result[u] = "pending"
        /\ failure[u] = "none" /\ ~shutdownCancel[u]
        /\ u \notin unresolved \cup durable

\* The unit a task is inside: its failure is recorded as soon as the attempt is
\* lost, and it is durable exactly between its commit and its successful end.
Underway ==
    \A o \in Owner : unit[o] # NoUnit =>
        LET u == unit[o] IN
        /\ phase[u] # "new" /\ result[u] = "pending" /\ u \notin unresolved
        /\ pc[o] \in Interruptible \cup {"committing", "confirming"} => failure[u] = "none"
        /\ pc[o] \in {"rolling", "rescue"} => failure[u] # "none"
        /\ pc[o] \in {"committing", "confirming"} => phase[u] = "committing"
        /\ u \in durable <=> \/ pc[o] = "confirming"
                             \/ pc[o] = "closing" /\ failure[u] = "none"
        /\ pc[o] = "closing" /\ failure[u] = "none" => callbacks[u] = "run"

\* A run holds only units of its task, and while it goes on, no earlier attempt
\* of it is durable.
RunsCoupled ==
    \A o \in Owner :
        /\ \A u \in run[o] : owner[u] = o
        /\ pc[o] = "backoff" => run[o] \cap durable = {}
        /\ unit[o] # NoUnit => run[o] \cap durable \subseteq {unit[o]}

\* A durable unit is past the point where it could be stopped.
CommitsDecided ==
    \A u \in Unit :
        /\ u \in durable => phase[u] \in {"committing", "committed"}
        /\ shutdownCancel[u] => phase[u] \notin {"committing", "committed"}

\* The writer lock has a resource behind it, a cleanup attempt works on a unit
\* that the shutdown still knows.
CleanupCoupled ==
    /\ \A u \in Unit : writer = u => held[u] # {}
    /\ \A u \in attempts : u \in unresolved /\ held[u] # {}

\* What the shutdown task has established at each of its awaits.
DrainCoupled ==
    /\ accepting <=> drain = "open"
    /\ drain \in {"cleanup", "drained"} => active = {} /\ waiting = {}
    /\ drain = "drained" => unresolved = {}

\* The parts of the invariant: the coupling of tasks and units, what callers are
\* told, and what the shutdown has custody of.
Coupling == OwnersCoupled /\ ActiveCoupled /\ FreshUnits
Verdicts == /\ Underway /\ TruthfulResult /\ CallbacksFollowCommit
            /\ RunsCoupled /\ AtMostOneCommitPerRun /\ CommitsDecided
Custody  == /\ CleanupCoupled /\ ResourcesTracked /\ LeakMarksUnsafe
            /\ DrainCoupled /\ CaptureComplete

\* The inductive invariant.
IInv == TypeOK /\ SlotsAccounted /\ Coupling /\ Verdicts /\ Custody

-----------------------------------------------------------------------------

USE OwnerAssumption, UnitAssumption, SlotsAssumption
USE DEF vars, lifecycleVars, unitVars, ownerVars, dbVars,
        Admitted, Interruptible, Shielded

\* A unit whose BEGIN succeeded holds something.
LEMMA ResourcesNonempty == Resources # {}
  BY DEF Resources

\* Admitted units are finitely many, so their number is a natural number.
LEMMA ActiveFinite == ASSUME TypeOK PROVE IsFiniteSet(active) /\ Cardinality(active) \in Nat
<1>1. IsFiniteSet(active)
  BY FiniteAssumption, FS_Subset DEF TypeOK
<1>. QED BY <1>1, FS_CardinalityType

\* Removing an element takes one from the cardinality.
LEMMA RemoveOne ==
  ASSUME NEW S, IsFiniteSet(S), NEW x \in S
  PROVE  Cardinality(S \ {x}) = Cardinality(S) - 1
  BY FS_RemoveElement, FS_CardinalityType

\* The initial states satisfy the invariant.
LEMMA InitIInv == Init => IInv
<1>. SUFFICES ASSUME Init PROVE IInv
  OBVIOUS
<1>1. TypeOK
  <2>1. slots \in 0..WriterSlots
    BY DEF Init
  <2>. QED BY <2>1 DEF Init, TypeOK, OwnerStates, DrainStates, Phases, Results, Failures, CallbackStates
<1>2. SlotsAccounted
  BY FS_EmptySet DEF Init, SlotsAccounted
<1>3. Coupling
  BY DEF Init, Coupling, OwnersCoupled, ActiveCoupled, FreshUnits
<1>4. Verdicts
  BY DEF Init, Verdicts, Underway, TruthfulResult, CallbacksFollowCommit, RunsCoupled,
         AtMostOneCommitPerRun, CommitsDecided
<1>5. Custody
  BY DEF Init, Custody, CleanupCoupled, ResourcesTracked, LeakMarksUnsafe, DrainCoupled,
         CaptureComplete, ActiveOwners
<1>. QED BY <1>1, <1>2, <1>3, <1>4, <1>5 DEF IInv

\* Only Admit takes a permit and only Close returns one, each with the unit.
LEMMA SlotsStep == ASSUME IInv, Next PROVE SlotsAccounted'
<1>. USE DEF IInv, TypeOK, SlotsAccounted, Coupling, OwnersCoupled, ActiveCoupled
<1>1. ASSUME NEW o \in Owner, Refuse(o) PROVE SlotsAccounted'
  BY <1>1 DEF Refuse, Settle
<1>2. ASSUME NEW o \in Owner, Enter(o) PROVE SlotsAccounted'
  BY <1>2 DEF Enter
<1>3. ASSUME NEW o \in Owner, Admit(o) PROVE SlotsAccounted'
  <2>1. unit[o] \in Unit /\ unit[o] \notin active
    BY <1>3 DEF Admit
  <2>2. Cardinality(active') = Cardinality(active) + 1
    BY <1>3, <2>1, ActiveFinite, FS_AddElement DEF Admit
  <2>. QED BY <1>3, <2>2, ActiveFinite DEF Admit
<1>4. ASSUME NEW o \in Owner, AdmissionFails(o) PROVE SlotsAccounted'
  BY <1>4 DEF AdmissionFails, Settle, Deliver, Raises
<1>5. ASSUME NEW o \in Owner, Connect(o) PROVE SlotsAccounted'
  BY <1>5 DEF Connect
<1>6. ASSUME NEW o \in Owner, Begin(o) PROVE SlotsAccounted'
  BY <1>6 DEF Begin
<1>7. ASSUME NEW o \in Owner, StartFails(o) PROVE SlotsAccounted'
  BY <1>7 DEF StartFails, Deliver, Raises, StartAwaits
<1>8. ASSUME NEW o \in Owner, BeginCommit(o) PROVE SlotsAccounted'
  BY <1>8 DEF BeginCommit, CancellationRequested
<1>9. ASSUME NEW o \in Owner, AssertionFails(o) PROVE SlotsAccounted'
  BY <1>9 DEF AssertionFails, CancellationRequested
<1>10. ASSUME NEW o \in Owner, BeginRollback(o) PROVE SlotsAccounted'
  BY <1>10 DEF BeginRollback, CancellationRequested, Deliver, Raises
<1>11. ASSUME NEW o \in Owner, Commit(o) PROVE SlotsAccounted'
  BY <1>11 DEF Commit
<1>12. ASSUME NEW o \in Owner, CommitFails(o) PROVE SlotsAccounted'
  BY <1>12 DEF CommitFails
<1>13. ASSUME NEW o \in Owner, Confirm(o) PROVE SlotsAccounted'
  BY <1>13 DEF Confirm
<1>14. ASSUME NEW o \in Owner, Rollback(o) PROVE SlotsAccounted'
  BY <1>14 DEF Rollback
<1>15. ASSUME NEW o \in Owner, Rescue(o) PROVE SlotsAccounted'
  BY <1>15 DEF Rescue
<1>16. ASSUME NEW o \in Owner, Close(o) PROVE SlotsAccounted'
  <2>1. unit[o] \in active
    BY <1>16 DEF Close
  <2>2. active' = active \ {unit[o]} /\ slots' = slots + 1
    BY <1>16 DEF Close, Finish
  <2>3. Cardinality(active') = Cardinality(active) - 1
    <3>1. IsFiniteSet(active)
      BY ActiveFinite
    <3>. QED BY <2>1, <2>2, <3>1, RemoveOne
  <2>. QED BY <2>2, <2>3, ActiveFinite
<1>17. ASSUME NEW o \in Owner, GiveUp(o) PROVE SlotsAccounted'
  BY <1>17 DEF GiveUp, Deliver
<1>18. ASSUME NEW o \in Owner, Return(o) PROVE SlotsAccounted'
  BY <1>18 DEF Return, Deliver
<1>19. ASSUME NEW o \in Owner, Cancel(o) PROVE SlotsAccounted'
  BY <1>19 DEF Cancel, CancelTasks
<1>20. ASSUME BeginShutdown PROVE SlotsAccounted'
  BY <1>20 DEF BeginShutdown, CancelTasks, Captured
<1>21. ASSUME DrainTimeout PROVE SlotsAccounted'
  BY <1>21 DEF DrainTimeout, CancelTasks, ShutdownCancellable, Alive
<1>22. ASSUME DrainGivesUp PROVE SlotsAccounted'
  BY <1>22 DEF DrainGivesUp, Alive
<1>23. ASSUME StartCleanup PROVE SlotsAccounted'
  BY <1>23 DEF StartCleanup, Alive, StillOpen
<1>24. ASSUME FinishCleanup PROVE SlotsAccounted'
  BY <1>24 DEF FinishCleanup, StillOpen
<1>25. ASSUME RetryShutdown PROVE SlotsAccounted'
  BY <1>25 DEF RetryShutdown
<1>26. ASSUME NEW u \in Unit, CleanupEnds(u) PROVE SlotsAccounted'
  BY <1>26 DEF CleanupEnds, LeftOpen, RecordFailure, ReleaseLock
<1>. QED BY <1>1, <1>2, <1>3, <1>4, <1>5, <1>6, <1>7, <1>8, <1>9, <1>10,
     <1>11, <1>12, <1>13, <1>14, <1>15, <1>16, <1>17, <1>18, <1>19, <1>20,
     <1>21, <1>22, <1>23, <1>24, <1>25, <1>26 DEF Next, Entering, Leaving,
     DrainStep

\* Types; that the permits never exceed their number is the accounting above.
LEMMA TypeStep == ASSUME IInv, Next PROVE TypeOK'
<1>. USE DEF IInv, TypeOK, Coupling, OwnersCoupled, OwnerStates, Phases, Failures,
         CallbackStates, Results, Resources, DrainStates
<1>1. ASSUME NEW o \in Owner, Refuse(o) PROVE TypeOK'
  BY <1>1 DEF Refuse, Settle
<1>2. ASSUME NEW o \in Owner, Enter(o) PROVE TypeOK'
  BY <1>2 DEF Enter
<1>3. ASSUME NEW o \in Owner, Admit(o) PROVE TypeOK'
  BY <1>3 DEF Admit
<1>4. ASSUME NEW o \in Owner, AdmissionFails(o) PROVE TypeOK'
  BY <1>4 DEF AdmissionFails, Settle, Deliver, Raises
<1>5. ASSUME NEW o \in Owner, Connect(o) PROVE TypeOK'
  BY <1>5 DEF Connect
<1>6. ASSUME NEW o \in Owner, Begin(o) PROVE TypeOK'
  BY <1>6 DEF Begin
<1>7. ASSUME NEW o \in Owner, StartFails(o) PROVE TypeOK'
  BY <1>7 DEF StartFails, Deliver, Raises, StartAwaits
<1>8. ASSUME NEW o \in Owner, BeginCommit(o) PROVE TypeOK'
  BY <1>8 DEF BeginCommit, CancellationRequested
<1>9. ASSUME NEW o \in Owner, AssertionFails(o) PROVE TypeOK'
  BY <1>9 DEF AssertionFails, CancellationRequested
<1>10. ASSUME NEW o \in Owner, BeginRollback(o) PROVE TypeOK'
  BY <1>10 DEF BeginRollback, CancellationRequested, Deliver, Raises
<1>11. ASSUME NEW o \in Owner, Commit(o) PROVE TypeOK'
  BY <1>11 DEF Commit
<1>12. ASSUME NEW o \in Owner, CommitFails(o) PROVE TypeOK'
  BY <1>12 DEF CommitFails
<1>13. ASSUME NEW o \in Owner, Confirm(o) PROVE TypeOK'
  BY <1>13 DEF Confirm
<1>14. ASSUME NEW o \in Owner, Rollback(o) PROVE TypeOK'
  BY <1>14 DEF Rollback
<1>15. ASSUME NEW o \in Owner, Rescue(o) PROVE TypeOK'
  BY <1>15 DEF Rescue
<1>16. ASSUME NEW o \in Owner, Close(o) PROVE TypeOK'
  <2>1. unit[o] \in Unit
    BY <1>16 DEF Close
  <2>2. slots' \in 0..WriterSlots
    <3>1. slots' = slots + 1 /\ active' \in SUBSET Unit
      BY <1>16 DEF Close, Finish
    <3>2. IsFiniteSet(active') /\ Cardinality(active') \in Nat
      BY <3>1, FiniteAssumption, FS_Subset, FS_CardinalityType
    <3>. QED BY <3>1, <3>2, SlotsStep DEF SlotsAccounted
  <2>3. held' \in [Unit -> SUBSET Resources]
    BY <1>16, <2>1 DEF Close, LeftOpen
  <2>4. result' \in [Unit -> Results] /\ failure' \in [Unit -> Failures]
        /\ unit' \in [Owner -> Unit \cup {NoUnit}] /\ pc' \in [Owner -> OwnerStates]
    BY <1>16, <2>1 DEF Close, Settle
  <2>5. callbacks' \in [Unit -> CallbackStates]
    BY <1>16, <2>1 DEF Close, ClearCallbacks
  <2>. QED BY <1>16, <2>2, <2>3, <2>4, <2>5 DEF Close, Finish, RecordFailure, ReleaseLock
<1>17. ASSUME NEW o \in Owner, GiveUp(o) PROVE TypeOK'
  BY <1>17 DEF GiveUp, Deliver
<1>18. ASSUME NEW o \in Owner, Return(o) PROVE TypeOK'
  BY <1>18 DEF Return, Deliver
<1>19. ASSUME NEW o \in Owner, Cancel(o) PROVE TypeOK'
  BY <1>19 DEF Cancel, CancelTasks
<1>20. ASSUME BeginShutdown PROVE TypeOK'
  <2>1. Captured \in SUBSET Owner
    BY DEF Captured, ActiveOwners, ActiveCoupled
  <2>. QED BY <1>20, <2>1 DEF BeginShutdown, CancelTasks
<1>21. ASSUME DrainTimeout PROVE TypeOK'
  BY <1>21 DEF DrainTimeout, CancelTasks, ShutdownCancellable, Alive
<1>22. ASSUME DrainGivesUp PROVE TypeOK'
  BY <1>22 DEF DrainGivesUp, Alive
<1>23. ASSUME StartCleanup PROVE TypeOK'
  BY <1>23 DEF StartCleanup, Alive, StillOpen
<1>24. ASSUME FinishCleanup PROVE TypeOK'
  BY <1>24 DEF FinishCleanup, StillOpen
<1>25. ASSUME RetryShutdown PROVE TypeOK'
  BY <1>25 DEF RetryShutdown
<1>26. ASSUME NEW u \in Unit, CleanupEnds(u) PROVE TypeOK'
  BY <1>26 DEF CleanupEnds, LeftOpen, RecordFailure, ReleaseLock
<1>. QED BY <1>1, <1>2, <1>3, <1>4, <1>5, <1>6, <1>7, <1>8, <1>9, <1>10,
     <1>11, <1>12, <1>13, <1>14, <1>15, <1>16, <1>17, <1>18, <1>19, <1>20,
     <1>21, <1>22, <1>23, <1>24, <1>25, <1>26 DEF Next, Entering, Leaving,
     DrainStep

\* A task and the unit it is inside stay coupled.
LEMMA CouplingStep == ASSUME IInv, Next PROVE Coupling'
<1>. USE DEF IInv, TypeOK, Coupling, OwnersCoupled, ActiveCoupled, FreshUnits,
         Verdicts, Underway, Custody, CleanupCoupled, DrainCoupled
<1>1. ASSUME NEW o \in Owner, Refuse(o) PROVE Coupling'
  BY <1>1 DEF Refuse, Settle
<1>2. ASSUME NEW o \in Owner, Enter(o) PROVE Coupling'
  BY <1>2 DEF Enter
<1>3. ASSUME NEW o \in Owner, Admit(o) PROVE Coupling'
  BY <1>3 DEF Admit
<1>4. ASSUME NEW o \in Owner, AdmissionFails(o) PROVE Coupling'
  BY <1>4 DEF AdmissionFails, Settle, Deliver, Raises
<1>5. ASSUME NEW o \in Owner, Connect(o) PROVE Coupling'
  BY <1>5 DEF Connect
<1>6. ASSUME NEW o \in Owner, Begin(o) PROVE Coupling'
  BY <1>6 DEF Begin
<1>7. ASSUME NEW o \in Owner, StartFails(o) PROVE Coupling'
  BY <1>7 DEF StartFails, Deliver, Raises, StartAwaits
<1>8. ASSUME NEW o \in Owner, BeginCommit(o) PROVE Coupling'
  BY <1>8 DEF BeginCommit, CancellationRequested
<1>9. ASSUME NEW o \in Owner, AssertionFails(o) PROVE Coupling'
  BY <1>9 DEF AssertionFails, CancellationRequested
<1>10. ASSUME NEW o \in Owner, BeginRollback(o) PROVE Coupling'
  BY <1>10 DEF BeginRollback, CancellationRequested, Deliver, Raises
<1>11. ASSUME NEW o \in Owner, Commit(o) PROVE Coupling'
  BY <1>11 DEF Commit
<1>12. ASSUME NEW o \in Owner, CommitFails(o) PROVE Coupling'
  BY <1>12 DEF CommitFails
<1>13. ASSUME NEW o \in Owner, Confirm(o) PROVE Coupling'
  BY <1>13 DEF Confirm
<1>14. ASSUME NEW o \in Owner, Rollback(o) PROVE Coupling'
  BY <1>14 DEF Rollback
<1>15. ASSUME NEW o \in Owner, Rescue(o) PROVE Coupling'
  BY <1>15 DEF Rescue
<1>16. ASSUME NEW o \in Owner, Close(o) PROVE Coupling'
  BY <1>16 DEF Close, Settle, Finish, LeftOpen, RecordFailure, ReleaseLock, ClearCallbacks
<1>17. ASSUME NEW o \in Owner, GiveUp(o) PROVE Coupling'
  BY <1>17 DEF GiveUp, Deliver
<1>18. ASSUME NEW o \in Owner, Return(o) PROVE Coupling'
  BY <1>18 DEF Return, Deliver
<1>19. ASSUME NEW o \in Owner, Cancel(o) PROVE Coupling'
  BY <1>19 DEF Cancel, CancelTasks
<1>20. ASSUME BeginShutdown PROVE Coupling'
  BY <1>20 DEF BeginShutdown, CancelTasks, Captured
<1>21. ASSUME DrainTimeout PROVE Coupling'
  BY <1>21 DEF DrainTimeout, CancelTasks, ShutdownCancellable, Alive
<1>22. ASSUME DrainGivesUp PROVE Coupling'
  BY <1>22 DEF DrainGivesUp, Alive
<1>23. ASSUME StartCleanup PROVE Coupling'
  BY <1>23 DEF StartCleanup, Alive, StillOpen
<1>24. ASSUME FinishCleanup PROVE Coupling'
  BY <1>24 DEF FinishCleanup, StillOpen
<1>25. ASSUME RetryShutdown PROVE Coupling'
  BY <1>25 DEF RetryShutdown
<1>26. ASSUME NEW u \in Unit, CleanupEnds(u) PROVE Coupling'
  BY <1>26 DEF CleanupEnds, LeftOpen, RecordFailure, ReleaseLock
<1>. QED BY <1>1, <1>2, <1>3, <1>4, <1>5, <1>6, <1>7, <1>8, <1>9, <1>10,
     <1>11, <1>12, <1>13, <1>14, <1>15, <1>16, <1>17, <1>18, <1>19, <1>20,
     <1>21, <1>22, <1>23, <1>24, <1>25, <1>26 DEF Next, Entering, Leaving,
     DrainStep

\* What callers are told stays true, and a run commits at most once.
LEMMA VerdictsStep == ASSUME IInv, Next PROVE Verdicts'
<1>. USE DEF IInv, TypeOK, Coupling, OwnersCoupled, ActiveCoupled, FreshUnits,
         Verdicts, Underway, TruthfulResult, CallbacksFollowCommit, RunsCoupled,
         AtMostOneCommitPerRun, CommitsDecided, Custody, CleanupCoupled
<1>1. ASSUME NEW o \in Owner, Refuse(o) PROVE Verdicts'
  BY <1>1 DEF Refuse, Settle
<1>2. ASSUME NEW o \in Owner, Enter(o) PROVE Verdicts'
  BY <1>2 DEF Enter
<1>3. ASSUME NEW o \in Owner, Admit(o) PROVE Verdicts'
  BY <1>3 DEF Admit
<1>4. ASSUME NEW o \in Owner, AdmissionFails(o) PROVE Verdicts'
  BY <1>4 DEF AdmissionFails, Settle, Deliver, Raises
<1>5. ASSUME NEW o \in Owner, Connect(o) PROVE Verdicts'
  BY <1>5 DEF Connect
<1>6. ASSUME NEW o \in Owner, Begin(o) PROVE Verdicts'
  BY <1>6 DEF Begin
<1>7. ASSUME NEW o \in Owner, StartFails(o) PROVE Verdicts'
  BY <1>7 DEF StartFails, Deliver, Raises, StartAwaits
<1>8. ASSUME NEW o \in Owner, BeginCommit(o) PROVE Verdicts'
  BY <1>8 DEF BeginCommit, CancellationRequested
<1>9. ASSUME NEW o \in Owner, AssertionFails(o) PROVE Verdicts'
  BY <1>9 DEF AssertionFails, CancellationRequested
<1>10. ASSUME NEW o \in Owner, BeginRollback(o) PROVE Verdicts'
  BY <1>10 DEF BeginRollback, CancellationRequested, Deliver, Raises
<1>11. ASSUME NEW o \in Owner, Commit(o) PROVE Verdicts'
  BY <1>11 DEF Commit
<1>12. ASSUME NEW o \in Owner, CommitFails(o) PROVE Verdicts'
  BY <1>12 DEF CommitFails
<1>13. ASSUME NEW o \in Owner, Confirm(o) PROVE Verdicts'
  BY <1>13 DEF Confirm
<1>14. ASSUME NEW o \in Owner, Rollback(o) PROVE Verdicts'
  BY <1>14 DEF Rollback
<1>15. ASSUME NEW o \in Owner, Rescue(o) PROVE Verdicts'
  BY <1>15 DEF Rescue
<1>16. ASSUME NEW o \in Owner, Close(o) PROVE Verdicts'
  <2>1. unit[o] \in Unit /\ pc[o] = "closing" /\ result[unit[o]] = "pending"
    BY <1>16 DEF Close
  <2>2. PICK r \in {"success", "busy", "error", "cancelled"} :
           /\ r = "success" <=> failure[unit[o]] = "none"
           /\ Settle(o, unit[o], r)
    BY <1>16, <2>1 DEF Close, Failures
  <2>3. UNCHANGED <<phase, owner, shutdownCancel, run, durable>>
    BY <1>16 DEF Close
  <2>4. callbacks' = callbacks \/ ClearCallbacks(unit[o])
    BY <1>16 DEF Close
  <2>5. Underway'
    BY <1>16, <2>1, <2>2, <2>3, <2>4 DEF Close, Settle, Finish, ClearCallbacks
  <2>8. RunsCoupled'
    BY <2>1, <2>2, <2>3 DEF Settle
  <2>9. AtMostOneCommitPerRun' /\ CommitsDecided'
    BY <2>3
  <2>6. TruthfulResult'
    BY <2>1, <2>2, <2>3 DEF Settle
  <2>7. CallbacksFollowCommit'
    BY <2>1, <2>2, <2>3, <2>4 DEF Settle, ClearCallbacks
  <2>. QED BY <2>5, <2>6, <2>7, <2>8, <2>9
<1>17. ASSUME NEW o \in Owner, GiveUp(o) PROVE Verdicts'
  BY <1>17 DEF GiveUp, Deliver
<1>18. ASSUME NEW o \in Owner, Return(o) PROVE Verdicts'
  BY <1>18 DEF Return, Deliver
<1>19. ASSUME NEW o \in Owner, Cancel(o) PROVE Verdicts'
  BY <1>19 DEF Cancel, CancelTasks
<1>20. ASSUME BeginShutdown PROVE Verdicts'
  BY <1>20 DEF BeginShutdown, CancelTasks, Captured
<1>21. ASSUME DrainTimeout PROVE Verdicts'
  BY <1>21 DEF DrainTimeout, CancelTasks, ShutdownCancellable, Alive
<1>22. ASSUME DrainGivesUp PROVE Verdicts'
  BY <1>22 DEF DrainGivesUp, Alive
<1>23. ASSUME StartCleanup PROVE Verdicts'
  BY <1>23 DEF StartCleanup, Alive, StillOpen
<1>24. ASSUME FinishCleanup PROVE Verdicts'
  BY <1>24 DEF FinishCleanup, StillOpen
<1>25. ASSUME RetryShutdown PROVE Verdicts'
  BY <1>25 DEF RetryShutdown
<1>26. ASSUME NEW u \in Unit, CleanupEnds(u) PROVE Verdicts'
  BY <1>26 DEF CleanupEnds, LeftOpen, RecordFailure, ReleaseLock
<1>. QED BY <1>1, <1>2, <1>3, <1>4, <1>5, <1>6, <1>7, <1>8, <1>9, <1>10,
     <1>11, <1>12, <1>13, <1>14, <1>15, <1>16, <1>17, <1>18, <1>19, <1>20,
     <1>21, <1>22, <1>23, <1>24, <1>25, <1>26 DEF Next, Entering, Leaving,
     DrainStep

\* Nothing that is open escapes the shutdown.
LEMMA CustodyStep == ASSUME IInv, Next PROVE Custody'
<1>. USE ResourcesNonempty
<1>. USE DEF IInv, TypeOK, Coupling, OwnersCoupled, ActiveCoupled, FreshUnits,
         Verdicts, Underway, Custody, CleanupCoupled, ResourcesTracked,
         LeakMarksUnsafe, DrainCoupled, CaptureComplete, ActiveOwners
<1>1. ASSUME NEW o \in Owner, Refuse(o) PROVE Custody'
  BY <1>1 DEF Refuse, Settle
<1>2. ASSUME NEW o \in Owner, Enter(o) PROVE Custody'
  BY <1>2 DEF Enter
<1>3. ASSUME NEW o \in Owner, Admit(o) PROVE Custody'
  BY <1>3 DEF Admit
<1>4. ASSUME NEW o \in Owner, AdmissionFails(o) PROVE Custody'
  BY <1>4 DEF AdmissionFails, Settle, Deliver, Raises
<1>5. ASSUME NEW o \in Owner, Connect(o) PROVE Custody'
  <2>1. unit[o] \in active /\ held' = [held EXCEPT ![unit[o]] = {"connection"}]
    BY <1>5 DEF Connect
  <2>2. UNCHANGED <<writer, active, unresolved, attempts, marked>>
    BY <1>5 DEF Connect
  <2>3. /\ "connection" \in held'[unit[o]]
        /\ \A u \in Unit \ {unit[o]} : held'[u] = held[u]
    BY <2>1
  <2>4. CleanupCoupled'
    <3>1. held'[unit[o]] # {}
      BY <2>3
    <3>2. \A u \in Unit : held[u] # {} => held'[u] # {}
      BY <2>3, <3>1
    <3>. QED BY <2>2, <3>2
  <2>5. ResourcesTracked' /\ LeakMarksUnsafe'
    BY <2>1, <2>2
  <2>6. DrainCoupled' /\ CaptureComplete'
    BY <1>5 DEF Connect
  <2>. QED BY <2>4, <2>5, <2>6
<1>6. ASSUME NEW o \in Owner, Begin(o) PROVE Custody'
  BY <1>6 DEF Begin
<1>7. ASSUME NEW o \in Owner, StartFails(o) PROVE Custody'
  BY <1>7 DEF StartFails, Deliver, Raises, StartAwaits
<1>8. ASSUME NEW o \in Owner, BeginCommit(o) PROVE Custody'
  BY <1>8 DEF BeginCommit, CancellationRequested
<1>9. ASSUME NEW o \in Owner, AssertionFails(o) PROVE Custody'
  BY <1>9 DEF AssertionFails, CancellationRequested
<1>10. ASSUME NEW o \in Owner, BeginRollback(o) PROVE Custody'
  BY <1>10 DEF BeginRollback, CancellationRequested, Deliver, Raises
<1>11. ASSUME NEW o \in Owner, Commit(o) PROVE Custody'
  BY <1>11 DEF Commit
<1>12. ASSUME NEW o \in Owner, CommitFails(o) PROVE Custody'
  BY <1>12 DEF CommitFails
<1>13. ASSUME NEW o \in Owner, Confirm(o) PROVE Custody'
  BY <1>13 DEF Confirm
<1>14. ASSUME NEW o \in Owner, Rollback(o) PROVE Custody'
  BY <1>14 DEF Rollback
<1>15. ASSUME NEW o \in Owner, Rescue(o) PROVE Custody'
  BY <1>15 DEF Rescue
<1>16. ASSUME NEW o \in Owner, Close(o) PROVE Custody'
  <2>1. unit[o] \in Unit /\ unit[o] \in active /\ pc[o] = "closing"
    BY <1>16 DEF Close
  <2>2. PICK rest \in LeftOpen(unit[o]) :
           /\ held' = [held EXCEPT ![unit[o]] = rest]
           /\ RecordFailure(rest) /\ ReleaseLock(unit[o], rest) /\ Finish(unit[o], rest)
    BY <1>16 DEF Close
  <2>3. UNCHANGED <<accepting, waiting, attempts, drain, capture, owner>>
    BY <1>16 DEF Close
  <2>4. CleanupCoupled'
    BY <2>1, <2>2, <2>3 DEF Finish, ReleaseLock, LeftOpen
  <2>6. ResourcesTracked'
    BY <2>1, <2>2, <2>3 DEF Finish, ReleaseLock
  <2>7. LeakMarksUnsafe'
    BY <2>2 DEF Finish, RecordFailure
  <2>5. DrainCoupled' /\ CaptureComplete'
    BY <2>1, <2>2, <2>3 DEF Finish
  <2>. QED BY <2>4, <2>5, <2>6, <2>7
<1>17. ASSUME NEW o \in Owner, GiveUp(o) PROVE Custody'
  BY <1>17 DEF GiveUp, Deliver
<1>18. ASSUME NEW o \in Owner, Return(o) PROVE Custody'
  BY <1>18 DEF Return, Deliver
<1>19. ASSUME NEW o \in Owner, Cancel(o) PROVE Custody'
  BY <1>19 DEF Cancel, CancelTasks
<1>20. ASSUME BeginShutdown PROVE Custody'
  BY <1>20 DEF BeginShutdown, CancelTasks, Captured
<1>21. ASSUME DrainTimeout PROVE Custody'
  BY <1>21 DEF DrainTimeout, CancelTasks, ShutdownCancellable, Alive
<1>22. ASSUME DrainGivesUp PROVE Custody'
  BY <1>22 DEF DrainGivesUp, Alive
<1>23. ASSUME StartCleanup PROVE Custody'
  BY <1>23 DEF StartCleanup, Alive, StillOpen
<1>24. ASSUME FinishCleanup PROVE Custody'
  BY <1>24 DEF FinishCleanup, StillOpen
<1>25. ASSUME RetryShutdown PROVE Custody'
  BY <1>25 DEF RetryShutdown
<1>26. ASSUME NEW u \in Unit, CleanupEnds(u) PROVE Custody'
  BY <1>26 DEF CleanupEnds, LeftOpen, RecordFailure, ReleaseLock
<1>. QED BY <1>1, <1>2, <1>3, <1>4, <1>5, <1>6, <1>7, <1>8, <1>9, <1>10,
     <1>11, <1>12, <1>13, <1>14, <1>15, <1>16, <1>17, <1>18, <1>19, <1>20,
     <1>21, <1>22, <1>23, <1>24, <1>25, <1>26 DEF Next, Entering, Leaving,
     DrainStep

\* The invariant is inductive.
THEOREM Inductive == Spec => []IInv
<1>1. IInv /\ [Next]_vars => IInv'
  <2>1. CASE Next
    BY <2>1, SlotsStep, TypeStep, CouplingStep, VerdictsStep, CustodyStep DEF IInv
  <2>2. CASE UNCHANGED vars
    BY <2>2 DEF IInv, TypeOK, SlotsAccounted, Coupling, OwnersCoupled, ActiveCoupled,
         FreshUnits, Verdicts, Underway, TruthfulResult, CallbacksFollowCommit,
         RunsCoupled, AtMostOneCommitPerRun, CommitsDecided, Custody, CleanupCoupled,
         ResourcesTracked, LeakMarksUnsafe, DrainCoupled, CaptureComplete, ActiveOwners
  <2>. QED BY <2>1, <2>2
<1>. QED BY InitIInv, <1>1, PTL DEF Spec

\* Every variable stays in its range; the free permits never exceed their number.
THEOREM Types == Spec => []TypeOK
<1>1. IInv => TypeOK
  BY DEF IInv, Verdicts, Custody
<1>. QED BY Inductive, <1>1, PTL

\* No permit of the writer semaphore is lost or duplicated.
THEOREM Permits == Spec => []SlotsAccounted
<1>1. IInv => SlotsAccounted
  BY DEF IInv, Verdicts, Custody
<1>. QED BY Inductive, <1>1, PTL

\* An attempt reports success exactly when its commit is durable.
THEOREM Truth == Spec => []TruthfulResult
<1>1. IInv => TruthfulResult
  BY DEF IInv, Verdicts, Custody
<1>. QED BY Inductive, <1>1, PTL

\* Post-commit callbacks run after a durable commit and before it is reported.
THEOREM Callbacks == Spec => []CallbacksFollowCommit
<1>1. IInv => CallbacksFollowCommit
  BY DEF IInv, Verdicts, Custody
<1>. QED BY Inductive, <1>1, PTL

\* Retrying never applies a request twice.
THEOREM OneCommit == Spec => []AtMostOneCommitPerRun
<1>1. IInv => AtMostOneCommitPerRun
  BY DEF IInv, Verdicts, Custody
<1>. QED BY Inductive, <1>1, PTL

\* Whatever is open belongs to a unit the shutdown knows.
THEOREM Tracking == Spec => []ResourcesTracked
<1>1. IInv => ResourcesTracked
  BY DEF IInv, Verdicts, Custody
<1>. QED BY Inductive, <1>1, PTL

\* A leaked resource has marked the runtime unsafe.
THEOREM Leaks == Spec => []LeakMarksUnsafe
<1>1. IInv => LeakMarksUnsafe
  BY DEF IInv, Verdicts, Custody
<1>. QED BY Inductive, <1>1, PTL

\* The drain waits for every task that could still write.
THEOREM Capture == Spec => []CaptureComplete
<1>1. IInv => CaptureComplete
  BY DEF IInv, Verdicts, Custody
<1>. QED BY Inductive, <1>1, PTL

\* A transaction the shutdown asked to stop is never committed.
THEOREM Stopped == Spec => []StoppedNeverCommits
<1>1. IInv => StoppedNeverCommits
  BY DEF IInv, Verdicts, CommitsDecided, StoppedNeverCommits
<1>. QED BY Inductive, <1>1, PTL

\* When the drain is over, nothing is admitted, waiting, open or locked.
THEOREM Quiescence == Spec => []DrainedIsQuiescent
<1>1. IInv => DrainedIsQuiescent
  BY DEF IInv, TypeOK, Custody, DrainCoupled, CleanupCoupled, ResourcesTracked,
         DrainedIsQuiescent
<1>. QED BY Inductive, <1>1, PTL

\* A step after a complete drain changes nothing the shutdown answers for.
LEMMA DrainedStep ==
  ASSUME IInv, Next, drain = "drained"
  PROVE  UNCHANGED <<lifecycleVars, held, dbVars>>
<1>1. ~accepting /\ attempts = {} /\ \A o \in Owner : unit[o] = NoUnit
  BY DEF IInv, TypeOK, Coupling, OwnersCoupled, ActiveCoupled, Custody, DrainCoupled,
         CleanupCoupled
<1>2. \A o \in Owner : pc[o] \in {"idle", "backoff", "done"}
  BY <1>1 DEF IInv, TypeOK, OwnerStates, Coupling, OwnersCoupled
<1>3. \A o \in Owner : ~Leaving(o)
  BY <1>2 DEF Leaving, BeginCommit, AssertionFails, BeginRollback, Commit, CommitFails,
              Confirm, Rollback, Rescue, Close
<1>4. \A o \in Owner : Entering(o) => Refuse(o)
  BY <1>1, <1>2 DEF Entering, Enter, Admit, AdmissionFails, Connect, Begin, StartFails,
                    StartAwaits
<1>5. ~BeginShutdown /\ ~DrainStep /\ ~RetryShutdown
  BY DEF BeginShutdown, DrainStep, DrainTimeout, DrainGivesUp, StartCleanup,
         FinishCleanup, RetryShutdown
<1>6. \A u \in Unit : ~CleanupEnds(u)
  BY <1>1 DEF CleanupEnds
<1>. QED BY <1>3, <1>4, <1>5, <1>6 DEF Next, Refuse, GiveUp, Return, Cancel

\* And no step opens, locks or commits anything after that.
THEOREM Finality == Spec => DrainedIsFinal
<1>1. IInv /\ [Next]_vars =>
        (drain = "drained" => UNCHANGED <<lifecycleVars, held, dbVars>>)
  BY DrainedStep
<1>. QED BY Inductive, <1>1, PTL DEF Spec, DrainedIsFinal

-----------------------------------------------------------------------------
(* The lifecycle implements its abstraction.                               *)

\* A task leaves the door and the drain alone.
LEMMA OwnersLeaveDrain ==
  ASSUME NEW o \in Owner,
         Entering(o) \/ Leaving(o) \/ GiveUp(o) \/ Return(o) \/ Cancel(o)
  PROVE  UNCHANGED <<accepting, drain>>
<1>1. Entering(o) => UNCHANGED <<accepting, drain>>
  BY DEF Entering, Refuse, Enter, Admit, AdmissionFails, Connect, Begin, StartFails
<1>2. Leaving(o) => UNCHANGED <<accepting, drain>>
  BY DEF Leaving, BeginCommit, AssertionFails, BeginRollback, Commit, CommitFails,
       Confirm, Rollback, Rescue, Close
<1>3. GiveUp(o) \/ Return(o) \/ Cancel(o) => UNCHANGED <<accepting, drain>>
  BY DEF GiveUp, Return, Cancel
<1>. QED BY <1>1, <1>2, <1>3

\* Only the first step of a shutdown shuts the door, and only two complete it.
LEMMA DrainMoves ==
  ASSUME Next
  PROVE  /\ accepting' = accepting \/ BeginShutdown
         /\ drain' # "drained" \/ drain' = drain \/ StartCleanup \/ FinishCleanup
<1>1. ASSUME NEW u \in Unit, CleanupEnds(u) PROVE UNCHANGED <<accepting, drain>>
  BY <1>1 DEF CleanupEnds
<1>2. CASE DrainStep \/ RetryShutdown \/ BeginShutdown
  BY <1>2 DEF DrainStep, DrainTimeout, DrainGivesUp, StartCleanup, FinishCleanup,
       RetryShutdown, BeginShutdown
<1>. QED BY <1>1, <1>2, OwnersLeaveDrain DEF Next

\* While the door is open a unit may start and end, and a step keeps the door
\* open or is the one that closes it.
LEMMA ServingMaps == ASSUME IInv, IInv', Next, accepting PROVE L!Start \/ L!CloseDoor
<1>1. Stage = "serving" /\ Open' \in SUBSET Unit
  BY DEF Stage, IInv, TypeOK, Open
<1>2. CASE BeginShutdown
  BY <1>1, <1>2 DEF BeginShutdown, L!CloseDoor, Stage, Open
<1>3. CASE accepting'
  BY <1>1, <1>3 DEF L!Start, Stage
<1>. QED BY <1>2, <1>3, DrainMoves

\* Once the door is closed, what takes a resource is an admitted unit.
LEMMA OwnersOpen ==
  ASSUME IInv, NEW o \in Owner, pc[o] \in Admitted
  PROVE  unit[o] \in active
  BY DEF IInv, TypeOK, Coupling, OwnersCoupled, ActiveCoupled

\* So the units that are open only become fewer.
LEMMA OpenShrinks == ASSUME IInv, Next, ~accepting PROVE Open' \subseteq Open
<1>1. ASSUME NEW o \in Owner, Refuse(o) \/ AdmissionFails(o) \/ GiveUp(o) \/ Return(o)
                               \/ Cancel(o)
      PROVE  Open' \subseteq Open
  BY <1>1 DEF Refuse, AdmissionFails, GiveUp, Return, Cancel, Open
<1>2. ASSUME NEW o \in Owner, Connect(o) \/ Begin(o) \/ StartFails(o)
      PROVE  Open' \subseteq Open
  <2>1. unit[o] \in active
    BY <1>2, OwnersOpen DEF Connect, Begin, StartFails, StartAwaits
  <2>2. active' = active
    BY <1>2 DEF Connect, Begin, StartFails
  <2>3. \A u \in Unit : u # unit[o] => held'[u] = held[u]
    BY <1>2 DEF Connect, Begin, StartFails, IInv, TypeOK
  <2>. QED BY <2>1, <2>2, <2>3 DEF Open
<1>3. ASSUME NEW o \in Owner, BeginCommit(o) \/ AssertionFails(o) \/ BeginRollback(o)
                               \/ Commit(o) \/ CommitFails(o) \/ Confirm(o)
                               \/ Rollback(o) \/ Rescue(o)
      PROVE  Open' \subseteq Open
  BY <1>3 DEF BeginCommit, AssertionFails, BeginRollback, Commit, CommitFails, Confirm,
       Rollback, Rescue, Open
<1>4. ASSUME NEW o \in Owner, Close(o) PROVE Open' \subseteq Open
  <2>1. active' \subseteq active
    BY <1>4 DEF Close, Finish
  <2>2. \A u \in Unit : held'[u] \subseteq held[u]
    BY <1>4 DEF Close, LeftOpen, IInv, TypeOK
  <2>. QED BY <2>1, <2>2 DEF Open
<1>5. ASSUME NEW u \in Unit, CleanupEnds(u) PROVE Open' \subseteq Open
  <2>1. \A v \in Unit : held'[v] \subseteq held[v]
    BY <1>5 DEF CleanupEnds, LeftOpen, IInv, TypeOK
  <2>. QED BY <1>5, <2>1 DEF CleanupEnds, Open
<1>6. CASE BeginShutdown \/ DrainStep \/ RetryShutdown
  BY <1>6 DEF BeginShutdown, DrainStep, DrainTimeout, DrainGivesUp, StartCleanup,
       FinishCleanup, RetryShutdown, Open
<1>7. \A o \in Owner : ~Enter(o) /\ ~Admit(o)
  BY DEF Enter, Admit
<1>. QED BY <1>1, <1>2, <1>3, <1>4, <1>5, <1>6, <1>7 DEF Next, Entering, Leaving

\* The step that completes the drain finds every resource closed.
LEMMA DrainCompletes ==
  ASSUME IInv, Next, ~accepting, drain # "drained", drain' = "drained"
  PROVE  Open = {} /\ Open' = {}
<1>1. StartCleanup \/ FinishCleanup
  BY DrainMoves
<1>2. active = {} /\ StillOpen = {}
  BY <1>1 DEF StartCleanup, FinishCleanup, IInv, Custody, DrainCoupled
<1>3. Open = {}
  BY <1>2 DEF StillOpen, Open, IInv, Custody, ResourcesTracked
<1>. QED BY <1>3, OpenShrinks

\* Every step of the lifecycle is one of the abstraction, or a stutter.
LEMMA StepMaps == ASSUME IInv, IInv', [Next]_vars PROVE [L!Next]_(L!vars)
<1>1. CASE Next /\ accepting
  BY <1>1, ServingMaps DEF L!Next
<1>2. CASE Next /\ ~accepting /\ drain = "drained"
  BY <1>2, DrainedStep DEF Open, Stage, L!vars
<1>3. CASE Next /\ ~accepting /\ drain # "drained"
  <2>1. accepting' = FALSE
    BY <1>3, DrainMoves DEF BeginShutdown, IInv, TypeOK
  <2>2. CASE drain' = "drained"
    BY <1>3, <2>1, <2>2, DrainCompletes DEF Stage, L!Quiesce, L!Next
  <2>3. CASE drain' # "drained"
    BY <1>3, <2>1, <2>3, OpenShrinks DEF Stage, L!End, L!Next
  <2>. QED BY <2>2, <2>3
<1>4. CASE UNCHANGED vars
  BY <1>4 DEF Open, Stage, L!vars
<1>. QED BY <1>1, <1>2, <1>3, <1>4

\* The lifecycle implements Lifecycle: units start only before the shutdown, and
\* a drain that succeeds leaves nothing open, for good.
THEOREM Implements == Spec => ImplementsLifecycle
<1>1. Init => L!Init
  BY DEF Init, Open, Stage, L!Init
<1>2. IInv /\ IInv' /\ [Next]_vars => [L!Next]_(L!vars)
  BY StepMaps
<1>. QED BY Inductive, <1>1, <1>2, PTL DEF Spec, ImplementsLifecycle, L!Spec
=============================================================================
