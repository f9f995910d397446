------------------------- MODULE RuntimeCloseProofs -------------------------
(***************************************************************************)
(* That only the owner of the process lock uses the database, that close   *)
(* tells the truth and that a disposal meets nothing at work, for any      *)
(* number of processes, transactions, callers and attempts.                *)
(***************************************************************************)
EXTENDS RuntimeClose, TLAPS

\* A process that does not run has nothing at work; one that starts owns the lock.
Startable ==
    \A p \in Process : life[p] # "running" =>
        /\ open[p] = {} /\ sampler[p] = "off" /\ stage[p] = "serving"
        /\ monitorClose[p] = "none" /\ attempt[p] = "none"
        /\ life[p] \in {"starting", "undoing", "stuck"} => lock = p
        /\ life[p] \in {"new", "exited"} => engine[p] # "open"

\* The runtime keeps the lock until its engine is disposed of, which is after
\* its transactions and its sampler have ended.
KeepsOwnership ==
    \A p \in Process : life[p] = "running" =>
        /\ engine[p] # "none"
        /\ engine[p] = "open" => lock = p
        /\ engine[p] = "disposed" => stage[p] = "drained" /\ sampler[p] = "off"

\* Where the shutdown stands: the parts that reported success have ended.
PartsEnded ==
    \A p \in Process :
        /\ stage[p] = "drained" => open[p] = {}
        /\ monitorClose[p] = "done" => sampler[p] = "off"
        /\ verdict[p]["monitor"] = "ok" => monitorClose[p] = "done"
        /\ verdict[p]["drain"] = "ok" => stage[p] = "drained"
        /\ attempt[p] = "disposing" => stage[p] = "drained" /\ monitorClose[p] = "done"

\* A close that succeeded is the last attempt, and has released everything.
ClosedForGood ==
    \A p \in Process :
        /\ attempt[p] # "none" => current[p] # 0
        /\ attempt[p] = "closed" =>
            /\ life[p] = "running" /\ engine[p] = "disposed" /\ lock # p
            /\ stage[p] = "drained" /\ monitorClose[p] = "done"
        /\ \A n \in 1..MaxAttempts : result[p][n] = "closed" => attempt[p] = "closed"
        /\ \A c \in Caller : told[p][c] \in {"closed", "cancelled"} => attempt[p] = "closed"

\* The inductive invariant.
IInv == TypeOK /\ Startable /\ KeepsOwnership /\ PartsEnded /\ ClosedForGood

-----------------------------------------------------------------------------

USE ProcessAssumption, AttemptAssumption
USE DEF vars, runtimeVars, closeVars, callerVars, Lives, Parts, Pending

\* The initial state satisfies the invariant.
LEMMA InitIInv == Init => IInv
  BY DEF Init, IInv, TypeOK, Startable, KeepsOwnership, PartsEnded, ClosedForGood

\* An entry of a table of tables is replaced.
LEMMA EntryReplaced ==
  ASSUME NEW A, NEW B, NEW C, NEW f \in [A -> [B -> C]], NEW a \in A, NEW b \in B, NEW v \in C
  PROVE  [f EXCEPT ![a][b] = v] \in [A -> [B -> C]]
  OBVIOUS

\* A transaction starts or ends in its own process, and none after the drain.
LEMMA WorkEffect ==
  ASSUME IInv, NEW p \in Process, Work(p)
  PROVE  /\ open' \in [Process -> SUBSET Transaction]
         /\ \A q \in Process : q # p => open'[q] = open[q]
         /\ \A q \in Process : stage[q] = "drained" => open'[q] = {}
<1>1. PICK t \in Transaction :
        \/ t \in open[p] /\ open' = [open EXCEPT ![p] = open[p] \ {t}]
        \/ stage[p] = "serving" /\ open' = [open EXCEPT ![p] = open[p] \cup {t}]
  BY DEF Work
<1>2. /\ open \in [Process -> SUBSET Transaction]
      /\ \A q \in Process : stage[q] = "drained" => open[q] = {}
  BY DEF IInv, TypeOK, PartsEnded
<1>3. PICK s \in SUBSET Transaction :
        /\ stage[p] # "drained"
        /\ open' = [open EXCEPT ![p] = s]
  <2>1. CASE t \in open[p] /\ open' = [open EXCEPT ![p] = open[p] \ {t}]
    <3>1. stage[p] # "drained" /\ open[p] \ {t} \in SUBSET Transaction
      BY <1>2, <2>1
    <3>. QED BY <2>1, <3>1
  <2>2. CASE stage[p] = "serving" /\ open' = [open EXCEPT ![p] = open[p] \cup {t}]
    <3>1. stage[p] # "drained" /\ open[p] \cup {t} \in SUBSET Transaction
      BY <1>2, <2>2
    <3>. QED BY <2>2, <3>1
  <2>. QED BY <1>1, <2>1, <2>2
<1>. QED BY <1>2, <1>3

\* Every step keeps the types.
LEMMA TypeStep == ASSUME IInv, Next PROVE TypeOK'
<1>. USE DEF IInv, TypeOK
<1>1. ASSUME NEW p \in Process, Acquire(p) PROVE TypeOK'
  BY <1>1 DEF Acquire
<1>2. ASSUME NEW p \in Process, CreateEngine(p) PROVE TypeOK'
  BY <1>2 DEF CreateEngine, ReleaseLock
<1>3. ASSUME NEW p \in Process, CheckReadiness(p) PROVE TypeOK'
  BY <1>3 DEF CheckReadiness
<1>4. ASSUME NEW p \in Process, UndoStartup(p) PROVE TypeOK'
  BY <1>4 DEF UndoStartup, ReleaseLock
<1>5. ASSUME NEW p \in Process, Work(p) PROVE TypeOK'
  <2>1. open' \in [Process -> SUBSET Transaction]
    BY <1>5, WorkEffect
  <2>. QED BY <1>5, <2>1 DEF Work
<1>6. ASSUME NEW p \in Process, SampleStarts(p) \/ SamplerEnds(p) PROVE TypeOK'
  <2>1. PICK s \in {"off", "waiting", "sampling"} : sampler' = [sampler EXCEPT ![p] = s]
    BY <1>6 DEF SampleStarts, SamplerEnds
  <2>2. sampler' \in [Process -> {"off", "waiting", "sampling"}]
    BY <2>1
  <2>. QED BY <1>6, <2>2 DEF SampleStarts, SamplerEnds
<1>7. ASSUME NEW p \in Process, Die(p) PROVE TypeOK'
  BY <1>7 DEF Die
<1>8. ASSUME NEW p \in Process, NEW c \in Caller, CallClose(p, c) PROVE TypeOK'
  <2>1. current' \in [Process -> 0..MaxAttempts]
    BY <1>8 DEF CallClose, Due
  <2>2. /\ attempt' \in [Process -> {"none", "created", "gathering", "disposing", "failed", "closed"}]
        /\ stage' \in [Process -> {"serving", "closing", "drained"}]
    <3>1. CASE Due(p)
      <4>1. PICK s \in {"serving", "closing", "drained"} : stage' = [stage EXCEPT ![p] = s]
        BY <1>8, <3>1 DEF CallClose, Due
      <4>. QED BY <1>8, <3>1, <4>1 DEF CallClose, Due
    <3>2. CASE ~Due(p)
      BY <1>8, <3>2 DEF CallClose
    <3>. QED BY <3>1, <3>2
  <2>3. waitsFor' \in [Process -> [Caller -> 0..MaxAttempts]]
    <3>1. current'[p] \in 0..MaxAttempts /\ waitsFor' = [waitsFor EXCEPT ![p][c] = current'[p]]
      BY <1>8, <2>1 DEF CallClose
    <3>2. waitsFor \in [Process -> [Caller -> 0..MaxAttempts]]
      OBVIOUS
    <3>. HIDE DEF IInv, TypeOK
    <3>. QED BY <3>1, <3>2, EntryReplaced
  <2>4. told' \in [Process -> [Caller -> {"nothing", "closed", "cancelled", "failed"}]]
    BY <1>8, EntryReplaced DEF CallClose
  <2>5. cancelled' \in [Process -> SUBSET Caller]
    BY <1>8 DEF CallClose
  <2>. QED BY <1>8, <2>1, <2>2, <2>3, <2>4, <2>5 DEF CallClose
<1>9. ASSUME NEW p \in Process, NEW c \in Caller, CancelCaller(p, c) PROVE TypeOK'
  <2>1. waitsFor' \in [Process -> [Caller -> 0..MaxAttempts]]
    BY <1>9, EntryReplaced DEF CancelCaller
  <2>. QED BY <1>9, <2>1 DEF CancelCaller
<1>10. ASSUME NEW p \in Process, NEW c \in Caller, Return(p, c) PROVE TypeOK'
  <2>1. waitsFor[p][c] \in 1..MaxAttempts
    BY <1>10 DEF Return
  <2>2. result[p][waitsFor[p][c]] \in {"failed", "closed"}
    BY <1>10, <2>1 DEF Return
  <2>3. waitsFor' \in [Process -> [Caller -> 0..MaxAttempts]]
    BY <1>10, EntryReplaced DEF Return
  <2>4. told' \in [Process -> [Caller -> {"nothing", "closed", "cancelled", "failed"}]]
    BY <1>10, <2>2, EntryReplaced DEF Return
  <2>. QED BY <1>10, <2>3, <2>4 DEF Return
<1>11. ASSUME NEW p \in Process, StartAttempt(p) \/ MonitorCloses(p) PROVE TypeOK'
  <2>1. CASE StartAttempt(p)
    <3>1. PICK s \in {"none", "pending", "done"} :
            monitorClose' = [monitorClose EXCEPT ![p] = s]
      BY <2>1 DEF StartAttempt
    <3>2. monitorClose' \in [Process -> {"none", "pending", "done"}]
      BY <3>1
    <3>. QED BY <2>1, <3>2 DEF StartAttempt
  <2>2. CASE MonitorCloses(p)
    BY <2>2 DEF MonitorCloses
  <2>. QED BY <1>11, <2>1, <2>2
<1>12. ASSUME NEW p \in Process, MonitorDecides(p) \/ DrainDecides(p) PROVE TypeOK'
  <2>1. \A part \in Parts, outcome \in {"ok", "failed"} :
            Decide(p, part, outcome) =>
                verdict' \in [Process -> [Parts -> {"pending", "ok", "failed"}]]
    BY EntryReplaced DEF Decide
  <2>2. verdict' \in [Process -> [Parts -> {"pending", "ok", "failed"}]]
    BY <1>12, <2>1 DEF MonitorDecides, DrainDecides
  <2>. QED BY <1>12, <2>2 DEF MonitorDecides, DrainDecides
<1>13. ASSUME NEW p \in Process, GatherEnds(p) PROVE TypeOK'
  <2>1. current[p] \in 1..MaxAttempts
    BY <1>13 DEF GatherEnds, ClosedForGood
  <2>2. result' \in [Process -> [1..MaxAttempts -> {"pending", "failed", "closed"}]]
    <3>1. \/ result' = result
          \/ result' = [result EXCEPT ![p][current[p]] = "failed"]
      BY <1>13 DEF GatherEnds
    <3>2. result \in [Process -> [1..MaxAttempts -> {"pending", "failed", "closed"}]]
      OBVIOUS
    <3>. HIDE DEF IInv, TypeOK
    <3>. QED BY <2>1, <3>1, <3>2, EntryReplaced
  <2>3. verdict' \in [Process -> [Parts -> {"pending", "ok", "failed"}]]
    BY <1>13 DEF GatherEnds
  <2>4. PICK s \in {"disposing", "failed"} : attempt' = [attempt EXCEPT ![p] = s]
    BY <1>13 DEF GatherEnds
  <2>5. attempt' \in [Process -> {"none", "created", "gathering", "disposing", "failed", "closed"}]
    BY <2>4
  <2>. QED BY <1>13, <2>2, <2>3, <2>5 DEF GatherEnds
<1>14. ASSUME NEW p \in Process, Dispose(p) PROVE TypeOK'
  <2>1. current[p] \in 1..MaxAttempts
    BY <1>14 DEF Dispose, ClosedForGood
  <2>2. result' \in [Process -> [1..MaxAttempts -> {"pending", "failed", "closed"}]]
    <3>1. PICK outcome \in {"closed", "failed"} :
            result' = [result EXCEPT ![p][current[p]] = outcome]
      BY <1>14 DEF Dispose
    <3>2. result \in [Process -> [1..MaxAttempts -> {"pending", "failed", "closed"}]]
      OBVIOUS
    <3>. HIDE DEF IInv, TypeOK
    <3>. QED BY <2>1, <3>1, <3>2, EntryReplaced
  <2>3. attempt' \in [Process -> {"none", "created", "gathering", "disposing", "failed", "closed"}]
    <3>1. PICK outcome \in {"closed", "failed"} : attempt' = [attempt EXCEPT ![p] = outcome]
      BY <1>14 DEF Dispose
    <3>. QED BY <3>1
  <2>. QED BY <1>14, <2>2, <2>3 DEF Dispose, ReleaseLock
<1>. QED BY <1>1, <1>2, <1>3, <1>4, <1>5, <1>6, <1>7, <1>8, <1>9, <1>10, <1>11, <1>12,
     <1>13, <1>14 DEF Next, Startup, Attempt

\* A process keeps nothing at work before it runs and after it ends.
LEMMA StartableStep == ASSUME IInv, Next PROVE Startable'
<1>. USE DEF IInv, TypeOK, Startable, KeepsOwnership, PartsEnded, ClosedForGood
<1>1. ASSUME NEW p \in Process, Acquire(p) PROVE Startable'
  BY <1>1 DEF Acquire
<1>2. ASSUME NEW p \in Process, CreateEngine(p) PROVE Startable'
  BY <1>2 DEF CreateEngine, ReleaseLock
<1>3. ASSUME NEW p \in Process, CheckReadiness(p) PROVE Startable'
  BY <1>3 DEF CheckReadiness
<1>4. ASSUME NEW p \in Process, UndoStartup(p) PROVE Startable'
  BY <1>4 DEF UndoStartup, ReleaseLock
<1>5. ASSUME NEW p \in Process, Work(p) PROVE Startable'
  <2>1. /\ life[p] = "running"
        /\ UNCHANGED <<lock, life, engine, stage, sampler, monitorClose, attempt>>
    BY <1>5 DEF Work
  <2>2. Startable
    OBVIOUS
  <2>. HIDE DEF IInv, TypeOK, KeepsOwnership, PartsEnded, ClosedForGood
  <2>. QED BY <1>5, <2>1, <2>2, WorkEffect
<1>6. ASSUME NEW p \in Process, SampleStarts(p) \/ SamplerEnds(p) PROVE Startable'
  BY <1>6 DEF SampleStarts, SamplerEnds
<1>7. ASSUME NEW p \in Process, Die(p) PROVE Startable'
  BY <1>7 DEF Die
<1>8. ASSUME NEW p \in Process, NEW c \in Caller, CallClose(p, c) PROVE Startable'
  BY <1>8 DEF CallClose, Due
<1>9. ASSUME NEW p \in Process, NEW c \in Caller, CancelCaller(p, c) PROVE Startable'
  BY <1>9 DEF CancelCaller
<1>10. ASSUME NEW p \in Process, NEW c \in Caller, Return(p, c) PROVE Startable'
  BY <1>10 DEF Return
<1>11. ASSUME NEW p \in Process, StartAttempt(p) \/ MonitorCloses(p) PROVE Startable'
  BY <1>11 DEF StartAttempt, MonitorCloses
<1>12. ASSUME NEW p \in Process, MonitorDecides(p) \/ DrainDecides(p) PROVE Startable'
  BY <1>12 DEF MonitorDecides, DrainDecides, Decide
<1>13. ASSUME NEW p \in Process, GatherEnds(p) PROVE Startable'
  BY <1>13 DEF GatherEnds, Succeeded
<1>14. ASSUME NEW p \in Process, Dispose(p) PROVE Startable'
  BY <1>14 DEF Dispose, ReleaseLock
<1>. QED BY <1>1, <1>2, <1>3, <1>4, <1>5, <1>6, <1>7, <1>8, <1>9, <1>10, <1>11, <1>12, <1>13, <1>14
     DEF Next, Startup, Attempt

\* A running process keeps the lock as long as its engine is open.
LEMMA KeepsOwnershipStep == ASSUME IInv, Next PROVE KeepsOwnership'
<1>. USE DEF IInv, TypeOK, Startable, KeepsOwnership, PartsEnded, ClosedForGood
<1>1. ASSUME NEW p \in Process, Acquire(p) PROVE KeepsOwnership'
  BY <1>1 DEF Acquire
<1>2. ASSUME NEW p \in Process, CreateEngine(p) PROVE KeepsOwnership'
  BY <1>2 DEF CreateEngine, ReleaseLock
<1>3. ASSUME NEW p \in Process, CheckReadiness(p) PROVE KeepsOwnership'
  BY <1>3 DEF CheckReadiness
<1>4. ASSUME NEW p \in Process, UndoStartup(p) PROVE KeepsOwnership'
  BY <1>4 DEF UndoStartup, ReleaseLock
<1>5. ASSUME NEW p \in Process, Work(p) PROVE KeepsOwnership'
  BY <1>5 DEF Work
<1>6. ASSUME NEW p \in Process, SampleStarts(p) \/ SamplerEnds(p) PROVE KeepsOwnership'
  BY <1>6 DEF SampleStarts, SamplerEnds
<1>7. ASSUME NEW p \in Process, Die(p) PROVE KeepsOwnership'
  BY <1>7 DEF Die
<1>8. ASSUME NEW p \in Process, NEW c \in Caller, CallClose(p, c) PROVE KeepsOwnership'
  BY <1>8 DEF CallClose, Due
<1>9. ASSUME NEW p \in Process, NEW c \in Caller, CancelCaller(p, c) PROVE KeepsOwnership'
  BY <1>9 DEF CancelCaller
<1>10. ASSUME NEW p \in Process, NEW c \in Caller, Return(p, c) PROVE KeepsOwnership'
  BY <1>10 DEF Return
<1>11. ASSUME NEW p \in Process, StartAttempt(p) \/ MonitorCloses(p) PROVE KeepsOwnership'
  BY <1>11 DEF StartAttempt, MonitorCloses
<1>12. ASSUME NEW p \in Process, MonitorDecides(p) \/ DrainDecides(p) PROVE KeepsOwnership'
  BY <1>12 DEF MonitorDecides, DrainDecides, Decide
<1>13. ASSUME NEW p \in Process, GatherEnds(p) PROVE KeepsOwnership'
  BY <1>13 DEF GatherEnds, Succeeded
<1>14. ASSUME NEW p \in Process, Dispose(p) PROVE KeepsOwnership'
  BY <1>14 DEF Dispose, ReleaseLock
<1>. QED BY <1>1, <1>2, <1>3, <1>4, <1>5, <1>6, <1>7, <1>8, <1>9, <1>10, <1>11, <1>12, <1>13, <1>14
     DEF Next, Startup, Attempt

\* What an attempt has found to have ended does not begin again.
LEMMA PartsEndedStep == ASSUME IInv, Next PROVE PartsEnded'
<1>. USE DEF IInv, TypeOK, Startable, KeepsOwnership, PartsEnded, ClosedForGood
<1>1. ASSUME NEW p \in Process, Acquire(p) PROVE PartsEnded'
  BY <1>1 DEF Acquire
<1>2. ASSUME NEW p \in Process, CreateEngine(p) PROVE PartsEnded'
  BY <1>2 DEF CreateEngine, ReleaseLock
<1>3. ASSUME NEW p \in Process, CheckReadiness(p) PROVE PartsEnded'
  <2>1. monitorClose[p] = "none"
    BY <1>3 DEF CheckReadiness
  <2>. QED BY <1>3, <2>1 DEF CheckReadiness
<1>4. ASSUME NEW p \in Process, UndoStartup(p) PROVE PartsEnded'
  BY <1>4 DEF UndoStartup, ReleaseLock
<1>5. ASSUME NEW p \in Process, Work(p) PROVE PartsEnded'
  <2>1. \A q \in Process : stage[q] = "drained" => open'[q] = {}
    BY <1>5, WorkEffect
  <2>2. UNCHANGED <<stage, sampler, monitorClose, attempt, verdict>>
    BY <1>5 DEF Work
  <2>3. PartsEnded
    OBVIOUS
  <2>. HIDE DEF IInv, TypeOK, Startable, KeepsOwnership, ClosedForGood
  <2>. QED BY <2>1, <2>2, <2>3
<1>6. ASSUME NEW p \in Process, SampleStarts(p) \/ SamplerEnds(p) PROVE PartsEnded'
  BY <1>6 DEF SampleStarts, SamplerEnds
<1>7. ASSUME NEW p \in Process, Die(p) PROVE PartsEnded'
  BY <1>7 DEF Die
<1>8. ASSUME NEW p \in Process, NEW c \in Caller, CallClose(p, c) PROVE PartsEnded'
  BY <1>8 DEF CallClose, Due
<1>9. ASSUME NEW p \in Process, NEW c \in Caller, CancelCaller(p, c) PROVE PartsEnded'
  BY <1>9 DEF CancelCaller
<1>10. ASSUME NEW p \in Process, NEW c \in Caller, Return(p, c) PROVE PartsEnded'
  BY <1>10 DEF Return
<1>11. ASSUME NEW p \in Process, StartAttempt(p) \/ MonitorCloses(p) PROVE PartsEnded'
  <2>1. \A q \in Process : /\ q # p => monitorClose'[q] = monitorClose[q]
                           /\ monitorClose[q] = "done" => monitorClose'[q] = "done"
                           /\ monitorClose'[q] = "done" => sampler[q] = "off"
    BY <1>11 DEF StartAttempt, MonitorCloses
  <2>2. \A q \in Process : attempt'[q] = "disposing" => attempt[q] = "disposing"
    BY <1>11 DEF StartAttempt, MonitorCloses
  <2>. QED BY <1>11, <2>1, <2>2 DEF StartAttempt, MonitorCloses
<1>12. ASSUME NEW p \in Process, MonitorDecides(p) \/ DrainDecides(p) PROVE PartsEnded'
  <2>1. CASE MonitorDecides(p)
    <3>1. PICK outcome \in {"ok", "failed"} :
            /\ outcome = "ok" => monitorClose[p] = "done"
            /\ verdict' = [verdict EXCEPT ![p]["monitor"] = outcome]
      BY <2>1 DEF MonitorDecides, Decide
    <3>2. \A q \in Process : /\ verdict'[q]["monitor"] = "ok" => monitorClose[q] = "done"
                             /\ verdict'[q]["drain"] = verdict[q]["drain"]
      BY <3>1
    <3>3. UNCHANGED <<open, stage, sampler, monitorClose, attempt>>
      BY <2>1 DEF MonitorDecides
    <3>4. PartsEnded
      OBVIOUS
    <3>. HIDE DEF IInv, TypeOK, Startable, KeepsOwnership, ClosedForGood
    <3>. QED BY <3>2, <3>3, <3>4
  <2>2. CASE DrainDecides(p)
    <3>1. PICK outcome \in {"ok", "failed"} :
            /\ outcome = "ok" => open[p] = {} /\ stage' = [stage EXCEPT ![p] = "drained"]
            /\ outcome = "failed" => stage' = stage
            /\ verdict' = [verdict EXCEPT ![p]["drain"] = outcome]
      BY <2>2 DEF DrainDecides, Decide
    <3>2. \A q \in Process : /\ verdict'[q]["drain"] = "ok" => stage'[q] = "drained"
                             /\ verdict'[q]["monitor"] = verdict[q]["monitor"]
      BY <3>1
    <3>3. \A q \in Process : /\ stage'[q] = "drained" => open[q] = {}
                             /\ stage[q] = "drained" => stage'[q] = "drained"
      BY <3>1
    <3>4. UNCHANGED <<open, sampler, monitorClose, attempt>>
      BY <2>2 DEF DrainDecides
    <3>5. PartsEnded
      OBVIOUS
    <3>. HIDE DEF IInv, TypeOK, Startable, KeepsOwnership, ClosedForGood
    <3>. QED BY <3>2, <3>3, <3>4, <3>5
  <2>. QED BY <1>12, <2>1, <2>2
<1>13. ASSUME NEW p \in Process, GatherEnds(p) PROVE PartsEnded'
  BY <1>13 DEF GatherEnds, Succeeded
<1>14. ASSUME NEW p \in Process, Dispose(p) PROVE PartsEnded'
  BY <1>14 DEF Dispose, ReleaseLock
<1>. QED BY <1>1, <1>2, <1>3, <1>4, <1>5, <1>6, <1>7, <1>8, <1>9, <1>10, <1>11, <1>12, <1>13, <1>14
     DEF Next, Startup, Attempt

\* A success is final, and only after it a caller hears of one.
LEMMA ClosedForGoodStep == ASSUME IInv, Next PROVE ClosedForGood'
<1>. USE DEF IInv, TypeOK, Startable, KeepsOwnership, PartsEnded, ClosedForGood
<1>1. ASSUME NEW p \in Process, Acquire(p) PROVE ClosedForGood'
  BY <1>1 DEF Acquire
<1>2. ASSUME NEW p \in Process, CreateEngine(p) PROVE ClosedForGood'
  BY <1>2 DEF CreateEngine, ReleaseLock
<1>3. ASSUME NEW p \in Process, CheckReadiness(p) PROVE ClosedForGood'
  BY <1>3 DEF CheckReadiness
<1>4. ASSUME NEW p \in Process, UndoStartup(p) PROVE ClosedForGood'
  BY <1>4 DEF UndoStartup, ReleaseLock
<1>5. ASSUME NEW p \in Process, Work(p) PROVE ClosedForGood'
  BY <1>5 DEF Work
<1>6. ASSUME NEW p \in Process, SampleStarts(p) \/ SamplerEnds(p) PROVE ClosedForGood'
  BY <1>6 DEF SampleStarts, SamplerEnds
<1>7. ASSUME NEW p \in Process, Die(p) PROVE ClosedForGood'
  BY <1>7 DEF Die
<1>8. ASSUME NEW p \in Process, NEW c \in Caller, CallClose(p, c) PROVE ClosedForGood'
  BY <1>8 DEF CallClose, Due
<1>9. ASSUME NEW p \in Process, NEW c \in Caller, CancelCaller(p, c) PROVE ClosedForGood'
  BY <1>9 DEF CancelCaller
<1>10. ASSUME NEW p \in Process, NEW c \in Caller, Return(p, c) PROVE ClosedForGood'
  BY <1>10 DEF Return
<1>11. ASSUME NEW p \in Process, StartAttempt(p) \/ MonitorCloses(p) PROVE ClosedForGood'
  BY <1>11 DEF StartAttempt, MonitorCloses
<1>12. ASSUME NEW p \in Process, MonitorDecides(p) \/ DrainDecides(p) PROVE ClosedForGood'
  BY <1>12 DEF MonitorDecides, DrainDecides, Decide
<1>13. ASSUME NEW p \in Process, GatherEnds(p) PROVE ClosedForGood'
  BY <1>13 DEF GatherEnds, Succeeded
<1>14. ASSUME NEW p \in Process, Dispose(p) PROVE ClosedForGood'
  BY <1>14 DEF Dispose, ReleaseLock
<1>. QED BY <1>1, <1>2, <1>3, <1>4, <1>5, <1>6, <1>7, <1>8, <1>9, <1>10, <1>11, <1>12, <1>13, <1>14
     DEF Next, Startup, Attempt

\* The invariant is inductive.
THEOREM Inductive == Spec => []IInv
<1>1. IInv /\ [Next]_vars => IInv'
  <2>1. CASE Next
    BY <2>1, TypeStep, StartableStep, KeepsOwnershipStep, PartsEndedStep, ClosedForGoodStep
       DEF IInv
  <2>2. CASE UNCHANGED vars
    BY <2>2 DEF IInv, TypeOK, Startable, KeepsOwnership, PartsEnded, ClosedForGood
  <2>. QED BY <2>1, <2>2
<1>. QED BY InitIInv, <1>1, PTL DEF Spec

\* Two processes never use the database at once.
THEOREM Owner == Spec => []OwnerOnly
<1>1. IInv => OwnerOnly
  BY DEF IInv, TypeOK, Startable, KeepsOwnership, PartsEnded, OwnerOnly, InUse
<1>. QED BY Inductive, <1>1, PTL

\* A caller hears of a close only when everything has ended and is released.
THEOREM Truthful == Spec => []CloseTruthful
<1>1. IInv => CloseTruthful
  BY DEF IInv, KeepsOwnership, PartsEnded, ClosedForGood, CloseTruthful, InUse
<1>. QED BY Inductive, <1>1, PTL

\* An engine is disposed of when no transaction and no sample uses it.
THEOREM Disposal == Spec => DisposesQuiescent
<1>1. IInv /\ [Next]_vars => \A p \in Process :
        engine[p] = "open" /\ engine'[p] = "disposed" => open[p] = {} /\ sampler[p] # "sampling"
  <2>. SUFFICES ASSUME IInv, Next, NEW p \in Process,
                       engine[p] = "open", engine'[p] = "disposed"
                PROVE  open[p] = {} /\ sampler[p] # "sampling"
    BY DEF vars, runtimeVars
  <2>1. UndoStartup(p) \/ Dispose(p)
    BY DEF IInv, TypeOK, Next, Startup, Attempt, Acquire, CreateEngine, CheckReadiness,
         UndoStartup, Work, SampleStarts, SamplerEnds, Die, CallClose, CancelCaller, Return,
         StartAttempt, MonitorCloses, MonitorDecides, DrainDecides, GatherEnds, Dispose
  <2>. QED BY <2>1 DEF UndoStartup, Dispose, IInv, Startable, PartsEnded
<1>. QED BY Inductive, <1>1, PTL DEF Spec, DisposesQuiescent

\* Every variable stays in its range.
THEOREM Types == Spec => []TypeOK
<1>1. IInv => TypeOK
  BY DEF IInv
<1>. QED BY Inductive, <1>1, PTL

-----------------------------------------------------------------------------
(* The transactions of a process, seen as the abstract lifecycle.          *)

Life(p) == INSTANCE Lifecycle WITH Unit <- Transaction, open <- open[p], stage <- stage[p]

\* No attempt to close without a door that is closed.
DoorShut == \A p \in Process : attempt[p] # "none" => stage[p] # "serving"

\* The lifecycle of every process starts and moves as Lifecycle says, until the
\* process ends and takes its transactions with it.
FollowsLifecycle ==
    /\ \A p \in Process : Life(p)!Init
    /\ [][\A p \in Process : life'[p] # "exited" =>
            Life(p)!Next \/ UNCHANGED <<open[p], stage[p]>>]_vars

\* The first attempt closes the door, and nothing but the end opens it again.
LEMMA DoorStep == ASSUME IInv, DoorShut, Next PROVE DoorShut'
<1>. USE DEF IInv, TypeOK, Startable, DoorShut
<1>1. ASSUME NEW p \in Process, Startup(p) PROVE DoorShut'
  BY <1>1 DEF Startup, Acquire, CreateEngine, CheckReadiness, UndoStartup
<1>2. ASSUME NEW p \in Process, Work(p) \/ SampleStarts(p) \/ SamplerEnds(p) PROVE DoorShut'
  BY <1>2 DEF Work, SampleStarts, SamplerEnds
<1>3. ASSUME NEW p \in Process, Die(p) PROVE DoorShut'
  BY <1>3 DEF Die
<1>4. ASSUME NEW p \in Process, NEW c \in Caller, CallClose(p, c) PROVE DoorShut'
  <2>1. /\ stage'[p] # "serving" \/ UNCHANGED <<attempt, stage>>
        /\ \A q \in Process : q # p => attempt'[q] = attempt[q] /\ stage'[q] = stage[q]
    <3>1. CASE Due(p)
      BY <1>4, <3>1 DEF CallClose, Due
    <3>2. CASE ~Due(p)
      BY <1>4, <3>2 DEF CallClose
    <3>. QED BY <3>1, <3>2
  <2>. QED BY <2>1
<1>5. ASSUME NEW p \in Process, NEW c \in Caller, CancelCaller(p, c) \/ Return(p, c)
      PROVE  DoorShut'
  BY <1>5 DEF CancelCaller, Return
<1>6. ASSUME NEW p \in Process, StartAttempt(p) \/ MonitorCloses(p) \/ MonitorDecides(p)
      PROVE  DoorShut'
  BY <1>6 DEF StartAttempt, MonitorCloses, MonitorDecides, Decide
<1>7. ASSUME NEW p \in Process, DrainDecides(p) PROVE DoorShut'
  BY <1>7 DEF DrainDecides, Decide
<1>8. ASSUME NEW p \in Process, GatherEnds(p) \/ Dispose(p) PROVE DoorShut'
  BY <1>8 DEF GatherEnds, Dispose
<1>. QED BY <1>1, <1>2, <1>3, <1>4, <1>5, <1>6, <1>7, <1>8 DEF Next, Attempt

\* A step of one process leaves the lifecycle of another alone, and is a step
\* of its own or none.
LEMMA LifeStep ==
  ASSUME IInv, DoorShut, Next, NEW p \in Process, life'[p] # "exited"
  PROVE  Life(p)!Next \/ UNCHANGED <<open[p], stage[p]>>
<1>. USE DEF IInv, TypeOK, DoorShut
<1>1. ASSUME NEW q \in Process, Startup(q) PROVE UNCHANGED <<open[p], stage[p]>>
  BY <1>1 DEF Startup, Acquire, CreateEngine, CheckReadiness, UndoStartup
<1>2. ASSUME NEW q \in Process, Work(q)
      PROVE  Life(p)!Next \/ UNCHANGED <<open[p], stage[p]>>
  <2>1. PICK t \in Transaction :
          \/ t \in open[q] /\ open' = [open EXCEPT ![q] = open[q] \ {t}]
          \/ stage[q] = "serving" /\ open' = [open EXCEPT ![q] = open[q] \cup {t}]
    BY <1>2 DEF Work
  <2>2. stage' = stage
    BY <1>2 DEF Work
  <2>3. CASE q # p
    BY <2>1, <2>2, <2>3
  <2>4. CASE q = p /\ t \in open[q] /\ open' = [open EXCEPT ![q] = open[q] \ {t}]
    <3>1. open'[p] = open[p] \ {t}
      BY <2>4
    <3>. QED BY <2>2, <3>1 DEF Life!Next, Life!End
  <2>5. CASE q = p /\ stage[q] = "serving" /\ open' = [open EXCEPT ![q] = open[q] \cup {t}]
    <3>1. open'[p] = open[p] \cup {t} /\ open[p] \in SUBSET Transaction
      BY <2>5
    <3>. QED BY <2>2, <2>5, <3>1 DEF Life!Next, Life!Start
  <2>. QED BY <2>1, <2>3, <2>4, <2>5
<1>3. ASSUME NEW q \in Process, SampleStarts(q) \/ SamplerEnds(q) \/ MonitorCloses(q)
      PROVE  UNCHANGED <<open[p], stage[p]>>
  BY <1>3 DEF SampleStarts, SamplerEnds, MonitorCloses
<1>4. ASSUME NEW q \in Process, Die(q) PROVE UNCHANGED <<open[p], stage[p]>>
  BY <1>4 DEF Die
<1>5. ASSUME NEW q \in Process, NEW c \in Caller, CallClose(q, c)
      PROVE  Life(p)!Next \/ UNCHANGED <<open[p], stage[p]>>
  BY <1>5 DEF CallClose, Due, Life!Next, Life!CloseDoor
<1>6. ASSUME NEW q \in Process, NEW c \in Caller, CancelCaller(q, c) \/ Return(q, c)
      PROVE  UNCHANGED <<open[p], stage[p]>>
  BY <1>6 DEF CancelCaller, Return
<1>7. ASSUME NEW q \in Process, StartAttempt(q) \/ MonitorDecides(q) \/ GatherEnds(q) \/ Dispose(q)
      PROVE  UNCHANGED <<open[p], stage[p]>>
  BY <1>7 DEF StartAttempt, MonitorDecides, GatherEnds, Dispose
<1>8. ASSUME NEW q \in Process, DrainDecides(q)
      PROVE  Life(p)!Next \/ UNCHANGED <<open[p], stage[p]>>
  BY <1>8 DEF DrainDecides, Decide, Life!Next, Life!Quiesce
<1>. QED BY <1>1, <1>2, <1>3, <1>4, <1>5, <1>6, <1>7, <1>8 DEF Next, Attempt

\* What close relies on is what UnitOfWork is shown to implement: a process's
\* transactions start only before its shutdown, and a drain that succeeded has
\* found none open and is final.
THEOREM Contract == Spec => FollowsLifecycle
<1>1. Init => DoorShut /\ \A p \in Process : Life(p)!Init
  BY DEF Init, DoorShut, Life!Init
<1>2. IInv /\ DoorShut /\ [Next]_vars => DoorShut'
  <2>1. CASE Next
    BY <2>1, DoorStep
  <2>2. CASE UNCHANGED vars
    BY <2>2 DEF DoorShut
  <2>. QED BY <2>1, <2>2
<1>3. IInv /\ DoorShut /\ [Next]_vars =>
        [\A p \in Process : life'[p] # "exited" =>
            Life(p)!Next \/ UNCHANGED <<open[p], stage[p]>>]_vars
  BY LifeStep
<1>. QED BY Inductive, <1>1, <1>2, <1>3, PTL DEF Spec, FollowsLifecycle
=============================================================================
