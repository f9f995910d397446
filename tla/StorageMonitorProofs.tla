------------------------ MODULE StorageMonitorProofs ------------------------
(***************************************************************************)
(* That the events of the safe flag are the history of the flag, for any   *)
(* number of transactions and of changes of the storage.                   *)
(***************************************************************************)
EXTENDS StorageMonitor, SequenceTheorems, TLAPS

\* The events telemetry received, and behind them those that still wait.
History == emitted \o pending

\* Unsafe and safe alternate from the initial safe on, up to value.
Alternates(h, value) ==
    /\ h \in Seq(BOOLEAN)
    /\ \A i \in 1..Len(h) : h[i] = (i % 2 = 0)
    /\ value = (Len(h) % 2 = 0)

Flag == /\ safe \in BOOLEAN
        /\ pending \in Seq(BOOLEAN) /\ emitted \in Seq(BOOLEAN)
        /\ Alternates(History, safe)

-----------------------------------------------------------------------------
(* Sequences                                                                 *)

\* A queue is what leaves it and what stays.
LEMMA QueueSplits ==
    ASSUME NEW S, NEW q \in Seq(S), NEW n \in 0..Len(q)
    PROVE  /\ SubSeq(q, 1, n) \in Seq(S) /\ SubSeq(q, n + 1, Len(q)) \in Seq(S)
           /\ SubSeq(q, 1, n) \o SubSeq(q, n + 1, Len(q)) = q
<1>. DEFINE a == SubSeq(q, 1, n)
            b == SubSeq(q, n + 1, Len(q))
<1>1. /\ a \in Seq(S) /\ Len(a) = n
      /\ \A i \in 1..n : a[i] = q[i]
      OBVIOUS
<1>2. /\ b \in Seq(S) /\ Len(b) = Len(q) - n
      /\ \A i \in 1..(Len(q) - n) : b[i] = q[n + i]
      OBVIOUS
<1>. HIDE DEF a, b
<1>3. a \o b \in Seq(S) /\ Len(a \o b) = Len(q)
      BY <1>1, <1>2
<1>4. ASSUME NEW i \in 1..Len(q) PROVE (a \o b)[i] = q[i]
  <2>1. (a \o b)[i] = IF i <= n THEN a[i] ELSE b[i - n]
        BY <1>1, <1>2, ConcatProperties
  <2>2. CASE i <= n
        BY <1>1, <2>1, <2>2
  <2>3. CASE ~(i <= n)
    <3>1. i - n \in 1..(Len(q) - n) /\ n + (i - n) = i
          BY <2>3
    <3>. QED BY <1>2, <2>1, <2>3, <3>1
  <2>. QED BY <2>2, <2>3
<1>5. a \o b = q
      BY <1>3, <1>4, SeqEqual
<1>. QED BY <1>1, <1>2, <1>5 DEF a, b

\* Draining moves the head of the queue over and keeps the history.
LEMMA DrainKeeps ==
    ASSUME emitted \in Seq(BOOLEAN), NEW q \in Seq(BOOLEAN), Drain(q)
    PROVE  /\ emitted' \in Seq(BOOLEAN) /\ pending' \in Seq(BOOLEAN)
           /\ History' = emitted \o q
<1>1. PICK n \in 0..Len(q) : /\ emitted' = emitted \o SubSeq(q, 1, n)
                             /\ pending' = SubSeq(q, n + 1, Len(q))
      BY DEF Drain
<1>2. PICK a \in Seq(BOOLEAN), b \in Seq(BOOLEAN) :
            a \o b = q /\ emitted' = emitted \o a /\ pending' = b
      BY <1>1, QueueSplits
<1>3. (emitted \o a) \o b = emitted \o (a \o b)
      BY ConcatAssociative
<1>. QED BY <1>2, <1>3 DEF History

LEMMA AlternatesNext ==
    ASSUME NEW h, NEW value \in BOOLEAN, Alternates(h, value)
    PROVE  Alternates(Append(h, ~value), ~value)
<1>1. h \in Seq(BOOLEAN) /\ Len(h) \in Nat /\ Append(h, ~value) \in Seq(BOOLEAN)
      BY DEF Alternates
<1>2. /\ Len(Append(h, ~value)) = Len(h) + 1
      /\ Append(h, ~value)[Len(h) + 1] = (~value)
      /\ \A i \in 1..Len(h) : Append(h, ~value)[i] = h[i]
      BY <1>1
<1>3. (Len(h) + 1) % 2 = 0 <=> Len(h) % 2 # 0
      BY <1>1
<1>4. (~value) = ((Len(h) + 1) % 2 = 0)
      BY <1>3 DEF Alternates
<1>5. ASSUME NEW i \in 1..(Len(h) + 1) PROVE Append(h, ~value)[i] = (i % 2 = 0)
  <2>1. CASE i \in 1..Len(h)
        BY <1>2, <2>1 DEF Alternates
  <2>2. CASE i = Len(h) + 1
        BY <1>2, <1>4, <2>2
  <2>. QED BY <1>1, <2>1, <2>2
<1>. QED BY <1>1, <1>2, <1>4, <1>5 DEF Alternates

\* Setting the flag reports a change, and reports nothing when there is none.
LEMMA SetSafeKeeps ==
    ASSUME Flag, NEW ok \in BOOLEAN, SetSafe(ok)
    PROVE  Flag'
<1>1. safe' = ok /\ emitted \in Seq(BOOLEAN) /\ pending \in Seq(BOOLEAN) /\ safe \in BOOLEAN
      BY DEF SetSafe, Flag
<1>2. CASE ok = safe
  <2>1. /\ emitted' \in Seq(BOOLEAN) /\ pending' \in Seq(BOOLEAN)
        /\ History' = History
        BY <1>1, <1>2, DrainKeeps DEF SetSafe, History
  <2>. QED BY <1>1, <1>2, <2>1 DEF Flag
<1>3. CASE ok # safe
  <2>1. ok = (~safe) /\ Append(pending, ok) \in Seq(BOOLEAN) /\ Drain(Append(pending, ok))
        BY <1>1, <1>3 DEF SetSafe
  <2>2. /\ emitted' \in Seq(BOOLEAN) /\ pending' \in Seq(BOOLEAN)
        /\ History' = emitted \o Append(pending, ok)
        BY <1>1, <2>1, DrainKeeps
  <2>3. emitted \o Append(pending, ok) = Append(History, ok)
        BY <1>1 DEF History
  <2>4. Alternates(Append(History, ~safe), ~safe)
        BY <1>1, AlternatesNext DEF Flag
  <2>. QED BY <1>1, <2>1, <2>2, <2>3, <2>4 DEF Flag
<1>. QED BY <1>2, <1>3

-----------------------------------------------------------------------------
(* Every writer of the flag goes through SetSafe.                            *)

LEMMA FlagStep ==
    ASSUME [Next]_vars
    PROVE  UNCHANGED safeVars \/ \E ok \in BOOLEAN : SetSafe(ok)
<1>1. Sampling => UNCHANGED safeVars \/ \E ok \in BOOLEAN : SetSafe(ok)
      BY DEF Sampling, SampleStart, SampleConnect, SampleEnds, SamplerStops
<1>2. MarkUnsafe => \E ok \in BOOLEAN : SetSafe(ok)
      BY DEF MarkUnsafe
<1>3. \A t, passed : Verify(t, passed) => UNCHANGED safeVars \/ MarkUnsafe
      BY DEF Verify
<1>4. \A t : Admit(t) \/ PreCommit(t) => UNCHANGED safeVars \/ MarkUnsafe
      BY <1>3 DEF Admit, PreCommit
<1>5. \A t : Evaluate(t) \/ Commit(t) => UNCHANGED safeVars
      BY DEF Evaluate, Commit
<1>6. \A t : Confirm(t) \/ Close(t) => UNCHANGED safeVars \/ MarkUnsafe
      BY DEF Confirm, Close
<1>7. Stop \/ StorageChanges \/ TelemetryChanges \/ UNCHANGED vars => UNCHANGED safeVars
      BY DEF Stop, StorageChanges, TelemetryChanges, vars
<1>. QED BY <1>1, <1>2, <1>4, <1>5, <1>6, <1>7 DEF Next

LEMMA Flags == Spec => []Flag
<1>1. Init => Flag
  <2>. SUFFICES ASSUME Init PROVE Flag
       OBVIOUS
  <2>1. <<>> \in Seq(BOOLEAN) /\ Len(<<>>) = 0
        BY EmptySeq
  <2>2. emitted = <<>> /\ pending = <<>> /\ safe = TRUE
        BY DEF Init
  <2>3. History = <<>>
        BY <2>1, <2>2, ConcatEmptySeq DEF History
  <2>4. (0 % 2 = 0) = TRUE /\ 1..0 = {}
        OBVIOUS
  <2>. QED BY <2>1, <2>2, <2>3, <2>4 DEF Flag, Alternates
<1>2. ASSUME Flag, [Next]_vars PROVE Flag'
  <2>1. CASE UNCHANGED safeVars
        BY <1>2, <2>1 DEF Flag, History, safeVars
  <2>. QED BY <1>2, <2>1, FlagStep, SetSafeKeeps
<1>. QED BY <1>1, <1>2, PTL DEF Spec

\* However samples, transactions and failures of the telemetry sink interleave: the
\* events it received, followed by those still queued, alternate, and the last one
\* is the present value of the flag.
THEOREM Reports == Spec => []ReportsInOrder
<1>1. Flag => ReportsInOrder
      BY DEF Flag, Alternates, History, ReportsInOrder
<1>. QED BY <1>1, Flags, PTL

-----------------------------------------------------------------------------
(* Types                                                                     *)

LEMMA TypeStep ==
    ASSUME TypeOK, Flag', [Next]_vars
    PROVE  TypeOK'
<1>1. safe' \in BOOLEAN /\ pending' \in Seq(BOOLEAN) /\ emitted' \in Seq(BOOLEAN)
      BY DEF Flag
<1>2. ASSUME NEW t \in Txn, NEW passed \in TxnStates, Verify(t, passed)
      PROVE  txn' \in [Txn -> TxnStates] /\ stale' \in BOOLEAN
      BY <1>2 DEF Verify, MarkUnsafe, TypeOK, TxnStates
<1>3. ASSUME NEW t \in Txn, Admit(t) \/ PreCommit(t) PROVE TypeOK'
      BY <1>1, <1>2, <1>3 DEF Admit, PreCommit, TypeOK, envVars, TxnStates
<1>4. ASSUME NEW t \in Txn, Evaluate(t) \/ Commit(t) PROVE TypeOK'
      BY <1>1, <1>4 DEF Evaluate, Commit, TypeOK, envVars, TxnStates
<1>5. ASSUME NEW t \in Txn, Confirm(t) \/ Close(t) PROVE TypeOK'
  <2>1. stale' \in BOOLEAN
        BY <1>5 DEF Confirm, Close, MarkUnsafe, TypeOK
  <2>. QED BY <1>1, <1>5, <2>1 DEF Confirm, Close, TypeOK, envVars, TxnStates
<1>6. CASE Sampling
      BY <1>1, <1>6 DEF Sampling, SampleStart, SampleConnect, SampleEnds, SamplerStops,
                        TypeOK, envVars, SamplerStates
<1>7. CASE Stop
      BY <1>1, <1>7 DEF Stop, TypeOK, envVars
<1>8. CASE StorageChanges
      BY <1>1, <1>8, ChangesAssumption DEF StorageChanges, TypeOK
<1>9. CASE TelemetryChanges
      BY <1>1, <1>9 DEF TelemetryChanges, TypeOK
<1>10. CASE UNCHANGED vars
      BY <1>1, <1>10 DEF vars, envVars, TypeOK
<1>. QED BY <1>3, <1>4, <1>5, <1>6, <1>7, <1>8, <1>9, <1>10 DEF Next

\* Every variable stays in its range.
THEOREM Types == Spec => []TypeOK
<1>1. Init => TypeOK
  <2>1. Init => pending \in Seq(BOOLEAN) /\ emitted \in Seq(BOOLEAN)
        BY EmptySeq DEF Init
  <2>2. Init => safe \in BOOLEAN /\ stop \in BOOLEAN /\ stale \in BOOLEAN /\ telemetryUp \in BOOLEAN
        BY DEF Init
  <2>3. Init => changes \in 0..MaxChanges
        BY ChangesAssumption DEF Init
  <2>. QED BY <2>1, <2>2, <2>3 DEF Init, TypeOK, StorageStates, SamplerStates, TxnStates
<1>. QED BY <1>1, TypeStep, Flags, PTL DEF Spec
=============================================================================
