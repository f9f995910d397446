-------------------------- MODULE MCStorageMonitor --------------------------
(* Small instances of StorageMonitor for TLC. *)
EXTENDS StorageMonitor, TLC

CONSTANTS t1, t2

MCTxns == {t1, t2}
MCOneTxn == {t1}

\* Transactions are interchangeable.
TxnSymmetry == Permutations(MCTxns)
=============================================================================
