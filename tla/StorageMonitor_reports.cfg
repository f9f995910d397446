CONSTANTS
    t1 = t1
    t2 = t2
    Txn <- MCTxns
    MaxChanges = 2
SPECIFICATION FairSpec
INVARIANT ReportsInOrder
PROPERTY Recovers
PROPERTY NoticesLoss
