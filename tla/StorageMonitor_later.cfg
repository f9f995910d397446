CONSTANTS
    t1 = t1
    t2 = t2
    Txn <- MCOneTxn
    MaxChanges = 1
SPECIFICATION Spec
PROPERTY SafeOnlyAfterLaterSample
