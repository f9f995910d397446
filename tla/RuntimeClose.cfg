\* Two incarnations, each with two callers of close and three attempts.
CONSTANTS
    Process = {first, second}
    Transaction = {t1, t2}
    Caller = {c1, c2}
    MaxAttempts = 3
    Closing = {first}
    NoProcess = NoProcess
SPECIFICATION FairSpec
CHECK_DEADLOCK FALSE
INVARIANT OwnerOnly
INVARIANT CloseTruthful
PROPERTY DisposesQuiescent
PROPERTY CloseReturns
