CONSTANTS
    o1 = o1
    o2 = o2
    u1 = u1
    u2 = u2
    r1 = r1
    NoOwner = NoOwner
    NoUnit = NoUnit
    Owner <- MCOwners
    Unit <- MCUnits
    ReadUnits = {}
    WriterSlots = 1
    MaxRetries = 1
    Cancellable <- MCHanging
    Leaky <- MCOneUnit
    Hanging <- MCHanging
SPECIFICATION FairSpec
INVARIANT AtMostOneCommitPerRun
PROPERTY RunsSettle
PROPERTY ShutdownQuiesces
PROPERTY DrainDecides
CHECK_DEADLOCK FALSE
