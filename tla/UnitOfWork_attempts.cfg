CONSTANTS
    o1 = o1
    o2 = o2
    u1 = u1
    u2 = u2
    r1 = r1
    NoOwner = NoOwner
    NoUnit = NoUnit
    Owner <- MCOwners
    Unit <- MCMixedUnits
    ReadUnits <- MCReads
    WriterSlots = 2
    MaxRetries = 1
    Cancellable <- MCOwners
    Leaky <- MCMixedUnits
    Hanging = {}
SPECIFICATION Spec
SYMMETRY MixedSymmetry
INVARIANT SlotsAccounted
INVARIANT ResourcesTracked
INVARIANT CaptureComplete
INVARIANT TruthfulResult
INVARIANT CallbacksFollowCommit
PROPERTY ImplementsLifecycle
CHECK_DEADLOCK FALSE
