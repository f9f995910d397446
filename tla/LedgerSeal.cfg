SPECIFICATION Spec
CONSTANTS
    None = None
    Global = Global
    IssuanceAdmin = IssuanceAdmin
    RetirementCorrection = RetirementCorrection
    IssuanceDaily = IssuanceDaily
    g = g
    alice = alice
    bob = bob
    wallet = wallet
    x1 = x1
    x2 = x2
    c1 = c1
    c2 = c2
    i1 = i1
    i2 = i2
    Proposal <- MCProposal
    Actor <- MCActor
    Target <- MCTarget
    Amount <- MCAmount
    MaxTargets = 2
    Tx <- MCTx
    Correlation <- MCCorrelation
    System <- MCSystem
    Period <- MCPeriod
    Interaction <- MCInteraction
    Reward = 1
    Movement <- MCMovement
    Inserted <- MCInserted
SYMMETRY MCSymmetry
INVARIANT ReceiptsExplained
INVARIANT BookedOnce
PROPERTY SealedForever
PROPERTY LegacyNeverActs
CHECK_DEADLOCK FALSE
