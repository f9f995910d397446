CONSTANTS
    o1 = o1
    o2 = o2
    t1 = t1
    t2 = t2
    p1 = p1
    p2 = p2
    p3 = p3
    Global = Global
    NoPolicy = NoPolicy
    NoProposal = NoProposal
    NoOperator = NoOperator
    Operator <- MCOperators
    Target <- MCTargets
    ProposalId <- MCTwoProposals
    Amount = {1}
    Policies <- MCGrantPolicies
    Day = 1
    MaxClock = 1
    ClockSteps <- MCForward
    MaxLag = 0
    Changeable <- MCChanges
    Operations <- MCAllOperations
SPECIFICATION Spec
SYMMETRY PairSymmetry
INVARIANT TwoPersonRule
PROPERTY IssuedOnStandingAuthority
PROPERTY SettledForGood
INVARIANT CorrectionsBounded
INVARIANT WalletsExplained
CHECK_DEADLOCK FALSE
