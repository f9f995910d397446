CONSTANTS
    o1 = o1
    o2 = o2
    t1 = t1
    t2 = t2
    p1 = p1
    p2 = p2
    p3 = p3
    Global = Global
    NoPolicy = NoPolicy
    NoProposal = NoProposal
    NoOperator = NoOperator
    Operator <- MCOperators
    Target <- MCOneTarget
    ProposalId <- MCOneProposal
    Amount = {1}
    Policies <- MCExpiryPolicies
    Day = 2
    MaxClock = 3
    ClockSteps <- MCForward
    MaxLag = 1
    Changeable = {}
    Operations <- MCAllOperations
SPECIFICATION Spec
PROPERTY ApprovedInTime
CHECK_DEADLOCK FALSE
