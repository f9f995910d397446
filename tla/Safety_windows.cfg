CONSTANTS
    o1 = o1
    o2 = o2
    t1 = t1
    t2 = t2
    p1 = p1
    p2 = p2
    p3 = p3
    Global = Global
    NoPolicy = NoPolicy
    NoProposal = NoProposal
    NoOperator = NoOperator
    Operator <- MCOneOperator
    Target <- MCOneTarget
    ProposalId <- MCThreeProposals
    Amount = {1, 2}
    Policies <- MCWindowPolicies
    Day = 2
    MaxClock = 5
    ClockSteps <- MCBothWays
    MaxLag = 1
    Changeable = {}
    Operations <- MCGrants
SPECIFICATION Spec
SYMMETRY ProposalSymmetry
INVARIANT GrantedOnce
PROPERTY GrantWindow
PROPERTY ProposalWindow
CHECK_DEADLOCK FALSE
