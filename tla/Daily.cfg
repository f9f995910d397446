CONSTANTS
    p1 = p1
    i1 = i1
    i2 = i2
    i3 = i3
    NoRow = NoRow
    NoIntent = NoIntent
    Interaction <- MCThreeInteractions
    Player <- MCOnePlayer
    Reward = 1
    Day = 2
    Retention = 2
    MaxClock = 3
    ClockSteps <- MCForward
    MaxLag = 1
    CleanupLimit = 1
SPECIFICATION Spec
SYMMETRY InteractionSymmetry
INVARIANT OneRewardPerDay
PROPERTY CreditedInItsDay
INVARIANT RewardsExplained
PROPERTY ReplaysExact
PROPERTY KeepsPromise
CHECK_DEADLOCK FALSE
