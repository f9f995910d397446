SPECIFICATION Spec
CONSTANTS
    Id <- MCId
    PageSize = 2
    Amount <- MCAmount
    ClockSteps <- MCClockSteps
    MaxClock = 1
    None = None
INVARIANT NothingLost
INVARIANT PagesDescend
INVARIANT StatementAddsUp
