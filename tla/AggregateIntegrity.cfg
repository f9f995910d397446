SPECIFICATION Spec
CONSTANTS
    None = None
    p1 = p1
    p2 = p2
    d1 = d1
    d2 = d2
    a1 = a1
    a2 = a2
    a3 = a3
    issuance = issuance
    PlayerId <- MCPlayerId
    RowidNamed = {TRUE}
    DiscordId <- MCDiscordId
    AccountId <- MCAccountId
    SystemKey <- MCSystemKey
SYMMETRY MCSymmetry
INVARIANT SentinelComplete
INVARIANT BoundedScanSuffices
PROPERTY AlarmsOutliveHoles
