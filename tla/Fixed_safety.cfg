SPECIFICATION HSpec
CONSTANTS
    s1 = s1
    s2 = s2
    Sponsors = {s1, s2}
    Recipients = {r1}
    Vault = Vault
    Treasury = Treasury
    NoRow = NoRow
    U32Max = 8
    MaxLedger = 8
    FirstLedger = 3
    CreateArgs <- MCCreateArgs
    LegacyRows <- MCLegacyRows
    VaultFunds = 100
    SponsorFunds = 6
    RateDecimals = 10
    DrainDelay = 1
    MaxFeeBps = 500
    FeeChoices = {0, 500}
    Settings <- MCSettings
    ClawbackEnabled = TRUE
INVARIANTS
    ClaimedOnlyEarned
    ViewReportsEarnings
PROPERTIES
    PayoutsExact
CHECK_DEADLOCK FALSE
