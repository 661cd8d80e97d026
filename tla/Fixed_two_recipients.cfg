SPECIFICATION HSpec
CONSTANTS
    s1 = s1
    s2 = s2
    Sponsors = {s1}
    Recipients = {r1, r2}
    Vault = Vault
    Treasury = Treasury
    NoRow = NoRow
    U32Max = 8
    MaxLedger = 7
    FirstLedger = 3
    CreateArgs <- MCTwoArgs
    LegacyRows <- MCLegacyRows
    VaultFunds = 100
    SponsorFunds = 8
    RateDecimals = 10
    DrainDelay = 1
    MaxFeeBps = 500
    FeeChoices = {}
    Settings <- MCGovernance
    ClawbackEnabled = TRUE
INVARIANTS
    AccrualInvariant
    IndexComplete
CHECK_DEADLOCK FALSE
