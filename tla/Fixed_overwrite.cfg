SPECIFICATION HSpec
CONSTANTS
    s1 = s1
    s2 = s2
    Sponsors = {s1}
    Recipients = {r1, r2}
    Vault = Vault
    Treasury = Treasury
    NoRow = NoRow
    U32Max = 10
    MaxLedger = 9
    FirstLedger = 3
    CreateArgs <- MCCreateArgs
    LegacyRows <- MCLegacyRows
    VaultFunds = 400
    SponsorFunds = 60
    RateDecimals = 10
    DrainDelay = 1
    MaxFeeBps = 500
    FeeChoices = {0, 500}
    Settings <- MCSettings
    ClawbackEnabled = TRUE
PROPERTY CreateNeverOverwrites
CHECK_DEADLOCK FALSE
