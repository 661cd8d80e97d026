SPECIFICATION VariableFairSpec
CONSTANTS
    Sponsors = {s1}
    Recipients = {r1, r2}
    Vault = Vault
    Treasury = Treasury
    NoRow = NoRow
    U32Max = 9
    MaxLedger = 8
    CliffDurations = {0, 1, 3, 9}
    SegmentLists <- MCSegmentLists
    MAX_SEGMENTS = 3
    InitialFunds = 24
INVARIANTS
    VariableInv
    VaultBacksVariable
    DefinitionsAgree
PROPERTIES
    StreamsComplete
CHECK_DEADLOCK FALSE
