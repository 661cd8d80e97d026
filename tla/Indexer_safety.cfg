SPECIFICATION Spec
CONSTANTS
    a = a
    Null = Null
    Recipients = {a}
    Slots = {l1}
    FinalityDepth = 1
    PageLimit = 2
    EndLedger <- MCEndLedger
    LedgerContents <- MixedLedgers
    CursorRow = TRUE
    LedgerFetchMayFail = TRUE
    MaxLedger = 3
    MaxFaults = 2
INVARIANTS
    BalancesMatchEvents
    FinalityRespected
    CursorAfterCommit
PROPERTIES
    ForwardOnly
