SPECIFICATION LoopFairSpec
CONSTANTS
    a = a
    Null = Null
    Recipients = {a}
    Slots = {l1, l2}
    FinalityDepth = 0
    PageLimit = 1
    EndLedger <- MCEndLedger
    LedgerContents <- ClaimLedgers
    CursorRow = TRUE
    LedgerFetchMayFail = FALSE
    MaxLedger = 2
    MaxFaults = 1
INVARIANTS
    PersistenceInv
PROPERTIES
    CatchesUp
    StopQuiesces
