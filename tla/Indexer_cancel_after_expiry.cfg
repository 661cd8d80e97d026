SPECIFICATION LoopFairSpec
CONSTANTS
    a = a
    Null = Null
    Recipients = {a}
    Slots = {l1}
    FinalityDepth = 0
    PageLimit = 2
    EndLedger <- MCEndLedger
    LedgerContents <- CancelLedgers
    CursorRow = TRUE
    LedgerFetchMayFail = FALSE
    MaxLedger = 2
    MaxFaults = 0
PROPERTY TransactionCommits
