SPECIFICATION JobFairSpec
CONSTANTS
    a = a
    Null = Null
    Recipients = {a}
    Slots = {l1}
    FinalityDepth = 0
    PageLimit = 1
    EndLedger <- MCEndLedger
    LedgerContents <- MCLedgerContents
    CursorRow = TRUE
    LedgerFetchMayFail = FALSE
    MaxLedger = 2
    MaxFaults = 1
PROPERTY EventuallyReconciled
