SPECIFICATION Spec
CONSTANTS
    a = a
    Null = Null
    Recipients = {a}
    Slots = {l1}
    FinalityDepth = 1
    PageLimit = 2
    EndLedger <- MCEndLedger
    LedgerContents <- ClaimLedgers
    CursorRow = TRUE
    LedgerFetchMayFail = FALSE
    MaxLedger = 2
    MaxFaults = 0
INVARIANT NoEventLost
