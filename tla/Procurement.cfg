SPECIFICATION ProcSpec
CONSTANTS
    Normal <- MCNormal
    Percent <- MCPercent
    SpikeRatio <- MCSpikeRatio
    MismatchRate <- MCMismatchRate
    SpikeHistory = 1
    MismatchHistory = 2
    WindowDays = 30
    LongDelay = 30
    Vendors = {"acme"}
    OrderForms <- MCOrders
    ReceiptForms <- MCReceipts
    InvoiceForms <- MCInvoices
    Posted = {"RECEIVED", "MATCHED", "APPROVED"}
    Configs <- MCConfigs
    Today = 90
    Reconcilers = {r1, r2}
    MaxRuns = 2
SYMMETRY MCSymmetry
INVARIANTS
    MatchedBillsWhatIsReceived
    OneRowPerFingerprint
    LastOutcomeStands
    EnginesAgree
CHECK_DEADLOCK FALSE
