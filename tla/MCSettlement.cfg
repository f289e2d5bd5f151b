CONSTANTS
    Tasks = {t1}
    ResponseStatuses = {"complete", "needs_review", "blocked", "invalid"}
    ReceiptOutcomes = {"complete", "needs_review", "failed", "cancelled", "quarantine"}
SPECIFICATION Spec
INVARIANTS
    TypeOK
    ReviewHold
    AutoCloseJustified
    ReopenedStaysOpen
PROPERTIES
    SettlementOutranksReceipts
    ClosedLeavesOnlyByRepair
