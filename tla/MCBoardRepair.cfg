CONSTANTS
    Tasks = {t1}
    ResponseStatuses = {"complete", "needs_review", "needs_human", "blocked"}
    ReceiptOutcomes = {"complete", "needs_review", "needs_human", "blocked", "cancelled", "failed", "denied", "quarantine"}
SPECIFICATION SettlingBoardSpec
PROPERTIES
    RepairedRowSettles
