SPECIFICATION FairSpec
CONSTANTS
    Refunds = {r1}
    Handlers = {h1, h2}
    Workers = {w1}
    RetryKeys = {k1}
    MaxRequests = 3
    Misrouted = {"processing", "succeeded", "failed"}
    None = None
CHECK_DEADLOCK FALSE
INVARIANTS
    TypeOK
    ClaimedBeforeCalled
    SuccessAuditedOnce
PROPERTY
    ImplementsPayoutLedger
    SettledRefundIsClosed
