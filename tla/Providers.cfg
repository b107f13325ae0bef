SPECIFICATION Spec
CONSTANTS
    Kinds = {"stripe", "alipay", "wechat_pay", "paypal"}
    Refunds = {r1, r2}
    RetryAttempts = 3
    MaxInFlight = 3
    None = None
CHECK_DEADLOCK FALSE
SYMMETRY Symmetry
VIEW Unreconciled
INVARIANTS
    TypeOK
    OneRefundPerNumber
    SettledAttemptIsTrue
PROPERTIES
    AbsentRefundIsAbsent
    ImplementsPayoutLedger
