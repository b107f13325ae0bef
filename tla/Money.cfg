CONSTANTS
    Amounts <- MCAmounts
    None = None
SPECIFICATION Spec
VIEW View
CHECK_DEADLOCK FALSE
INVARIANTS
    ChargeIsMeant
    HonestNoticeSettles
    ForeignNoticeRefused
    RefundNoticeMatches
