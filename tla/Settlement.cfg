SPECIFICATION Spec
CONSTANTS
    order = order
    Orders <- MCOrders
    OrderOf <- MCOrderOf
    Intents = {i1, i2}
    Attempts = {a1, a2}
    Events = {e1, e2}
    MaxReplays = 1
    None = None
SYMMETRY Symmetry
INVARIANTS
    TypeOK
    SettledTogether
    PaidAtMarksSuccess
    SettlementIsNotified
PROPERTY
    ImplementsCaptureLedger
