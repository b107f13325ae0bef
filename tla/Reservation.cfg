SPECIFICATION Spec
CONSTANTS
    r1 = r1
    r2 = r2
    r3 = r3
    a1 = a1
    a2 = a2
    Refunds <- MCRefunds
    Amount <- MCAmount
    Attempts <- MCAttempts
    Paid <- MCPaid
    Requests = {q1, q2}
    None = None
CHECK_DEADLOCK FALSE
SYMMETRY Symmetry
INVARIANTS
    SteadyRefundsFit
PROPERTY
    SucceededIsFinal
