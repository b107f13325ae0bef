SPECIFICATION Spec
CONSTANTS
    Requests = {q1, q2}
    Keys = {k1, k2}
    NativeKeyed = {k2}
    None = None
SYMMETRY Symmetry
VIEW View
INVARIANTS
    TypeOK
    OneLiveTrade
    SupersededNeverCharged
    SupersededIsClosed
