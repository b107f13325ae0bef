CONSTANTS
    r1 = r1
    r2 = r2
    r3 = r3
    x1 = x1
    h1 = h1
    h2 = h2
    Checkouts = {r1, r2, r3}
    Others = {x1}
    Hosts = {h1, h2}
    HostOf <- MCHostOf
    Orders = {1, 2}
    MaxConnections = 2
    NoOrder = NoOrder
SPECIFICATION FairPoolSpec
INVARIANTS
    CheckoutsFit
    OneOfTwoFails
PROPERTY
    CheckoutsEnd
