SPECIFICATION Spec
CONSTANTS
    own = own
    inherited = inherited
    foreign = foreign
    c1 = c1
    k1 = k1
    Accounts = {own, inherited, foreign}
    Channels = {c1}
    Attempts = {k1}
    Clients = {q1}
    Admins = {u1}
    OrgOf <- MCOrgOf
    Platform = "0"
    Deployment = Deployment
    None = None
INVARIANTS
    ServedByItsChannel
    UnreboundStaysReachable
CHECK_DEADLOCK FALSE
