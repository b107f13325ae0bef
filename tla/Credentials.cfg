CONSTANTS
    o1 = o1
    o2 = o2
    h1 = h1
    h2 = h2
    Accounts = {1}
    Operators = {o1, o2}
    Hosts = {h1, h2}
    Environments <- MCEnvironments
    Writes <- MCWrites
    Named <- MCNamed
    MaxCrashes = 1
    None = None
SPECIFICATION Spec
SYMMETRY Symmetric
CHECK_DEADLOCK FALSE
INVARIANTS
    TypeOK
    RotationsSerialize
    FilledOnce
    LoadsAreWhole
    PassedTestUsesAccount
    FilledNeverDeployment
