SPECIFICATION FairWorkerSpec
CONSTANTS
    Workers = {w1, w2}
    AttemptRows = {1}
    RefundRows = {2, 4}
    Foreign = {}
    TenantOf <- MCTenantOf
    OrgOf <- MCOrgOf
    DefaultOrg = "0"
    Old = {1, 2, 4}
    Sent = {1, 4}
    TenantLimit = 1
    RowLimit = 1
    MaxFaults = 1
CHECK_DEADLOCK FALSE
INVARIANTS
    WorkerTypeOK
    FreshClaimsAreDisjoint
PROPERTY
    DecisionsAreRecorded
