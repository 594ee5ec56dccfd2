SPECIFICATION FairRecSpec
CONSTANTS
    None = None
    Users = {ann, bob}
    Workflows = {"inventory.reconciliation.approve", "inventory.reconciliation.reject"}
    Ids = {i1}
    Requests = {r1}
    Daemons = {s1}
    Workers = {w1}
    RoleOf <- MCRoleOf
    Recs = {k1}
PROPERTY DecidedReviewIsSettled
CHECK_DEADLOCK FALSE
