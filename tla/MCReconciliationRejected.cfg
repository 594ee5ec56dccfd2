SPECIFICATION RecSpec
CONSTANTS
    None = None
    Users = {ann, bob}
    Workflows = {"inventory.reconciliation.approve", "inventory.reconciliation.reject"}
    Ids = {i1, i2}
    Requests = {r1, r2}
    Daemons = {s1}
    Workers = {}
    RoleOf <- MCRoleOf
    Recs = {k1}
PROPERTY RejectedIsNotApplied
CHECK_DEADLOCK FALSE
