SPECIFICATION FairSpec
CONSTANTS
    None = None
    owner = owner
    manager = manager
    clerk = clerk
    Users = {owner, manager, clerk}
    Workflows = {"inventory.reconciliation.approve", "user.role.assign", "billing.plan.downgrade"}
    Ids = {i1}
    Requests = {r1, r2}
    Daemons = {s1}
    Workers = {s2}
    RoleOf <- MCRoleOf
INVARIANTS TypeOK SeparationOfDuties BypassIsAudited
PROPERTIES DecisionsStand ImplementsLedger OverdueIsClosed DecisionIsApplied
CHECK_DEADLOCK FALSE
