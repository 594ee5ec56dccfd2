SPECIFICATION Spec
CONSTANTS
    None = None
    Orders = {1, 2}
    Calls = {c1, c2}
    Period = 1
    Grace = 1
    MaxTime = 1
    MaxAttempts = 1
SYMMETRY SameCalls
INVARIANTS BillTypeOK InvoicedOnce OneOrderPerKey OnlyTwoDeadlocks
PROPERTIES PaidIsNotActivatedAgain StoredIsApplied GraceBeforeDowngrade ImplementsPaidPlans
CHECK_DEADLOCK FALSE
