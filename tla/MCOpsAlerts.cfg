SPECIFICATION Spec
CONSTANTS
    None = None
    Alerts = {1}
    Recipients = {r1, r2}
    Targets <- Everybody
    Handlers = {h1, h2}
    Dead = 0
    Stale = 1
    MaxTime = 1
    MaxReports = 2
    MaxRestarts = 1
SYMMETRY Alike
INVARIANTS AlertTypeOK SentOnce RootSumsUp
PROPERTIES ReportsAreNotUndone ImplementsNotices
CHECK_DEADLOCK FALSE
