SPECIFICATION FairSpec
CONSTANTS
    None = None
    Jobs = {j1, j2}
    Threads = {t1}
    Callers = {c1, c2}
INVARIANTS JobTypeOK CancelIsKept CanceledNeverStarts
PROPERTIES FinishedStaysFinished ImplementsRuns EveryJobIsTaken CancelTakesEffect
CHECK_DEADLOCK FALSE
