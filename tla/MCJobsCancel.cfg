SPECIFICATION OneProcess
CONSTANTS
    None = None
    Jobs = {j1, j2}
    Threads = {t1}
    Callers = {c1, c2}
INVARIANT AnsweredIsCanceled
CHECK_DEADLOCK FALSE
