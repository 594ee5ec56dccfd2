SPECIFICATION FairSpec
CONSTANTS
    None = None
    Mails = {1, 2}
    Requests = {q1}
    Daemons = {p1}
    Jobs = {p2}
    MAX_RETRIES = 2
    BATCH_SIZE = 2
    MaxFaults = 1
INVARIANTS EmailTypeOK SentHasLeft MailedOnce NotGivenUpEarly
PROPERTIES OutcomesAddUp QueueComesToRest
CHECK_DEADLOCK FALSE
