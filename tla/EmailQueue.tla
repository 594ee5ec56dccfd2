----------------------------- MODULE EmailQueue ------------------------------
(***************************************************************************)
(* The queue of outgoing emails: requests that store a mail and send it at  *)
(* once (email_utils.py), and the processors that send what is left        *)
(* (services/email_queue_processor.py, workers/email_queue_worker.py,      *)
(* routers/cron.py).                                                       *)
(*                                                                         *)
(* A processor loads a batch of rows without a lock, sends the mails one   *)
(* after the other and stores all the outcomes with one commit.  A request *)
(* sends the mail it has stored while a processor may find the row, and    *)
(* marks it in a transaction of its own.  A session writes the columns     *)
(* whose value differs from the one it loaded, and no others.  A session   *)
(* may fail at any step, and its writes with it, but not the mails it sent.*)
(*                                                                         *)
(* What becomes of a mail outside is a free choice: it is taken, refused,  *)
(* or taken and the answer is lost.  Left out are texts, addresses and the *)
(* causes of errors, a mail whose row could not be stored, and a dry run,  *)
(* which marks as sent what no provider has seen.                          *)
(***************************************************************************)
EXTENDS Naturals, FiniteSets

CONSTANTS Mails,       \* ids of the rows, in the order of creation
          Requests,    \* requests that send a mail
          Daemons,     \* processor threads of the web process: they poll for ever
          Jobs,        \* cron calls and rq jobs: they process a batch now and then
          None,
          MAX_RETRIES,
          BATCH_SIZE,
          MaxFaults    \* bound on the sessions that fail

ASSUME EmailAssumption ==
    /\ Mails \subseteq Nat
    /\ None \notin Nat
    /\ MAX_RETRIES \in Nat \ {0} /\ BATCH_SIZE \in Nat \ {0} /\ MaxFaults \in Nat

Processors == Daemons \cup Jobs

VARIABLES row,       \* the committed rows of email_queue
          load,      \* the copies of rows in each processor's hands
          said,      \* what the provider answered for them
          call,      \* what each request does
          faults,    \* sessions that failed so far
          taken,     \* how often the provider took each mail: never, once, or more
          counted,   \* sends of each mail whose outcome was stored
          disturbed  \* history: mails two sessions had in hand at a time, or whose
                     \* sending got no answer or left no trace

processing == <<load, said>>
history == <<taken, counted, disturbed>>
vars == <<row, processing, call, faults, history>>

\* next_retry_at is NULL, still to come, or over.
Rows == [status : {"pending", "failed", "sent"}, attempts : Nat,
         retry : {"null", "later", "over"}]

Fresh == [status |-> "pending", attempts |-> 0, retry |-> "null"]

Answers == {"sent", "error"}
Idle == [at |-> "idle", mail |-> None, copy |-> None]

ASSUME NoneIsNoRow == None \notin Rows \cup Answers

Init ==
    /\ row = [m \in Mails |-> None]
    /\ load = [p \in Processors |-> [m \in Mails |-> None]]
    /\ said = [p \in Processors |-> [m \in Mails |-> None]]
    /\ call = [q \in Requests |-> Idle]
    /\ faults = 0
    /\ taken = [m \in Mails |-> 0]
    /\ counted = [m \in Mails |-> 0]
    /\ disturbed = {}

-----------------------------------------------------------------------------
\* Histories that matter up to a bound only.
UpTo(n, bound) == IF n < bound THEN n ELSE bound

\* send_email tries one transport after another until one of them answers; any
\* that did not answer may have taken the mail.
Sent(m, answer) ==
    \E took \in 0..2 :
        /\ answer = "sent" => took > 0
        /\ taken' = [taken EXCEPT ![m] = UpTo(@ + took, 2)]
        /\ disturbed' = IF took > (IF answer = "sent" THEN 1 ELSE 0)
                        THEN disturbed \cup {m} ELSE disturbed

Count(M) ==
    counted' = [m \in Mails |-> UpTo(counted[m] + IF m \in M THEN 1 ELSE 0, MAX_RETRIES)]

\* The UPDATE names only the columns whose value changed since the row was loaded.
Column(new, old, current) == IF new # old THEN new ELSE current

Written(current, old, new) ==
    [status |-> Column(new.status, old.status, current.status),
     attempts |-> Column(new.attempts, old.attempts, current.attempts),
     retry |-> Column(new.retry, old.retry, current.retry)]

-----------------------------------------------------------------------------
(* The processors.                                                         *)

Batch(p) == {m \in Mails : load[p][m] # None}

InHand(m) == \/ \E p \in Processors : m \in Batch(p)
             \/ \E q \in Requests : call[q].mail = m

\* Mutated form: a failed mail is not selected again.
DuePendingOnly(m) ==
    row[m] # None /\ row[m].status = "pending" /\ row[m].attempts < MAX_RETRIES

\* Mutated form: the status is not looked at.
DueAnyStatus(m) ==
    row[m] # None /\ row[m].retry # "later" /\ row[m].attempts < MAX_RETRIES

\* Mutated form: next_retry_at is not looked at.
DueTooSoon(m) ==
    /\ row[m] # None
    /\ row[m].status \in {"pending", "failed"}
    /\ row[m].attempts < MAX_RETRIES

Due(m) ==
    /\ row[m] # None
    /\ row[m].status \in {"pending", "failed"}
    /\ row[m].retry # "later"
    /\ row[m].attempts < MAX_RETRIES

\* ORDER BY created_at LIMIT BATCH_SIZE
Oldest ==
    {m \in Mails : /\ Due(m)
                   /\ Cardinality({n \in Mails : n < m /\ Due(n)}) < BATCH_SIZE}

Select(p) ==
    /\ Batch(p) = {}
    /\ Oldest # {}
    /\ load' = [load EXCEPT ![p] = [m \in Mails |-> IF m \in Oldest THEN row[m] ELSE None]]
    /\ disturbed' = disturbed \cup {m \in Oldest : InHand(m)}
    /\ UNCHANGED <<row, said, call, faults, taken, counted>>

\* _deliver_one up to the answer, for the next mail of the batch.
Deliver(p, m) ==
    /\ m \in Batch(p)
    /\ said[p][m] = None
    /\ \A n \in Batch(p) : n < m => said[p][n] # None
    /\ \E answer \in Answers :
          /\ said' = [said EXCEPT ![p][m] = answer]
          /\ Sent(m, answer)
    /\ UNCHANGED <<row, load, call, faults, counted>>

\* Mutated form: an attempt that failed is counted by the handler again.
OutcomeCountedTwice(r, answer) ==
    [status |-> IF answer = "sent" THEN "sent" ELSE "failed",
     attempts |-> r.attempts + IF answer = "sent" THEN 1 ELSE 2,
     retry |-> IF answer = "sent" \/ r.attempts + 2 >= MAX_RETRIES THEN "null" ELSE "later"]

\* Mutated form: a mail that is given up gets a status of its own.
OutcomeGivenUp(r, answer) ==
    [status |-> IF answer = "sent" THEN "sent"
                ELSE IF r.attempts + 1 >= MAX_RETRIES THEN "given_up" ELSE "failed",
     attempts |-> r.attempts + 1,
     retry |-> IF answer = "sent" \/ r.attempts + 1 >= MAX_RETRIES THEN "null" ELSE "later"]

\* _deliver_one: the row after an answer.
Outcome(r, answer) ==
    [status |-> IF answer = "sent" THEN "sent" ELSE "failed",
     attempts |-> r.attempts + 1,
     retry |-> IF answer = "sent" \/ r.attempts + 1 >= MAX_RETRIES THEN "null" ELSE "later"]

\* Mutated form: the outcomes are stored without waiting for the answers.
CommitEarly(p) ==
    /\ Batch(p) # {}
    /\ row' = [m \in Mails |-> IF m \in Batch(p)
                               THEN Written(row[m], load[p][m],
                                            Outcome(load[p][m], IF said[p][m] = None THEN "sent"
                                                                ELSE said[p][m]))
                               ELSE row[m]]
    /\ Count(Batch(p))
    /\ load' = [load EXCEPT ![p] = [m \in Mails |-> None]]
    /\ said' = [said EXCEPT ![p] = [m \in Mails |-> None]]
    /\ UNCHANGED <<call, faults, taken, disturbed>>

Commit(p) ==
    /\ Batch(p) # {}
    /\ \A m \in Batch(p) : said[p][m] # None
    /\ row' = [m \in Mails |-> IF m \in Batch(p)
                               THEN Written(row[m], load[p][m], Outcome(load[p][m], said[p][m]))
                               ELSE row[m]]
    /\ Count(Batch(p))
    /\ load' = [load EXCEPT ![p] = [m \in Mails |-> None]]
    /\ said' = [said EXCEPT ![p] = [m \in Mails |-> None]]
    /\ UNCHANGED <<call, faults, taken, disturbed>>

\* The commit is refused or the process dies: the rows stay as they were, and
\* the mails that were sent will be sent again.
BatchFails(p) ==
    /\ Batch(p) # {}
    /\ faults < MaxFaults
    /\ faults' = faults + 1
    /\ load' = [load EXCEPT ![p] = [m \in Mails |-> None]]
    /\ said' = [said EXCEPT ![p] = [m \in Mails |-> None]]
    /\ disturbed' = disturbed \cup {m \in Batch(p) : said[p][m] = "sent"}
    /\ UNCHANGED <<row, call, taken, counted>>

-----------------------------------------------------------------------------
(* queue_and_send_email.                                                   *)

Continue(q, step, m, copy) ==
    call' = [call EXCEPT ![q] = [at |-> step, mail |-> m, copy |-> copy]]

At(q, step) == call[q].at = step

\* The row is committed before the first attempt to send.
Persist(q, m) ==
    /\ call[q] = Idle
    /\ row[m] = None
    /\ \A n \in Mails : n < m => row[n] # None
    /\ row' = [row EXCEPT ![m] = Fresh]
    /\ Continue(q, "send", m, None)
    /\ UNCHANGED <<processing, faults, history>>

\* If it fails the row is left to the processors.
SendNow(q) ==
    /\ At(q, "send")
    /\ \E answer \in Answers :
          /\ Sent(call[q].mail, answer)
          /\ IF answer = "sent" THEN Continue(q, "load", call[q].mail, None)
                                ELSE call' = [call EXCEPT ![q] = Idle]
    /\ UNCHANGED <<row, processing, faults, counted>>

\* _mark_sent
MarkLoad(q) ==
    /\ At(q, "load")
    /\ Continue(q, "mark", call[q].mail, row[call[q].mail])
    /\ UNCHANGED <<row, processing, faults, history>>

Marked(r) == [status |-> "sent", attempts |-> r.attempts + 1, retry |-> r.retry]

MarkCommit(q) ==
    LET m == call[q].mail
    IN  /\ At(q, "mark")
        /\ row' = [row EXCEPT ![m] = Written(@, call[q].copy, Marked(call[q].copy))]
        /\ Count({m})
        /\ call' = [call EXCEPT ![q] = Idle]
        /\ UNCHANGED <<processing, faults, taken, disturbed>>

\* The process dies, or the mark is refused, which is logged and forgotten.
RequestFails(q) ==
    /\ call[q] # Idle
    /\ faults < MaxFaults
    /\ faults' = faults + 1
    /\ disturbed' = IF At(q, "send") THEN disturbed ELSE disturbed \cup {call[q].mail}
    /\ call' = [call EXCEPT ![q] = Idle]
    /\ UNCHANGED <<row, processing, taken, counted>>

-----------------------------------------------------------------------------
\* The clock passes next_retry_at of a row.
RetryDue(m) ==
    /\ row[m] # None
    /\ row[m].retry = "later"
    /\ row' = [row EXCEPT ![m].retry = "over"]
    /\ UNCHANGED <<processing, call, faults, history>>

Process(p) == Select(p) \/ (\E m \in Mails : Deliver(p, m)) \/ Commit(p)

Send(q) == (\E m \in Mails : Persist(q, m)) \/ SendNow(q) \/ MarkLoad(q) \/ MarkCommit(q)

Next ==
    \/ \E p \in Processors : Process(p) \/ BatchFails(p)
    \/ \E q \in Requests : Send(q) \/ RequestFails(q)
    \/ \E m \in Mails : RetryDue(m)

Spec == Init /\ [][Next]_vars

\* The daemon polls for ever, and time passes; requests, cron calls and rq jobs
\* owe nothing.
Fairness ==
    /\ \A p \in Daemons : WF_vars(Process(p))
    /\ \A m \in Mails : WF_vars(RetryDue(m))

FairSpec == Spec /\ Fairness
=============================================================================
