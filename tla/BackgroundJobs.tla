---------------------------- MODULE BackgroundJobs ----------------------------
(***************************************************************************)
(* Background jobs (services/background_jobs.py, routers/jobs.py): records *)
(* shared by the threads of one web process, a thread pool that runs each  *)
(* submitted job once, and callers that create, cancel and retry jobs.     *)
(*                                                                         *)
(* update_job takes no lock.  Its writers race on status, assigned first,  *)
(* and cancel_requested, assigned after the result, so an update is two    *)
(* steps, WriteStatus and the step that writes the rest and persists the   *)
(* record.  What an actor read to decide on the update is a step before    *)
(* these.  The calls that add a context before start_job write neither.    *)
(***************************************************************************)
EXTENDS Naturals, Sequences, SequencesExt

CONSTANTS Jobs,      \* job ids (fresh uuids)
          Threads,   \* threads of the pool
          Callers,   \* requests of users
          None

ASSUME JobsAssumption ==
    /\ Threads \cap Callers = {}
    /\ None \notin Jobs

Actors == Threads \cup Callers

VARIABLES
    job,       \* the records, as the threads of the process see them
    saved,     \* the records in Redis
    queue,     \* submitted jobs no thread has taken
    pc,        \* what each actor does next
    on,        \* the job each actor is busy with
    half,      \* actors between the two steps of an update
    answered,  \* jobs whose cancel was answered
    kept,      \* of these, answered before the last look at the flag
    barred     \* of these, answered before the first look at the flag

vars == <<job, saved, queue, pc, on, half, answered, kept, barred>>
promises == <<answered, kept, barred>>

Active   == {"queued", "running", "canceling"}
Terminal == {"succeeded", "failed", "canceled"}

JobRecord == [status : Active \cup Terminal \cup {"absent"},
              cancel : BOOLEAN,     \* cancel_requested
              result : BOOLEAN]     \* result is not None

Absent == [status |-> "absent", cancel |-> FALSE, result |-> FALSE]
Queued == [status |-> "queued", cancel |-> FALSE, result |-> FALSE]

\* Mutated form: the other spelling.
AssignedMisspelt == [begin |-> "running", report |-> "running",
                     succeed |-> "succeeded", fail |-> "failed",
                     stop |-> "cancelled",
                     cancelNow |-> "canceled", cancelSoon |-> "canceling"]

\* The updates, and the status each assigns.
Assigned == [begin |-> "running", report |-> "running",
             succeed |-> "succeeded", fail |-> "failed", stop |-> "canceled",
             cancelNow |-> "canceled", cancelSoon |-> "canceling"]

\* Mutated form: cancel_requested is not among the assigned fields.
RestNoFlag(rec, step) ==
    CASE step = "succeed" -> [rec EXCEPT !.result = TRUE, !.cancel = FALSE]
      [] step = "fail"    -> [rec EXCEPT !.cancel = FALSE]
      [] OTHER            -> rec

\* What each assigns after the status.  error=None assigns nothing.
Rest(rec, step) ==
    CASE step = "succeed" -> [rec EXCEPT !.result = TRUE, !.cancel = FALSE]
      [] step = "fail"    -> [rec EXCEPT !.cancel = FALSE]
      [] step \in {"stop", "cancelNow", "cancelSoon"}
                          -> [rec EXCEPT !.cancel = TRUE]
      [] OTHER            -> rec

\* The looks at the flag, and the update that follows when it is not set.
OnPass == [first |-> "begin", progress |-> "report",
           last |-> "succeed", raised |-> "fail"]

ThreadSteps == {"idle", "work"} \cup DOMAIN OnPass
                   \cup {"begin", "report", "succeed", "fail", "stop"}
CallerSteps == {"idle", "start", "cancelNow", "cancelSoon"}

JobTypeOK ==
    /\ job \in [Jobs -> JobRecord]
    /\ saved \in [Jobs -> JobRecord]
    /\ queue \in Seq(Jobs)
    /\ pc \in [Actors -> ThreadSteps \cup CallerSteps]
    /\ on \in [Actors -> Jobs \cup {None}]
    /\ half \subseteq Actors
    /\ answered \subseteq Jobs
    /\ kept \subseteq answered
    /\ barred \subseteq kept

Init ==
    /\ job = [j \in Jobs |-> Absent]
    /\ saved = [j \in Jobs |-> Absent]
    /\ queue = <<>>
    /\ pc = [a \in Actors |-> "idle"]
    /\ on = [a \in Actors |-> None]
    /\ half = {}
    /\ answered = {}
    /\ kept = {}
    /\ barred = {}

\* Actor a goes to a step, with job j in hand.
Goes(a, to, j) ==
    /\ pc' = [pc EXCEPT ![a] = to]
    /\ on' = [on EXCEPT ![a] = j]

-----------------------------------------------------------------------------
(* An update.                                                              *)

WriteStatus(a) ==
    /\ pc[a] \in DOMAIN Assigned
    /\ a \notin half
    /\ job' = [job EXCEPT ![on[a]].status = Assigned[pc[a]]]
    /\ half' = half \cup {a}
    /\ UNCHANGED <<saved, queue, pc, on, promises>>

WritesRest(a) ==
    /\ a \in half
    /\ job' = [job EXCEPT ![on[a]] = Rest(@, pc[a])]
    /\ saved' = [saved EXCEPT ![on[a]] = job'[on[a]]]
    /\ half' = half \ {a}

-----------------------------------------------------------------------------
(* Callers.                                                                *)

\* create_job, for a request of its own or from a retry handler.
Create(c, k) ==
    /\ pc[c] = "idle"
    /\ job[k].status = "absent"
    /\ job' = [job EXCEPT ![k] = Queued]
    /\ saved' = [saved EXCEPT ![k] = Queued]
    /\ Goes(c, "start", k)
    /\ UNCHANGED <<queue, half, promises>>

\* retry_job: the handler creates a new job; the record of the old one stays as
\* it is.
Retry(c, j, k) ==
    /\ job[j].status \in {"failed", "canceled"}
    /\ Create(c, k)

\* start_job
Submit(c) ==
    /\ pc[c] = "start"
    /\ queue' = Append(queue, on[c])
    /\ Goes(c, "idle", None)
    /\ UNCHANGED <<job, saved, half, promises>>

\* What comes between create_job and start_job fails: the input file is not
\* written, or the request ends.
SubmitFails(c) ==
    /\ pc[c] = "start"
    /\ Goes(c, "idle", None)
    /\ UNCHANGED <<job, saved, queue, half, promises>>

\* cancel_job up to its call of update_job.
CancelRead(c, j) ==
    /\ pc[c] = "idle"
    /\ job[j].status \in Active
    /\ Goes(c, IF job[j].status = "queued" THEN "cancelNow" ELSE "cancelSoon", j)
    /\ UNCHANGED <<job, saved, queue, half, promises>>

\* Where the run of a job stands.
Created(j)   == \E c \in Callers : pc[c] = "start" /\ on[c] = j
Waiting(j)   == Created(j) \/ j \in ToSet(queue)
RunAt(j, S)  == \E t \in Threads : on[t] = j /\ pc[t] \in S
Running(j)   == RunAt(j, ThreadSteps)
Over(j)      == job[j].status # "absent" /\ ~Waiting(j) /\ ~Running(j)

\* The end of cancel_job: the caller is told that the job is canceled or will be.
CancelAnswer(c) ==
    /\ pc[c] \in {"cancelNow", "cancelSoon"}
    /\ WritesRest(c)
    /\ Goes(c, "idle", None)
    /\ answered' = answered \cup {on[c]}
    /\ kept' = IF Waiting(on[c]) \/ RunAt(on[c], ThreadSteps \ {"succeed", "fail"})
               THEN kept \cup {on[c]} ELSE kept
    /\ barred' = IF Waiting(on[c]) \/ RunAt(on[c], {"first"})
                 THEN barred \cup {on[c]} ELSE barred
    /\ UNCHANGED queue

-----------------------------------------------------------------------------
(* The pool: run() in start_job.                                           *)

\* Mutated form: the job stays in the queue.
TakeKeeps(t) ==
    /\ pc[t] = "idle"
    /\ queue # <<>>
    /\ Goes(t, "first", Head(queue))
    /\ UNCHANGED <<job, saved, queue, half, promises>>

Take(t) ==
    /\ pc[t] = "idle"
    /\ queue # <<>>
    /\ Goes(t, "first", Head(queue))
    /\ queue' = Tail(queue)
    /\ UNCHANGED <<job, saved, half, promises>>

\* Mutated form: the first write of an update hides the request.
RequestedStatusOnly(j) == job[j].status \in {"canceling", "canceled"}

\* _is_cancel_requested
Requested(j) == job[j].cancel \/ job[j].status \in {"canceling", "canceled"}

\* Mutated form: a queued job starts without a look at the flag.
CheckNotFirst(t) ==
    /\ pc[t] \in DOMAIN OnPass
    /\ Goes(t, IF Requested(on[t]) /\ pc[t] # "first" THEN "stop"
               ELSE OnPass[pc[t]], on[t])
    /\ UNCHANGED <<job, saved, queue, half, promises>>

Check(t) ==
    /\ pc[t] \in DOMAIN OnPass
    /\ Goes(t, IF Requested(on[t]) THEN "stop" ELSE OnPass[pc[t]], on[t])
    /\ UNCHANGED <<job, saved, queue, half, promises>>

\* The worker function calls its ProgressUpdater, returns, or raises.
Work(t) ==
    /\ pc[t] = "work"
    /\ \E to \in {"progress", "last", "raised"} : Goes(t, to, on[t])
    /\ UNCHANGED <<job, saved, queue, half, promises>>

\* Mutated form: an exception ends the thread.
GoesOnDead(t) ==
    CASE pc[t] \in {"begin", "report"} -> Goes(t, "work", on[t])
      [] pc[t] = "fail"                -> Goes(t, "dead", None)
      [] OTHER                         -> Goes(t, "idle", None)

\* After an update the worker function goes on, or the run is over.
GoesOn(t) == IF pc[t] \in {"begin", "report"} THEN Goes(t, "work", on[t])
                                              ELSE Goes(t, "idle", None)

Settle(t) ==
    /\ WritesRest(t)
    /\ GoesOn(t)
    /\ UNCHANGED <<queue, promises>>

-----------------------------------------------------------------------------

\* The process ends and starts again: the pool is empty, and records come back
\* from Redis when they are asked for.
Restart ==
    /\ job' = saved
    /\ queue' = <<>>
    /\ pc' = [a \in Actors |-> "idle"]
    /\ on' = [a \in Actors |-> None]
    /\ half' = {}
    /\ UNCHANGED <<saved, promises>>

Call(c) ==
    \/ \E k \in Jobs : Create(c, k)
    \/ \E j, k \in Jobs : Retry(c, j, k)
    \/ \E j \in Jobs : CancelRead(c, j)
    \/ Submit(c)
    \/ SubmitFails(c)
    \/ CancelAnswer(c)

Run(t) == Take(t) \/ Check(t) \/ Work(t) \/ Settle(t)

Steps ==
    \/ \E c \in Callers : Call(c)
    \/ \E t \in Threads : Run(t)
    \/ \E a \in Actors : WriteStatus(a)

Next == Steps \/ Restart

Spec == Init /\ [][Next]_vars

\* The life of one process.
OneProcess == Init /\ [][Steps]_vars

\* Threads run, and a request that has started goes on.  A worker function does
\* something, if only to report progress for ever.
Fairness ==
    /\ \A t \in Threads : WF_vars(Run(t))
    /\ \A c \in Callers : WF_vars(Submit(c)) /\ WF_vars(CancelAnswer(c))
    /\ \A a \in Actors : WF_vars(WriteStatus(a))

FairSpec == Spec /\ Fairness
=============================================================================
