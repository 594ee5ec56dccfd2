---------------------------- MODULE JobProperties ----------------------------
(***************************************************************************)
(* The correctness properties of BackgroundJobs.                           *)
(***************************************************************************)
EXTENDS BackgroundJobs

\* A cancel that was answered while the run still had to look at the flag is
\* kept: the job neither succeeds nor fails, and shows no result, though its
\* thread may write "running" over the status (cancel_job, run in start_job).
CancelIsKept ==
    \A j \in kept : job[j].status \notin {"succeeded", "failed"} /\ ~job[j].result

\* A job canceled before its run looked at the flag for the first time never
\* gets to its worker function (start_job, cancel_job).
CanceledNeverStarts ==
    \A j \in barred : ~RunAt(j, {"begin", "work", "report", "progress", "last",
                                 "raised", "succeed", "fail"})

\* The record of a run that succeeded or failed is never taken for an active one
\* again by the pool: only a cancel, or the older copy in Redis after a restart,
\* replaces that status (mark_job_complete, update_job, _get_record).
FinishedStaysFinished ==
    [][\A j \in Jobs :
          job[j].status \in {"succeeded", "failed"} =>
             job'[j].status \in {job[j].status, saved[j].status,
                                 "canceling", "canceled"}]_vars

\* Each job is run at most once, by at most as many threads as there are, also
\* when it was canceled, retried or orphaned by a restart.
RunOf == [j \in Jobs |-> CASE job[j].status = "absent" -> "none"
                           [] Running(j)               -> "running"
                           [] Created(j)               -> "created"
                           [] j \in ToSet(queue)       -> "waiting"
                           [] OTHER                    -> "over"]

Runs == INSTANCE JobRuns WITH run <- RunOf

ImplementsRuns == Runs!RSpec

\* Worker functions come to an end.
WorkersEnd == \A t \in Threads : SF_vars(Work(t) /\ pc'[t] # "progress")

\* If worker functions end, a submitted job does not wait for ever, whatever
\* happens to the jobs before it (start_job: no exception of a worker leaves run).
EveryJobIsTaken ==
    WorkersEnd => \A j \in Jobs : j \in ToSet(queue) ~> j \notin ToSet(queue)

\* A kept cancel stops the run, also one whose worker would report progress for
\* ever (_progress_updater).
CancelTakesEffect ==
    \A j \in Jobs : j \in kept ~> (job[j].status = "canceled" \/ Over(j))

-----------------------------------------------------------------------------
(* The inductive invariant of the safety properties.                       *)

\* Who is busy has a job in hand, and only an update can be half done.
Busy ==
    /\ \A t \in Threads : pc[t] \in ThreadSteps
    /\ \A c \in Callers : pc[c] \in CallerSteps
    /\ \A a \in Actors : on[a] \in Jobs <=> pc[a] # "idle"
    /\ \A a \in half : pc[a] \in DOMAIN Assigned

\* A job is in one place: at its creator, in the queue once, or at one thread.
OnePlace ==
    /\ \A i, k \in DOMAIN queue : queue[i] = queue[k] => i = k
    /\ \A t \in Threads : on[t] \notin ToSet(queue)
    /\ \A t, u \in Threads : on[t] = on[u] /\ on[t] \in Jobs => t = u
    /\ \A c \in Callers : pc[c] = "start" =>
          /\ on[c] \notin ToSet(queue)
          /\ \A t \in Threads : on[c] # on[t]
          /\ \A d \in Callers : pc[d] = "start" /\ on[c] = on[d] => c = d

\* Whatever is in some place has a record, and records are also in Redis.
Present ==
    /\ \A j \in Jobs : saved[j].status = "absent" <=> job[j].status = "absent"
    /\ \A j \in ToSet(queue) : job[j].status # "absent"
    /\ \A a \in Actors : on[a] \in Jobs => job[on[a]].status # "absent"

Unfinished(rec) == rec.status \notin {"succeeded", "failed"} /\ ~rec.result

\* Until its run writes that it ended, a record does not look as if it had.
NotYet ==
    /\ \A j \in ToSet(queue) : Unfinished(job[j])
    /\ \A c \in Callers : pc[c] = "start" => Unfinished(job[on[c]])
    /\ \A t \in Threads :
          pc[t] # "idle" /\ (pc[t] \in {"succeed", "fail"} => t \notin half)
             => Unfinished(job[on[t]])

CancelSet(rec) == rec.cancel /\ Unfinished(rec) /\ rec.status # "absent"

\* What a kept or a barred cancel leaves behind, in memory and in Redis, and what
\* the run of its job can no longer come to.
Flagged ==
    /\ \A j \in kept : CancelSet(job[j]) /\ CancelSet(saved[j])
    /\ \A t \in Threads :
          /\ on[t] \in kept => pc[t] \notin {"succeed", "fail"}
          /\ on[t] \in barred => pc[t] \in {"first", "stop"}

JobInv == JobTypeOK /\ Busy /\ OnePlace /\ Present /\ NotYet /\ Flagged

-----------------------------------------------------------------------------
(* A statement of the tests that the code does not keep, even in one process.*)

\* "assert final_cancelled["status"] == "canceled"": a job whose cancel was
\* answered with "canceling" or "canceled" is canceled when its run is over.
AnsweredIsCanceled ==
    \A j \in answered : Over(j) => job[j].status = "canceled"
=============================================================================
