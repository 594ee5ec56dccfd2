------------------------------- MODULE JobRuns -------------------------------
(***************************************************************************)
(* What the thread pool promises about the run of a job: it is submitted   *)
(* at most once, what was submitted starts, once, and ends once; each run  *)
(* has a thread of its own; and what had not ended when the process ends   *)
(* never runs again.                                                       *)
(***************************************************************************)
CONSTANTS Jobs, Threads

VARIABLE run

RInit == run = [j \in Jobs |-> "none"]

Step(j, from, to) == run[j] = from /\ run' = [run EXCEPT ![j] = to]

Start(j) ==
    /\ Step(j, "waiting", "running")
    /\ LET runs == {k \in Jobs : run'[k] = "running"}
       IN  \E f \in [runs -> Threads] : \A k, l \in runs : f[k] = f[l] => k = l

Crash == run' = [j \in Jobs |-> IF run[j] = "none" THEN "none" ELSE "over"]

RNext == \/ \E j \in Jobs : \/ Step(j, "none", "created")
                            \/ Step(j, "created", "waiting")
                            \/ Step(j, "created", "over")
                            \/ Start(j)
                            \/ Step(j, "running", "over")
         \/ Crash

RSpec == RInit /\ [][RNext]_run
=============================================================================
