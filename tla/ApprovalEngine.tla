--------------------------- MODULE ApprovalEngine ---------------------------
(***************************************************************************)
(* The approval engine: the table approval_instances, the requests that    *)
(* open, bypass, advance and complete instances, and the background sweeps *)
(* that expire them (services/approval_service.py, routers/approvals.py,   *)
(* services/approval_expiry_service.py, workers/approval_expiry.py).       *)
(*                                                                         *)
(* One action is one database transaction of one request or sweep: the     *)
(* code takes the row lock with FOR UPDATE, changes the row and commits.   *)
(* What a request does after a commit - the callback, the second commit -  *)
(* is a later action of the same session, and other sessions may come in   *)
(* between.  The sweep reads without a lock and commits later, so reading  *)
(* and writing are two actions.                                            *)
(***************************************************************************)
EXTENDS ApprovalRules

CONSTANTS Ids,        \* instance ids (fresh uuids)
          Requests,   \* HTTP requests that may run at once
          Daemons,    \* scheduler threads of the web process: they sweep for ever
          Workers,    \* rq worker processes: they sweep when a job is enqueued
          RoleOf      \* the role of each user

ASSUME EngineAssumption ==
    /\ Requests \cap (Daemons \cup Workers) = {}
    /\ Daemons \cap Workers = {}
    /\ RoleOf \in [Users -> {"owner", "admin", "staff"}]

Sweepers == Daemons \cup Workers
Sessions == Requests \cup Sweepers

VARIABLES
    inst,      \* the committed rows, by instance id
    overdue,   \* ids whose expires_at has passed
    pc,        \* what each session does next
    work,      \* the ids each session is working on
    moving,    \* of these, the rows each sweep saw at the first of two stages
    audit,     \* ids with a committed APPROVAL_BYPASS audit row
    applied,   \* ids with a committed callback
    lost,      \* ids some session owed a callback and never committed
    skipped,   \* ids closed where no callback is registered
    acked      \* ids with an L1 approval the checker was told was taken

vars == <<inst, overdue, pc, work, moving, audit, applied, lost, skipped, acked>>
observed == <<audit, applied, lost, skipped, acked>>

Steps == {"idle", "mutated", "decided", "sweeping"}

TypeOK ==
    /\ inst \in [Ids -> Row]
    /\ overdue \subseteq Ids
    /\ pc \in [Sessions -> Steps]
    /\ work \in [Sessions -> SUBSET Ids]
    /\ moving \in [Sessions -> SUBSET Ids]
    /\ audit \subseteq Ids
    /\ applied \subseteq Ids
    /\ lost \subseteq Ids
    /\ skipped \subseteq Ids
    /\ acked \subseteq Ids

Init ==
    /\ inst = [i \in Ids |-> Missing("absent")]
    /\ overdue = {}
    /\ pc = [q \in Sessions |-> "idle"]
    /\ work = [q \in Sessions |-> {}]
    /\ moving = [q \in Sessions |-> {}]
    /\ audit = {}
    /\ applied = {}
    /\ lost = {}
    /\ skipped = {}
    /\ acked = {}

\* Session q goes from one step to the next, now working on ids W.
Goes(q, from, to, W) ==
    /\ pc[q] = from
    /\ pc' = [pc EXCEPT ![q] = to]
    /\ work' = [work EXCEPT ![q] = W]

-----------------------------------------------------------------------------
(* Opening an instance.                                                    *)

\* initiate_approval without bypass: _create_instance commits the row and the
\* router answers "submitted for approval".
InitiatePending(i, w, a, s, under) ==
    /\ inst[i].status = "absent"
    /\ ~Denied(a, s)
    /\ ~Bypasses(w, under)
    /\ inst' = [inst EXCEPT ![i] =
                   NewRow(w, a, s, "pending_l1", InitialStage(w))]
    /\ UNCHANGED <<overdue, pc, work, moving, observed>>

\* initiate_approval with bypass only flushes the row; the router then makes
\* the change it asked about, and its commit makes row and change durable.
InitiateBypass(q, i, w, a, s, under) ==
    /\ inst[i].status = "absent"
    /\ ~Denied(a, s)
    /\ Bypasses(w, under)
    /\ Goes(q, "idle", "mutated", {i})
    /\ inst' = [inst EXCEPT ![i] =
                   NewRow(w, a, s, "no_approval_required", None)]
    /\ UNCHANGED <<overdue, moving, observed>>

\* Mutated form: the audit row is left to a later step.
CompleteUnaudited(q) ==
    \E i \in work[q] :
        /\ Goes(q, "mutated", "decided", {i})
        /\ inst' = [inst EXCEPT ![i].status = "completed", ![i].completed = TRUE]
        /\ UNCHANGED <<overdue, moving, observed>>

\* complete_approval up to its first commit: it locks the row, sets the
\* status whatever it was, and logs a bypass in the same transaction.
Complete(q) ==
    \E i \in work[q] :
        /\ Goes(q, "mutated", "decided", {i})
        /\ inst' = [inst EXCEPT ![i].status = "completed", ![i].completed = TRUE]
        /\ audit' = IF inst[i].status = "no_approval_required"
                    THEN audit \cup {i} ELSE audit
        /\ UNCHANGED <<overdue, moving, applied, lost, skipped, acked>>

-----------------------------------------------------------------------------
(* POST /approvals/{id}/advance.                                           *)

Reject(q, i, u) ==
    /\ MayAdvance(inst[i], u, RoleOf[u])
    /\ Goes(q, "idle", "decided", {i})
    /\ inst' = [inst EXCEPT ![i] = Rejected(inst[i], u)]
    /\ UNCHANGED <<overdue, moving, observed>>

Approve(q, i, u) ==
    /\ MayAdvance(inst[i], u, RoleOf[u])
    /\ AtLastStage(inst[i])
    /\ Goes(q, "idle", "decided", {i})
    /\ inst' = [inst EXCEPT ![i] = Approved(inst[i], u)]
    /\ UNCHANGED <<overdue, moving, observed>>

\* The L1 branch sets l1, stage L2 and pending_l2, and only flushes; get_db
\* closes the session without a commit and the database rolls it back.  What
\* is left is the answer "pending_further_approval".
ApproveL1(i, u) ==
    /\ MayAdvance(inst[i], u, RoleOf[u])
    /\ ~AtLastStage(inst[i])
    /\ acked' = acked \cup {i}
    /\ UNCHANGED <<inst, overdue, pc, work, moving, audit, applied, lost, skipped>>

-----------------------------------------------------------------------------
(* The callback and the second commit, which makes its changes durable.    *)

\* register_all_callbacks runs when the web process starts and nowhere else, so
\* in a worker _fire_callback finds nothing to call.
CallbackCommit(q) ==
    /\ Goes(q, "decided", "idle", {})
    /\ IF q \in Workers
       THEN skipped' = skipped \cup work[q] /\ UNCHANGED applied
       ELSE applied' = applied \cup work[q] /\ UNCHANGED skipped
    /\ UNCHANGED <<inst, overdue, moving, audit, lost, acked>>

\* The router fails, the callback raises or the process dies: the session's
\* open transaction is rolled back and nobody takes the work up again.
Dies(q) ==
    /\ pc[q] # "idle"
    /\ Goes(q, pc[q], "idle", {})
    /\ moving' = [moving EXCEPT ![q] = {}]
    /\ lost' = IF pc[q] = "sweeping" THEN lost ELSE lost \cup work[q]
    /\ UNCHANGED <<inst, overdue, audit, applied, skipped, acked>>

-----------------------------------------------------------------------------
(* Expiry and retention.                                                   *)

\* The clock passes expires_at of a row.
Expire(i) ==
    /\ inst[i].status # "absent"
    /\ overdue' = overdue \cup {i}
    /\ UNCHANGED <<inst, pc, work, moving, observed>>

Expired == {i \in overdue : inst[i].status \in Pending}

\* update_expired_instances, its SELECT: no row is locked.
SweepRead(q) ==
    /\ Expired # {}
    /\ Goes(q, "idle", "sweeping", Expired)
    /\ moving' = [moving EXCEPT ![q] = {i \in Expired : MovesOn(inst[i])}]
    /\ UNCHANGED <<inst, overdue, observed>>

\* Mutated form: the sweep ends with its commit and fires no callback.
SweepCommitSilent(q) ==
    /\ Goes(q, "sweeping", "idle", {})
    /\ inst' = [i \in Ids |-> IF i \in work[q]
                              THEN Swept(inst[i], i \in moving[q])
                              ELSE inst[i]]
    /\ moving' = [moving EXCEPT ![q] = {}]
    /\ UNCHANGED <<overdue, observed>>

\* ... its UPDATEs and first commit.  Rows that reached an end get their
\* callback next.
SweepCommit(q) ==
    LET ended == work[q] \ moving[q]
    IN  /\ Goes(q, "sweeping", IF ended = {} THEN "idle" ELSE "decided", ended)
        /\ inst' = [i \in Ids |-> IF i \in work[q]
                                  THEN Swept(inst[i], i \in moving[q])
                                  ELSE inst[i]]
        /\ moving' = [moving EXCEPT ![q] = {}]
        /\ UNCHANGED <<overdue, observed>>

\* Mutated form: everything without an approval goes, pending rows too.
PurgeUnapproved(i) ==
    /\ inst[i].status \notin {"absent", "purged", "approved"}
    /\ \A q \in Sessions : i \notin work[q]
    /\ inst' = [inst EXCEPT ![i] = Missing("purged")]
    /\ overdue' = overdue \ {i}
    /\ UNCHANGED <<pc, work, moving, observed>>

\* purge_old_instances.  Retention is days, a request is seconds: a row old
\* enough to go is in no session's hands.
Purge(i) ==
    /\ Retirable(inst[i])
    /\ \A q \in Sessions : i \notin work[q]
    /\ inst' = [inst EXCEPT ![i] = Missing("purged")]
    /\ overdue' = overdue \ {i}
    /\ UNCHANGED <<pc, work, moving, observed>>

-----------------------------------------------------------------------------

Open(i, w, a, s, under) ==
    \/ InitiatePending(i, w, a, s, under)
    \/ \E q \in Requests : InitiateBypass(q, i, w, a, s, under)

Advance(i, u) ==
    \/ ApproveL1(i, u)
    \/ \E q \in Requests : Approve(q, i, u) \/ Reject(q, i, u)

Next ==
    \/ \E i \in Ids, w \in Workflows, a \in Users, s \in Someone,
          under \in BOOLEAN : Open(i, w, a, s, under)
    \/ \E q \in Requests : Complete(q)
    \/ \E i \in Ids, u \in Users : Advance(i, u)
    \/ \E q \in Sessions : CallbackCommit(q) \/ Dies(q)
    \/ \E i \in Ids : Expire(i) \/ Purge(i)
    \/ \E q \in Sweepers : SweepRead(q) \/ SweepCommit(q)

Spec == Init /\ [][Next]_vars

\* A request or sweep that has started goes on; the daemon threads sweep again
\* and again, and not every sweep of theirs fails before its commit.
Fairness ==
    /\ \A q \in Requests : WF_vars(Complete(q))
    /\ \A q \in Sessions : WF_vars(CallbackCommit(q))
    /\ \A q \in Daemons : WF_vars(SweepRead(q)) /\ SF_vars(SweepCommit(q))

FairSpec == Spec /\ Fairness
=============================================================================
