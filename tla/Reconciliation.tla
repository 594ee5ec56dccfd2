---------------------------- MODULE Reconciliation ----------------------------
(***************************************************************************)
(* Stock reconciliations on top of the approval engine: a counted variance *)
(* is approved or rejected by a router (routers/steel.py) or by the         *)
(* approval callback (services/approval_callbacks.py), and an approval     *)
(* posts the variance to the inventory ledger.                             *)
(*                                                                         *)
(* Every transaction of a session on a reconciliation is a read and a later *)
(* commit: neither path locks the row, so what was read may be stale when  *)
(* the ORM writes back the columns it changed.  Quantities are abstracted  *)
(* to three classes of variance, the ledger to a count of postings.        *)
(***************************************************************************)
EXTENDS ApprovalEngine

CONSTANT Recs    \* reconciliation ids

VARIABLES
    rec,      \* the committed rows of steel_stock_reconciliations
    posted,   \* number of adjustment transactions that refer to each
    target,   \* resource_id of each approval instance
    task,     \* the review a router call is busy with
    seen      \* what the open transaction of each session has read

recVars == <<rec, posted, target, task, seen>>
allVars == <<vars, recVars>>

\* none, up to HIGH_VARIANCE_THRESHOLD_PERCENT, above it
Variances == {"none", "small", "large"}

RecRow == [status   : {"absent", "pending", "approved", "rejected"},
           variance : Variances,
           counter  : Someone,      \* counted_by_user_id
           approver : Someone,      \* approved_by_user_id
           rejecter : Someone]      \* rejected_by_user_id

Outcomes == {"approved", "rejected"}
Task     == [rec : Recs, by : Users, to : Outcomes]
Snapshot == [row : [Recs -> RecRow], posted : SUBSET Recs]

RecTypeOK ==
    /\ TypeOK
    /\ rec \in [Recs -> RecRow]
    /\ posted \in [Recs -> Nat]
    /\ target \in [Ids -> Recs \cup {None}]
    /\ task \in [Requests -> Task \cup {None}]
    /\ seen \in [Sessions -> Snapshot \cup {None}]

RecInit ==
    /\ Init
    /\ rec = [k \in Recs |-> [status |-> "absent", variance |-> "none",
                              counter |-> None, approver |-> None,
                              rejecter |-> None]]
    /\ posted = [k \in Recs |-> 0]
    /\ target = [i \in Ids |-> None]
    /\ task = [q \in Requests |-> None]
    /\ seen = [q \in Sessions |-> None]

-----------------------------------------------------------------------------
(* Helpers.                                                                *)

WorkflowFor(to) == IF to = "approved" THEN "inventory.reconciliation.approve"
                                      ELSE "inventory.reconciliation.reject"

ASSUME RecAssumption ==
    /\ {WorkflowFor("approved"), WorkflowFor("rejected")} \subseteq Workflows
    /\ None \notin Recs \cup Task \cup Snapshot

\* Mutated form: the callback copies the status of the instance.
NewStatusCopied(row) == row.status

\* requested_change["new_status"], written at initiation, read by the callback.
NewStatus(row) == IF row.workflow = "inventory.reconciliation.reject"
                  THEN "rejected" ELSE "approved"

\* Mutated form: an instance nobody signed falls back to its subject.
DeciderSubject(row) == IF row.approvedBy # None THEN row.approvedBy
                       ELSE IF row.rejectedBy # None THEN row.rejectedBy
                       ELSE row.subject

\* approved_by or rejected_by or actor, in this order.
Decider(row) == IF row.approvedBy # None THEN row.approvedBy
                ELSE IF row.rejectedBy # None THEN row.rejectedBy ELSE row.actor

\* What the router and the callback assign to the row they have read.
Reviewed(row, u, to) ==
    [row EXCEPT !.status   = to,
                !.approver = IF to = "approved" THEN u ELSE None,
                !.rejecter = IF to = "rejected" THEN u ELSE None]

\* Mutated form: the callback signs and leaves the status.
CalledBackUnsettled(row, u, to) ==
    [row EXCEPT !.approver = IF to = "approved" THEN u ELSE @,
                !.rejecter = IF to = "rejected" THEN u ELSE @]

CalledBack(row, u, to) ==
    [row EXCEPT !.status   = to,
                !.approver = IF to = "approved" THEN u ELSE @,
                !.rejecter = IF to = "rejected" THEN u ELSE @]

\* The UPDATE names only the columns whose value changed since the read.
Column(now, read, new) == IF new = read THEN now ELSE new

Flushed(now, read, new) ==
    [now EXCEPT !.status   = Column(@, read.status, new.status),
                !.approver = Column(@, read.approver, new.approver),
                !.rejecter = Column(@, read.rejecter, new.rejecter)]

Reads(q) ==
    seen' = [seen EXCEPT ![q] = [row |-> rec,
                                 posted |-> {k \in Recs : posted[k] > 0}]]

Posts(K) == posted' = [k \in Recs |-> IF k \in K THEN posted[k] + 1 ELSE posted[k]]

-----------------------------------------------------------------------------
(* The routers.                                                            *)

\* POST /inventory/reconciliations
Count(k, u, v) ==
    /\ rec[k].status = "absent"
    /\ rec' = [rec EXCEPT ![k].status = "pending", ![k].variance = v,
                          ![k].counter = u]
    /\ UNCHANGED <<vars, posted, target, task, seen>>

\* POST .../approve and .../reject: what they check before the approval service.
ReviewRead(q, k, u, to) ==
    /\ pc[q] = "idle" /\ task[q] = None
    /\ rec[k].status = "pending"
    /\ u # rec[k].counter
    /\ task' = [task EXCEPT ![q] = [rec |-> k, by |-> u, to |-> to]]
    /\ Reads(q)
    /\ UNCHANGED <<vars, rec, posted, target>>

\* The rest of the call: the answer to initiate_approval decides between an
\* early return and the change itself.
ReviewEnds(q) ==
    /\ task' = [task EXCEPT ![q] = None]
    /\ seen' = [seen EXCEPT ![q] = None]

\* Mutated form: the early return after "approval_required" is missing.
ReviewSubmitNoReturn(q, i) ==
    /\ task[q] # None
    /\ LET t   == task[q]
           row == seen[q].row[t.rec]
       IN  /\ InitiatePending(i, WorkflowFor(t.to), t.by, row.counter,
                              row.variance # "large")
           /\ target' = [target EXCEPT ![i] = t.rec]
           /\ rec' = [rec EXCEPT ![t.rec] =
                         Flushed(@, row, Reviewed(row, t.by, t.to))]
           /\ Posts({t.rec})
    /\ ReviewEnds(q)

ReviewSubmit(q, i) ==
    /\ task[q] # None
    /\ LET t   == task[q]
           row == seen[q].row[t.rec]
       IN  /\ InitiatePending(i, WorkflowFor(t.to), t.by, row.counter,
                              row.variance # "large")
           /\ target' = [target EXCEPT ![i] = t.rec]
    /\ ReviewEnds(q)
    /\ UNCHANGED <<rec, posted>>

\* Mutated form: a rejected variance is posted too.
ReviewCommitPosting(q, i) ==
    /\ task[q] # None
    /\ LET t   == task[q]
           row == seen[q].row[t.rec]
       IN  /\ InitiateBypass(q, i, WorkflowFor(t.to), t.by, row.counter,
                             row.variance # "large")
           /\ target' = [target EXCEPT ![i] = t.rec]
           /\ rec' = [rec EXCEPT ![t.rec] =
                         Flushed(@, row, Reviewed(row, t.by, t.to))]
           /\ Posts(IF row.variance # "none" THEN {t.rec} ELSE {})
    /\ ReviewEnds(q)

ReviewCommit(q, i) ==
    /\ task[q] # None
    /\ LET t   == task[q]
           row == seen[q].row[t.rec]
       IN  /\ InitiateBypass(q, i, WorkflowFor(t.to), t.by, row.counter,
                             row.variance # "large")
           /\ target' = [target EXCEPT ![i] = t.rec]
           /\ rec' = [rec EXCEPT ![t.rec] =
                         Flushed(@, row, Reviewed(row, t.by, t.to))]
           /\ Posts(IF t.to = "approved" /\ row.variance # "none"
                    THEN {t.rec} ELSE {})
    /\ ReviewEnds(q)

\* A missing mismatch cause, a failed commit, a dead process: rolled back.
ReviewFails(q) ==
    /\ task[q] # None
    /\ ReviewEnds(q)
    /\ UNCHANGED <<vars, rec, posted, target>>

-----------------------------------------------------------------------------
(* _on_reconciliation_completed, once for each instance the session closed. *)

CallbackRead(q) ==
    /\ pc[q] = "decided" /\ q \notin Workers /\ seen[q] = None
    /\ Reads(q)
    /\ UNCHANGED <<vars, rec, posted, target, task>>

Hit(q) == {target[i] : i \in work[q]}

\* A sweep may close several instances of one row; the decider and the status
\* that stay are those of the last.
LastOf(q) == {last \in [Hit(q) -> work[q]] : \A k \in Hit(q) : target[last[k]] = k}

\* Status and signers are those of the instance at the commit; the code reads them
\* a moment earlier, when the callback starts.
WritesBack(q, last) ==
    rec' = [k \in Recs |->
              IF k \in Hit(q)
              THEN LET row == inst[last[k]]
                   IN  Flushed(rec[k], seen[q].row[k],
                               CalledBack(seen[q].row[k], Decider(row),
                                          NewStatus(row)))
              ELSE rec[k]]

\* Mutated form: the callback leaves the ledger to the router.
CallbackWriteOnly(q) ==
    /\ seen[q] # None
    /\ CallbackCommit(q)
    /\ \E last \in LastOf(q) : WritesBack(q, last)
    /\ seen' = [seen EXCEPT ![q] = None]
    /\ UNCHANGED <<posted, target, task>>

\* Mutated form: the callback does not look for an adjustment that was posted.
CallbackWriteAgain(q) ==
    /\ seen[q] # None
    /\ CallbackCommit(q)
    /\ \E last \in LastOf(q) :
         /\ WritesBack(q, last)
         /\ Posts({k \in Hit(q) : /\ NewStatus(inst[last[k]]) = "approved"
                                  /\ seen[q].row[k].variance # "none"})
    /\ seen' = [seen EXCEPT ![q] = None]
    /\ UNCHANGED <<target, task>>

CallbackWrite(q) ==
    /\ seen[q] # None
    /\ CallbackCommit(q)
    /\ \E last \in LastOf(q) :
         /\ WritesBack(q, last)
         /\ Posts({k \in Hit(q) : /\ NewStatus(inst[last[k]]) = "approved"
                                  /\ seen[q].row[k].variance # "none"
                                  /\ k \notin seen[q].posted})
    /\ seen' = [seen EXCEPT ![q] = None]
    /\ UNCHANGED <<target, task>>

\* In a worker no callback is registered.
WorkerCommit(q) ==
    /\ CallbackCommit(q)
    /\ UNCHANGED recVars

SessionDies(q) ==
    /\ Dies(q)
    /\ seen' = [seen EXCEPT ![q] = None]
    /\ UNCHANGED <<rec, posted, target, task>>

-----------------------------------------------------------------------------

Review(q) ==
    \/ \E k \in Recs, u \in Users, to \in Outcomes : ReviewRead(q, k, u, to)
    \/ \E i \in Ids : ReviewSubmit(q, i) \/ ReviewCommit(q, i)
    \/ ReviewFails(q)

\* The steps of the engine that touch no reconciliation.
EngineStep ==
    /\ \/ \E q \in Requests : Complete(q)
       \/ \E q \in Requests, i \in Ids, u \in Users :
             task[q] = None /\ (Approve(q, i, u) \/ Reject(q, i, u))
       \/ \E i \in Ids : Expire(i) \/ Purge(i)
       \/ \E q \in Sweepers : SweepRead(q) \/ SweepCommit(q)
    /\ UNCHANGED recVars

RecNext ==
    \/ \E k \in Recs, u \in Users, v \in Variances : Count(k, u, v)
    \/ \E q \in Requests : Review(q)
    \/ \E q \in Requests \cup Daemons : CallbackRead(q) \/ CallbackWrite(q)
    \/ \E q \in Workers : WorkerCommit(q)
    \/ \E q \in Sessions : SessionDies(q)
    \/ \E i \in Ids, u \in Users : ApproveL1(i, u) /\ UNCHANGED recVars
    \/ EngineStep

RecSpec == RecInit /\ [][RecNext]_allVars

RecFairness ==
    /\ \A q \in Requests : WF_allVars(Complete(q) /\ UNCHANGED recVars)
    /\ \A q \in Requests \cup Daemons :
          WF_allVars(CallbackRead(q)) /\ WF_allVars(CallbackWrite(q))
    /\ \A q \in Workers : WF_allVars(WorkerCommit(q))
    /\ \A q \in Daemons : /\ WF_allVars(SweepRead(q) /\ UNCHANGED recVars)
                          /\ SF_allVars(SweepCommit(q) /\ UNCHANGED recVars)

FairRecSpec == RecSpec /\ RecFairness
=============================================================================
