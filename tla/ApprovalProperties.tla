------------------------- MODULE ApprovalProperties -------------------------
(***************************************************************************)
(* The correctness properties of ApprovalEngine.                           *)
(***************************************************************************)
EXTENDS ApprovalEngine

\* Maker and checker are two people, whichever path the instance took: the
\* maker of the request (its subject, or else its actor) signed neither decision
\* on it, IP-4 and IP-5 decisions carry a signature of the required role, and
\* an approved row is signed (advance_approval, over any number of sessions,
\* escalations and rewrites).
Signed(row, u) ==
    u # None => u # Maker(row) /\ RoleOf[u] \in RequiredRoles(row.workflow)

SeparationOfDuties ==
    \A i \in Ids :
        /\ Signed(inst[i], inst[i].approvedBy)
        /\ Signed(inst[i], inst[i].rejectedBy)
        /\ inst[i].status = "approved" => inst[i].approvedBy # None

\* A change that was let through without approval leaves a trace once it is
\* completed: the APPROVAL_BYPASS audit row is committed with the completion
\* (complete_approval), also when other sessions work on the same id.
BypassIsAudited ==
    \A i \in Ids : inst[i].status = "completed" => i \in audit

\* Requests never decide over each other's head: a status that ended the
\* workflow changes only by retention or by a sweep that had read the row
\* before it was decided (the row lock of advance_approval and
\* complete_approval, and the missing one of update_expired_instances).
StaleSweep(i) == \E q \in Sweepers : pc[q] = "sweeping" /\ i \in work[q]

DecisionsStand ==
    [][\A i \in Ids :
          inst[i].status \in Closed /\ inst[i].status # inst'[i].status
             => inst'[i].status = "purged" \/ StaleSweep(i)]_vars

\* The engine keeps the promise of ApprovalLedger: completed_at marks the
\* decision, and stays through every rewrite of the status.
Phase(row) == CASE row.status = "absent" -> "none"
                [] row.status = "purged" -> "forgotten"
                [] row.completed         -> "decided"
                [] OTHER                 -> "open"

LedgerPhase == [i \in Ids |-> Phase(inst[i])]

Ledger == INSTANCE ApprovalLedger WITH phase <- LedgerPhase

ImplementsLedger == Ledger!LSpec

\* A pending row past its TTL does not stay pending for good: sweeps close it,
\* even though sweeps race each other and an escalated row needs two of them
\* (update_expired_instances under the scheduler of approval_expiry_service).
OverdueIsClosed ==
    \A i \in Ids : (i \in overdue /\ inst[i].status \in Pending)
                      ~> (inst[i].status \notin Pending)

\* Every decision is followed by its callback, unless the session that owed
\* it died or ran where none is registered (advance_approval,
\* complete_approval and the sweep fire it after their commit).
DecisionIsApplied ==
    \A i \in Ids : (inst[i].completed /\ inst[i].status # "purged")
                      ~> (i \in lost \cup skipped \cup applied)

-----------------------------------------------------------------------------
(* The inductive invariant behind the safety properties above.             *)

\* Every row is consistent in itself.
RowOK(row) ==
    /\ row.status \in {"absent", "purged"} => row = Missing(row.status)
    /\ row.status = "no_approval_required" => ~row.completed
    /\ row.status \in Closed => row.completed
    /\ row.status = "approved" => row.approvedBy # None
    /\ Signed(row, row.approvedBy)
    /\ Signed(row, row.rejectedBy)

\* What a row can be once it has been pending.
Submitted == Pending \cup {"approved", "rejected", "abandoned", "escalated"}

\* What a session may still rely on when it takes its next step.
SessionOK(q) ==
    /\ pc[q] = "mutated"  =>
          \A i \in work[q] : inst[i].status = "no_approval_required"
    /\ pc[q] = "sweeping" => \A i \in work[q] : inst[i].status \in Submitted
    /\ pc[q] = "decided"  => \A i \in work[q] : inst[i].completed

\* A bypassed change is finished by the request that made it.
OneFinisher ==
    \A p, q \in Sessions : p # q /\ pc[p] = "mutated" /\ pc[q] = "mutated"
        => work[p] \cap work[q] = {}

IInv == /\ \A i \in Ids : RowOK(inst[i])
        /\ \A q \in Sessions : SessionOK(q)
        /\ OneFinisher
        /\ BypassIsAudited

-----------------------------------------------------------------------------
(* Statements of the code's comments that the code does not keep.          *)

\* "Record who cleared L1 so the L2 check above can enforce a different
\* second approver": a user told that the L1 approval was taken finds it in
\* the table, as long as the request is neither decided nor forgotten.
AckedL1IsRecorded ==
    \A i \in acked :
        inst[i].l1 # None \/ inst[i].status \in Closed \cup {"purged"}
=============================================================================
