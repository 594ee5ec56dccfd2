---------------------------- MODULE ApprovalRules ----------------------------
(***************************************************************************)
(* The decision tables and pure rules of backend/services/approval_service *)
(* .py: which pattern a workflow follows, when it bypasses approval, who    *)
(* may advance an instance, and what the expiry sweep does to a row.       *)
(* An instance is a row of table approval_instances.  Times are abstracted *)
(* to two facts: the row has a completed_at, and its expires_at has passed *)
(* (ApprovalEngine keeps the second).                                      *)
(***************************************************************************)
EXTENDS Naturals, FiniteSets

CONSTANTS Users,       \* user ids
          Workflows,   \* the workflow keys requests are opened for
          None         \* SQL NULL

ASSUME NoneAssumption ==
    /\ None \notin Users
    /\ None \notin Workflows
    /\ None \notin {"L1", "L2"}

-----------------------------------------------------------------------------
(* The tables.  A key that is in no table is IP-2 and is abandoned on      *)
(* expiry, as the .get defaults and the else branch of the sweep say.      *)

IP3 == {"invoice.record.edit_post_dispatch", "payment.record.reallocate"}
IP4 == {"user.role.assign", "payment.record.reverse", "invoice.record.void"}
IP5 == {"billing.plan.downgrade", "billing.plan.change"}

\* The keys of IP2_CONDITIONAL_THRESHOLDS: the only IP-2 workflows that can
\* come out of _check_ip2_bypass with "no bypass".
Conditional == {"inventory.reconciliation.approve", "payment.record.create",
                "dispatch.status.update", "dispatch.record.create"}

AUTO_ESCALATE_WORKFLOWS ==
    {"inventory.reconciliation.approve", "inventory.reconciliation.reject",
     "dispatch.status.update", "dispatch.record.create",
     "dispatch.record.cancel"}

AUTO_REJECT_WORKFLOWS == {"billing.plan.downgrade", "billing.plan.change"}

-----------------------------------------------------------------------------
(* Rows.                                                                   *)

Pending  == {"pending_l1", "pending_l2"}
Closed   == {"approved", "rejected", "completed", "abandoned", "escalated"}
Statuses == Pending \cup Closed \cup {"absent", "purged", "no_approval_required"}
Stages   == {"L1", "L2", None}
Someone  == Users \cup {None}

Row == [workflow    : Workflows \cup {None},
        actor       : Someone,
        subject     : Someone,
        status      : Statuses,
        stage       : Stages,
        l1          : Someone,      \* l1_approved_by_user_id
        approvedBy  : Someone,      \* approved_by_user_id
        rejectedBy  : Someone,      \* rejected_by_user_id
        completed   : BOOLEAN]      \* completed_at is not NULL

\* No row with this instance_id: never inserted, or hard-deleted.
Missing(status) ==
    [workflow |-> None, actor |-> None, subject |-> None, status |-> status,
     stage |-> None, l1 |-> None, approvedBy |-> None, rejectedBy |-> None,
     completed |-> FALSE]

NewRow(w, a, s, status, stage) ==
    [Missing(status) EXCEPT !.workflow = w, !.actor = a, !.subject = s,
                            !.stage = stage]

-----------------------------------------------------------------------------
(* Initiation.                                                             *)

\* "under" says that every threshold attribute is present and not above its
\* maximum; a workflow without thresholds has nothing to check and bypasses.
Bypasses(w, under) ==
    /\ w \notin IP3 \cup IP4 \cup IP5
    /\ w \in Conditional => under

\* IP-2 and IP-3 rows carry stage L1; IP-4 and IP-5 rows carry NULL.
InitialStage(w) == IF w \in IP4 \cup IP5 THEN None ELSE "L1"

Denied(a, s) == s # None /\ a = s

-----------------------------------------------------------------------------
(* Advancing.                                                              *)

Maker(row) == IF row.subject # None THEN row.subject ELSE row.actor

RequiredRoles(w) == CASE w \in IP4 -> {"admin", "owner"}
                      [] w \in IP5 -> {"owner"}
                      [] OTHER     -> {"admin", "owner", "staff"}

\* Mutated form: the check against a NULL subject is dropped.
MayAdvanceSubjectOnly(row, u, role) ==
    /\ row.status \in Pending
    /\ u # row.subject
    /\ ~(row.status = "pending_l2" /\ row.l1 = u)
    /\ role \in RequiredRoles(row.workflow)

\* Mutated form: the status of the locked row is not looked at again.
MayAdvanceAnyStatus(row, u, role) ==
    /\ row.status \notin {"absent", "purged"}
    /\ u # Maker(row)
    /\ role \in RequiredRoles(row.workflow)

MayAdvance(row, u, role) ==
    /\ row.status \in Pending
    /\ u # Maker(row)
    /\ ~(row.status = "pending_l2" /\ row.l1 = u)
    /\ role \in RequiredRoles(row.workflow)

\* approval_stage or "L2": a row without a stage is decided at once.
AtLastStage(row) == row.stage # "L1"

Approved(row, u) ==
    [row EXCEPT !.status = "approved", !.approvedBy = u, !.completed = TRUE]

Rejected(row, u) ==
    [row EXCEPT !.status = "rejected", !.rejectedBy = u, !.completed = TRUE]

-----------------------------------------------------------------------------
(* Expiry.                                                                 *)

\* First expiry of a two-stage row of an escalating workflow: it moves on
\* instead of ending.
MovesOn(row) == row.workflow \in AUTO_ESCALATE_WORKFLOWS /\ row.stage = "L1"

\* Mutated form: a status no reader of the table knows.
ExpiredStatusNew(w) == IF w \in AUTO_REJECT_WORKFLOWS THEN "auto_rejected"
                                                      ELSE "abandoned"

ExpiredStatus(w) == CASE w \in AUTO_ESCALATE_WORKFLOWS -> "escalated"
                      [] w \in AUTO_REJECT_WORKFLOWS   -> "rejected"
                      [] OTHER                         -> "abandoned"

\* Mutated form: an escalation that only relabels the status.
SweptNoStage(row, moves) ==
    IF moves
    THEN [row EXCEPT !.status = "pending_l2"]
    ELSE [row EXCEPT !.status = ExpiredStatus(row.workflow), !.completed = TRUE]

\* "moves" is what the sweep saw when it read the row; the ORM writes back only
\* the columns the sweep assigned, the others keep what the table holds now.
Swept(row, moves) ==
    IF moves
    THEN [row EXCEPT !.stage = "L2", !.status = "pending_l2"]
    ELSE [row EXCEPT !.status = ExpiredStatus(row.workflow), !.completed = TRUE]

\* purge_old_instances: what it deletes once it is old.  "approved" rows and
\* rows without completed_at stay.
Retirable(row) ==
    /\ row.status \in {"abandoned", "escalated", "rejected", "completed",
                       "no_approval_required"}
    /\ row.completed
=============================================================================
