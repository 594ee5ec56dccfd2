--------------------------- MODULE ApprovalProofs ---------------------------
(***************************************************************************)
(* Proofs about ApprovalEngine for any users, workflows, instance ids and  *)
(* numbers of requests and sweeps.                                         *)
(***************************************************************************)
EXTENDS ApprovalProperties, TLAPS

USE NoneAssumption, EngineAssumption

-----------------------------------------------------------------------------
(* The rules on rows keep the type of rows.                                *)

LEMMA MissingType == \A st \in Statuses : Missing(st) \in Row
  BY DEF Missing, Row, Stages, Someone

LEMMA NewRowType ==
    ASSUME NEW w \in Workflows, NEW a \in Users, NEW s \in Someone,
           NEW st \in Statuses, NEW g \in Stages
    PROVE  NewRow(w, a, s, st, g) \in Row
  BY DEF NewRow, Missing, Row, Stages, Someone

LEMMA DecidedType ==
    ASSUME NEW row \in Row, NEW u \in Users
    PROVE  Approved(row, u) \in Row /\ Rejected(row, u) \in Row
  BY DEF Approved, Rejected, Row, Someone, Statuses, Closed

LEMMA ExpiredStatusType ==
    ASSUME NEW w PROVE ExpiredStatus(w) \in {"escalated", "rejected", "abandoned"}
  BY DEF ExpiredStatus

LEMMA SweptType ==
    ASSUME NEW row \in Row
    PROVE  Swept(row, TRUE) \in Row /\ Swept(row, FALSE) \in Row
  <1>1. Swept(row, TRUE) \in Row
    BY DEF Swept, Row, Statuses, Pending, Stages
  <1>2. ExpiredStatus(row.workflow) \in Statuses
    BY ExpiredStatusType DEF Statuses, Closed
  <1>3. Swept(row, FALSE) \in Row
    BY <1>2 DEF Swept, Row
  <1> QED BY <1>1, <1>3

LEMMA InitTypeOK == Init => TypeOK
  BY MissingType DEF Init, TypeOK, Steps, Statuses

\* Every step keeps the types.
LEMMA NextTypeOK ==
    ASSUME TypeOK, [Next]_vars
    PROVE  TypeOK'
  <1> USE DEF TypeOK, Steps, Goes, observed
  <1>1. ASSUME NEW i \in Ids, NEW w \in Workflows, NEW a \in Users,
               NEW s \in Someone, NEW under \in BOOLEAN,
               Open(i, w, a, s, under)
        PROVE  TypeOK'
    <2>1. CASE InitiatePending(i, w, a, s, under)
      <3>1. NewRow(w, a, s, "pending_l1", InitialStage(w)) \in Row
        BY NewRowType DEF InitialStage, Statuses, Stages, Pending
      <3> QED BY <2>1, <3>1 DEF InitiatePending
    <2>2. ASSUME NEW q \in Requests, InitiateBypass(q, i, w, a, s, under)
          PROVE  TypeOK'
      <3>1. NewRow(w, a, s, "no_approval_required", None) \in Row
        BY NewRowType DEF Statuses, Stages
      <3> QED BY <2>2, <3>1 DEF InitiateBypass, Sessions
    <2> QED BY <1>1, <2>1, <2>2 DEF Open
  <1>2. ASSUME NEW q \in Requests, Complete(q) PROVE TypeOK'
    <2>1. PICK i \in work[q] :
            /\ Goes(q, "mutated", "decided", {i})
            /\ inst' = [inst EXCEPT ![i].status = "completed",
                                    ![i].completed = TRUE]
            /\ audit' = IF inst[i].status = "no_approval_required"
                        THEN audit \cup {i} ELSE audit
            /\ UNCHANGED <<overdue, moving, applied, lost, skipped, acked>>
      BY <1>2 DEF Complete
    <2>2. i \in Ids
      BY <2>1 DEF Sessions
    <2>3. [inst[i] EXCEPT !.status = "completed", !.completed = TRUE] \in Row
      <3>1. inst[i] \in Row
        BY <2>2
      <3>2. "completed" \in Statuses
        BY DEF Statuses, Closed
      <3> QED BY <3>1, <3>2 DEF Row
    <2>4. inst' \in [Ids -> Row]
      BY <2>1, <2>2, <2>3
    <2> QED BY <2>1, <2>2, <2>4 DEF Sessions
  <1>3. ASSUME NEW i \in Ids, NEW u \in Users, Advance(i, u) PROVE TypeOK'
    <2>1. Approved(inst[i], u) \in Row /\ Rejected(inst[i], u) \in Row
      BY DecidedType
    <2>2. CASE ApproveL1(i, u)
      BY <2>2 DEF ApproveL1
    <2>3. ASSUME NEW q \in Requests, Approve(q, i, u) PROVE TypeOK'
      BY <2>1, <2>3 DEF Approve, Sessions
    <2>4. ASSUME NEW q \in Requests, Reject(q, i, u) PROVE TypeOK'
      BY <2>1, <2>4 DEF Reject, Sessions
    <2> QED BY <1>3, <2>2, <2>3, <2>4 DEF Advance
  <1>4. ASSUME NEW q \in Sessions, CallbackCommit(q) \/ Dies(q) PROVE TypeOK'
    BY <1>4 DEF CallbackCommit, Dies, Sessions
  <1>5. ASSUME NEW i \in Ids, Expire(i) \/ Purge(i) PROVE TypeOK'
    <2>1. Missing("purged") \in Row
      BY MissingType DEF Statuses
    <2> QED BY <1>5, <2>1 DEF Expire, Purge
  <1>6. ASSUME NEW q \in Sweepers, SweepRead(q) PROVE TypeOK'
    BY <1>6 DEF SweepRead, Expired, Sessions
  <1>7. ASSUME NEW q \in Sweepers, SweepCommit(q) PROVE TypeOK'
    <2>1. \A i \in Ids : Swept(inst[i], i \in moving[q]) \in Row
      <3> SUFFICES ASSUME NEW i \in Ids
                   PROVE  Swept(inst[i], i \in moving[q]) \in Row
        OBVIOUS
      <3>1. Swept(inst[i], TRUE) \in Row /\ Swept(inst[i], FALSE) \in Row
        BY SweptType
      <3>2. CASE i \in moving[q]
        <4>1. (i \in moving[q]) = TRUE
          BY <3>2
        <4> QED BY <3>1, <4>1
      <3>3. CASE i \notin moving[q]
        <4>1. (i \in moving[q]) = FALSE
          BY <3>3
        <4> QED BY <3>1, <4>1
      <3> QED BY <3>2, <3>3
    <2> QED BY <1>7, <2>1 DEF SweepCommit, Sessions
  <1>8. CASE UNCHANGED vars
    BY <1>8 DEF vars
  <1> QED BY <1>1, <1>2, <1>3, <1>4, <1>5, <1>6, <1>7, <1>8 DEF Next

\* Type correctness of the engine.
THEOREM TypeCorrect == Spec => []TypeOK
  <1>1. TypeOK /\ [Next]_vars => TypeOK'
    BY NextTypeOK
  <1> QED BY <1>1, InitTypeOK, PTL DEF Spec

-----------------------------------------------------------------------------
(* The rules on rows keep rows consistent.                                 *)

LEMMA MissingOK ==
    ASSUME NEW st \in {"absent", "purged"} PROVE RowOK(Missing(st))
  BY DEF RowOK, Missing, Signed, Closed

LEMMA PendingRowOK ==
    ASSUME NEW w \in Workflows, NEW a \in Users, NEW s \in Someone,
           NEW st \in {"pending_l1", "no_approval_required"}, NEW g \in Stages
    PROVE  /\ RowOK(NewRow(w, a, s, st, g))
           /\ NewRow(w, a, s, st, g).status = st
           /\ ~NewRow(w, a, s, st, g).completed
  BY DEF RowOK, NewRow, Missing, Signed, Closed

LEMMA DecidedOK ==
    ASSUME NEW row \in Row, RowOK(row), NEW u \in Users,
           MayAdvance(row, u, RoleOf[u])
    PROVE  /\ RowOK(Approved(row, u)) /\ RowOK(Rejected(row, u))
           /\ Approved(row, u).status = "approved"
           /\ Rejected(row, u).status = "rejected"
           /\ Approved(row, u).completed /\ Rejected(row, u).completed
  <1>1. Approved(row, u) =
          [row EXCEPT !.status = "approved", !.approvedBy = u, !.completed = TRUE]
    BY DEF Approved
  <1>2. Rejected(row, u) =
          [row EXCEPT !.status = "rejected", !.rejectedBy = u, !.completed = TRUE]
    BY DEF Rejected
  <1>3. u # Maker(row) /\ RoleOf[u] \in RequiredRoles(row.workflow)
    BY DEF MayAdvance
  <1>4. u # None
    OBVIOUS
  <1> HIDE NoneAssumption, EngineAssumption
  <1>5. RowOK(Approved(row, u))
    BY <1>1, <1>3, <1>4 DEF RowOK, Signed, Maker, Row, Closed
  <1>6. RowOK(Rejected(row, u))
    BY <1>2, <1>3, <1>4 DEF RowOK, Signed, Maker, Row, Closed
  <1> QED BY <1>1, <1>2, <1>5, <1>6 DEF Row

LEMMA CompletedOK ==
    ASSUME NEW row \in Row, RowOK(row)
    PROVE  RowOK([row EXCEPT !.status = "completed", !.completed = TRUE])
  BY DEF RowOK, Signed, Maker, Row, Closed

LEMMA SweptOnOK ==
    ASSUME NEW row \in Row, RowOK(row), row.status \in Submitted
    PROVE  /\ RowOK(Swept(row, TRUE))
           /\ Swept(row, TRUE).status \in Submitted
           /\ Swept(row, TRUE).completed = row.completed
  BY DEF Swept, RowOK, Signed, Maker, Row, Closed, Submitted, Pending

LEMMA SweptEndOK ==
    ASSUME NEW row \in Row, RowOK(row)
    PROVE  /\ RowOK(Swept(row, FALSE))
           /\ Swept(row, FALSE).status \in Submitted
           /\ Swept(row, FALSE).completed
  <1> DEFINE st == ExpiredStatus(row.workflow)
  <1>1. st \in {"escalated", "rejected", "abandoned"}
    BY ExpiredStatusType
  <1>2. Swept(row, FALSE) = [row EXCEPT !.status = st, !.completed = TRUE]
    BY DEF Swept
  <1> HIDE DEF st
  <1> QED
    BY <1>1, <1>2 DEF RowOK, Signed, Maker, Row, Closed, Submitted, Pending

-----------------------------------------------------------------------------
(* The inductive invariant.                                                *)

\* What one step of a sweep does to every row, stated once for the three
\* results that need it.
LEMMA SweepStep ==
    ASSUME TypeOK, \A i \in Ids : RowOK(inst[i]),
           NEW q \in Sweepers, SessionOK(q), SweepCommit(q), NEW i \in Ids
    PROVE  /\ RowOK(inst'[i])
           /\ i \notin work[q] => inst'[i] = inst[i]
           /\ i \in work[q] => /\ inst[i].status \in Submitted
                              /\ inst'[i].status \in Submitted
           /\ inst[i].completed => inst'[i].completed
           /\ i \in moving[q] => (inst'[i].completed => inst[i].completed)
           /\ i \in work[q] \ moving[q] => inst'[i].completed
  <1>1. /\ pc[q] = "sweeping"
        /\ inst'[i] = IF i \in work[q] THEN Swept(inst[i], i \in moving[q])
                                       ELSE inst[i]
    BY DEF SweepCommit, Goes
  <1>2. CASE i \notin work[q]
    BY <1>1, <1>2 DEF SweepCommit
  <1>3. CASE i \in work[q]
    <2>1. inst[i] \in Row /\ RowOK(inst[i]) /\ inst[i].status \in Submitted
      BY <1>1, <1>3 DEF TypeOK, SessionOK
    <2>2. CASE i \in moving[q]
      <3>1. (i \in moving[q]) = TRUE
        BY <2>2
      <3>2. inst'[i] = Swept(inst[i], TRUE)
        BY <1>1, <1>3, <3>1
      <3> QED BY <1>3, <2>1, <2>2, <3>2, SweptOnOK
    <2>3. CASE i \notin moving[q]
      <3>1. (i \in moving[q]) = FALSE
        BY <2>3
      <3>2. inst'[i] = Swept(inst[i], FALSE)
        BY <1>1, <1>3, <3>1
      <3> QED BY <1>3, <2>1, <2>3, <3>2, SweptEndOK
    <2> QED BY <2>2, <2>3
  <1> QED BY <1>2, <1>3

LEMMA InitIInv == Init => IInv
  <1> SUFFICES ASSUME Init PROVE IInv
    OBVIOUS
  <1>1. \A i \in Ids : RowOK(inst[i]) /\ inst[i].status = "absent"
    BY MissingOK DEF Init, Missing
  <1>2. \A q \in Sessions : SessionOK(q)
    BY DEF Init, SessionOK
  <1>3. OneFinisher /\ BypassIsAudited
    BY <1>1 DEF Init, OneFinisher, BypassIsAudited
  <1> QED BY <1>1, <1>2, <1>3 DEF IInv

LEMMA NextIInv ==
    ASSUME TypeOK, IInv, [Next]_vars
    PROVE  IInv'
  <1> USE DEF TypeOK, Goes
  <1>0. /\ \A i \in Ids : RowOK(inst[i])
        /\ \A q \in Sessions : SessionOK(q)
        /\ OneFinisher
        /\ BypassIsAudited
    BY DEF IInv
  <1>1. ASSUME NEW i \in Ids, NEW w \in Workflows, NEW a \in Users,
               NEW s \in Someone, NEW under \in BOOLEAN,
               InitiatePending(i, w, a, s, under)
        PROVE  IInv'
    <2> DEFINE row == NewRow(w, a, s, "pending_l1", InitialStage(w))
    <2>1. InitialStage(w) \in Stages
      BY DEF InitialStage, Stages
    <2>2. RowOK(row) /\ row.status = "pending_l1" /\ ~row.completed
      BY <2>1, PendingRowOK
    <2> HIDE DEF row
    <2>3. /\ inst' = [inst EXCEPT ![i] = row]
          /\ inst[i].status = "absent"
          /\ UNCHANGED <<pc, work, audit>>
      BY <1>1 DEF InitiatePending, observed, row
    <2>4. ~inst[i].completed
      BY <1>0, <2>3 DEF RowOK, Missing
    <2>5. \A j \in Ids : RowOK(inst'[j])
      BY <1>0, <2>2, <2>3
    <2>6. \A q \in Sessions : SessionOK(q)'
      BY <1>0, <2>2, <2>3, <2>4 DEF SessionOK, Submitted, Pending
    <2>7. OneFinisher' /\ BypassIsAudited'
      BY <1>0, <2>2, <2>3 DEF OneFinisher, BypassIsAudited
    <2> QED BY <2>5, <2>6, <2>7 DEF IInv
  <1>2. ASSUME NEW i \in Ids, NEW w \in Workflows, NEW a \in Users,
               NEW s \in Someone, NEW under \in BOOLEAN, NEW q \in Requests,
               InitiateBypass(q, i, w, a, s, under)
        PROVE  IInv'
    <2> DEFINE row == NewRow(w, a, s, "no_approval_required", None)
    <2>1. RowOK(row) /\ row.status = "no_approval_required" /\ ~row.completed
      BY PendingRowOK DEF Stages
    <2> HIDE DEF row
    <2>2. /\ inst' = [inst EXCEPT ![i] = row]
          /\ inst[i].status = "absent"
          /\ pc' = [pc EXCEPT ![q] = "mutated"]
          /\ work' = [work EXCEPT ![q] = {i}]
          /\ audit' = audit
          /\ q \in Sessions
      BY <1>2 DEF InitiateBypass, observed, row, Sessions
    <2>3. ~inst[i].completed
      BY <1>0, <2>2 DEF RowOK, Missing
    <2>4. \A p \in Sessions : pc[p] \in {"mutated", "sweeping", "decided"}
                                => i \notin work[p]
      BY <1>0, <2>2, <2>3 DEF SessionOK, Submitted, Pending
    <2>5. \A j \in Ids : RowOK(inst'[j])
      BY <1>0, <2>1, <2>2
    <2>6. \A p \in Sessions : SessionOK(p)'
      BY <1>0, <2>1, <2>2, <2>4 DEF SessionOK
    <2>7. OneFinisher'
      BY <1>0, <2>2, <2>4 DEF OneFinisher
    <2>8. BypassIsAudited'
      BY <1>0, <2>1, <2>2 DEF BypassIsAudited
    <2> QED BY <2>5, <2>6, <2>7, <2>8 DEF IInv
  <1>3. ASSUME NEW q \in Requests, Complete(q) PROVE IInv'
    <2>1. PICK i \in work[q] :
            /\ Goes(q, "mutated", "decided", {i})
            /\ inst' = [inst EXCEPT ![i].status = "completed",
                                    ![i].completed = TRUE]
            /\ audit' = IF inst[i].status = "no_approval_required"
                        THEN audit \cup {i} ELSE audit
      BY <1>3 DEF Complete
    <2> DEFINE row == [inst[i] EXCEPT !.status = "completed", !.completed = TRUE]
    <2>2. i \in Ids /\ q \in Sessions
      BY DEF Sessions
    <2>3. inst[i].status = "no_approval_required"
      BY <1>0, <2>1, <2>2 DEF SessionOK
    <2>4. \A p \in Sessions : p # q /\ pc[p] \in {"mutated", "sweeping"}
                                => i \notin work[p]
      BY <1>0, <2>1, <2>2, <2>3 DEF SessionOK, Submitted, Pending, OneFinisher
    <2>5. inst[i] \in Row
      BY <2>2
    <2>6. RowOK(row) /\ row.status = "completed" /\ row.completed
      BY <1>0, <2>2, <2>5, CompletedOK DEF Row
    <2>7. inst' = [inst EXCEPT ![i] = row]
      BY <2>1, <2>2
    <2> HIDE DEF row
    <2>8. \A j \in Ids : RowOK(inst'[j])
      BY <1>0, <2>6, <2>7
    <2>9. \A p \in Sessions : SessionOK(p)'
      BY <1>0, <2>1, <2>2, <2>4, <2>6, <2>7 DEF SessionOK
    <2>10. OneFinisher'
      BY <1>0, <2>1 DEF OneFinisher
    <2>11. BypassIsAudited'
      BY <1>0, <2>1, <2>2, <2>3, <2>6, <2>7 DEF BypassIsAudited
    <2> QED BY <2>8, <2>9, <2>10, <2>11 DEF IInv
  <1>4. ASSUME NEW i \in Ids, NEW u \in Users, NEW q \in Requests,
               Approve(q, i, u) \/ Reject(q, i, u)
        PROVE  IInv'
    <2> DEFINE row == IF Approve(q, i, u) THEN Approved(inst[i], u)
                                          ELSE Rejected(inst[i], u)
    <2>1. /\ MayAdvance(inst[i], u, RoleOf[u])
          /\ inst' = [inst EXCEPT ![i] = row]
          /\ pc' = [pc EXCEPT ![q] = "decided"]
          /\ work' = [work EXCEPT ![q] = {i}]
          /\ audit' = audit
          /\ q \in Sessions
      BY <1>4 DEF Approve, Reject, observed, Sessions
    <2>2. inst[i].status \in Pending
      BY <2>1 DEF MayAdvance
    <2>3. /\ RowOK(row)
          /\ row.status \in {"approved", "rejected"}
          /\ row.completed
      BY <1>0, <2>1, DecidedOK
    <2> HIDE DEF row
    <2>4. \A j \in Ids : RowOK(inst'[j])
      BY <1>0, <2>1, <2>3
    <2>5. \A p \in Sessions : SessionOK(p)'
      BY <1>0, <2>1, <2>2, <2>3 DEF SessionOK, Submitted, Pending
    <2>6. OneFinisher'
      BY <1>0, <2>1 DEF OneFinisher
    <2>7. BypassIsAudited'
      BY <1>0, <2>1, <2>3 DEF BypassIsAudited
    <2> QED BY <2>4, <2>5, <2>6, <2>7 DEF IInv
  <1>5. ASSUME NEW q \in Sessions, CallbackCommit(q) \/ Dies(q) PROVE IInv'
    <2>1. /\ inst' = inst /\ audit' = audit
          /\ pc' = [pc EXCEPT ![q] = "idle"]
          /\ work' = [work EXCEPT ![q] = {}]
      BY <1>5 DEF CallbackCommit, Dies
    <2>2. \A p \in Sessions : SessionOK(p)'
      BY <1>0, <2>1 DEF SessionOK
    <2>3. OneFinisher' /\ BypassIsAudited'
      BY <1>0, <2>1 DEF OneFinisher, BypassIsAudited
    <2> QED BY <1>0, <2>1, <2>2, <2>3 DEF IInv
  <1>6. ASSUME NEW i \in Ids, Purge(i) PROVE IInv'
    <2>1. /\ inst' = [inst EXCEPT ![i] = Missing("purged")]
          /\ \A p \in Sessions : i \notin work[p]
          /\ UNCHANGED <<pc, work, audit>>
      BY <1>6 DEF Purge, observed
    <2>2. RowOK(Missing("purged")) /\ Missing("purged").status = "purged"
      BY MissingOK DEF Missing
    <2>3. \A j \in Ids : RowOK(inst'[j])
      BY <1>0, <2>1, <2>2
    <2>4. \A p \in Sessions : SessionOK(p)'
      BY <1>0, <2>1 DEF SessionOK
    <2>5. OneFinisher' /\ BypassIsAudited'
      BY <1>0, <2>1, <2>2 DEF OneFinisher, BypassIsAudited
    <2> QED BY <2>3, <2>4, <2>5 DEF IInv
  <1>7. ASSUME NEW q \in Sweepers, SweepRead(q) PROVE IInv'
    <2>1. /\ inst' = inst /\ audit' = audit /\ q \in Sessions
          /\ pc' = [pc EXCEPT ![q] = "sweeping"]
          /\ work' = [work EXCEPT ![q] = Expired]
      BY <1>7 DEF SweepRead, observed, Sessions
    <2>2. \A p \in Sessions : SessionOK(p)'
      BY <1>0, <2>1 DEF SessionOK, Expired, Submitted
    <2>3. OneFinisher' /\ BypassIsAudited'
      BY <1>0, <2>1 DEF OneFinisher, BypassIsAudited
    <2> QED BY <1>0, <2>1, <2>2, <2>3 DEF IInv
  <1>8. ASSUME NEW q \in Sweepers, SweepCommit(q) PROVE IInv'
    <2> DEFINE ended == work[q] \ moving[q]
    <2>1. /\ pc' = [pc EXCEPT ![q] = IF ended = {} THEN "idle" ELSE "decided"]
          /\ work' = [work EXCEPT ![q] = ended]
          /\ audit' = audit /\ q \in Sessions
      BY <1>8 DEF SweepCommit, observed, Sessions
    <2>2. \A i \in Ids :
            /\ RowOK(inst'[i])
            /\ i \notin work[q] => inst'[i] = inst[i]
            /\ i \in work[q] => /\ inst[i].status \in Submitted
                               /\ inst'[i].status \in Submitted
            /\ inst[i].completed => inst'[i].completed
            /\ i \in ended => inst'[i].completed
      BY <1>0, <1>8, <2>1, SweepStep
    <2>3. \A p \in Sessions : SessionOK(p)'
      <3> SUFFICES ASSUME NEW p \in Sessions PROVE SessionOK(p)'
        OBVIOUS
      <3>1. CASE p = q
        BY <2>1, <2>2, <3>1 DEF SessionOK
      <3>2. CASE p # q
        <4>1. pc'[p] = pc[p] /\ work'[p] = work[p] /\ work[p] \subseteq Ids
          BY <2>1, <3>2
        <4> QED BY <1>0, <2>2, <4>1 DEF SessionOK, Submitted, Pending
      <3> QED BY <3>1, <3>2
    <2>4. OneFinisher'
      BY <1>0, <2>1 DEF OneFinisher
    <2>5. BypassIsAudited'
      BY <1>0, <2>1, <2>2 DEF BypassIsAudited, Submitted, Pending
    <2> QED BY <2>2, <2>3, <2>4, <2>5 DEF IInv
  <1>9. CASE \/ \E i \in Ids, u \in Users : ApproveL1(i, u)
             \/ \E i \in Ids : Expire(i)
             \/ UNCHANGED vars
    <2>1. UNCHANGED <<inst, pc, work, audit>>
      BY <1>9 DEF ApproveL1, Expire, observed, vars
    <2> QED
      BY <1>0, <2>1 DEF IInv, SessionOK, OneFinisher, BypassIsAudited
  <1> QED
    BY <1>1, <1>2, <1>3, <1>4, <1>5, <1>6, <1>7, <1>8, <1>9
       DEF Next, Open, Advance

\* Rows stay consistent, sessions keep what they rely on, and no two requests
\* finish the same bypassed change.
THEOREM Invariance == Spec => []IInv
  <1>1. TypeOK /\ TypeOK' /\ IInv /\ [Next]_vars => IInv'
    BY NextIInv
  <1> QED BY <1>1, InitIInv, TypeCorrect, PTL DEF Spec

\* Maker and checker are two people, for any users and roles.
THEOREM SeparationOfDutiesHolds == Spec => []SeparationOfDuties
  <1>1. IInv => SeparationOfDuties
    BY DEF IInv, RowOK, SeparationOfDuties
  <1> QED BY <1>1, Invariance, PTL

\* A completed bypass is audited, for any number of sessions.
THEOREM BypassAuditHolds == Spec => []BypassIsAudited
  <1>1. IInv => BypassIsAudited
    BY DEF IInv
  <1> QED BY <1>1, Invariance, PTL

\* Only retention, or a sweep that read the row before it was decided, changes
\* a status that ended the workflow.
THEOREM DecisionsStandHolds == Spec => DecisionsStand
  <1> DEFINE A == \A i \in Ids :
                     inst[i].status \in Closed /\ inst[i].status # inst'[i].status
                        => inst'[i].status = "purged" \/ StaleSweep(i)
  <1>1. ASSUME TypeOK, IInv, [Next]_vars PROVE [A]_vars
    <2> SUFFICES ASSUME NEW i \in Ids, inst[i].status \in Closed,
                        inst[i].status # inst'[i].status
                 PROVE  inst'[i].status = "purged" \/ StaleSweep(i)
      OBVIOUS
    <2> USE DEF TypeOK, Goes, Closed
    <2>1. CASE \E j \in Ids, w \in Workflows, a \in Users, s \in Someone,
                  under \in BOOLEAN : Open(j, w, a, s, under)
      <3>1. PICK j \in Ids : \E row : /\ inst[j].status = "absent"
                                     /\ inst' = [inst EXCEPT ![j] = row]
        BY <2>1 DEF Open, InitiatePending, InitiateBypass
      <3>2. i # j
        BY <3>1
      <3> QED BY <3>1, <3>2
    <2>2. ASSUME NEW q \in Requests, Complete(q)
          PROVE  inst[i].status = inst'[i].status
      <3>1. PICK j \in work[q] :
              /\ pc[q] = "mutated"
              /\ inst' = [inst EXCEPT ![j].status = "completed",
                                      ![j].completed = TRUE]
        BY <2>2 DEF Complete
      <3>2. inst[j].status = "no_approval_required"
        BY <3>1, <1>1 DEF IInv, SessionOK, Sessions
      <3>3. i # j
        BY <3>2
      <3> QED BY <1>1, <3>1, <3>3
    <2>3. ASSUME NEW j \in Ids, NEW u \in Users, Advance(j, u)
          PROVE  inst[i].status = inst'[i].status
      <3>1. inst[j].status \in Pending
        BY <2>3 DEF Advance, ApproveL1, Approve, Reject, MayAdvance
      <3>2. i # j
        BY <3>1 DEF Pending
      <3> QED BY <1>1, <2>3, <3>2 DEF Advance, ApproveL1, Approve, Reject
    <2>4. ASSUME NEW j \in Ids, Expire(j) \/ Purge(j)
          PROVE  inst[i].status = inst'[i].status \/ inst'[i].status = "purged"
      <3>1. Missing("purged").status = "purged"
        BY DEF Missing
      <3> QED BY <1>1, <2>4, <3>1 DEF Expire, Purge
    <2>5. ASSUME NEW q \in Sweepers, SweepCommit(q) PROVE StaleSweep(i)
      <3>1. i \in work[q] /\ pc[q] = "sweeping"
        BY <2>5 DEF SweepCommit
      <3> QED BY <3>1 DEF StaleSweep
    <2>6. CASE \/ \E q \in Sessions : CallbackCommit(q) \/ Dies(q)
               \/ \E q \in Sweepers : SweepRead(q)
               \/ UNCHANGED vars
      BY <2>6 DEF CallbackCommit, Dies, SweepRead, vars
    <2> QED BY <1>1, <2>1, <2>2, <2>3, <2>4, <2>5, <2>6 DEF Next
  <1> QED BY <1>1, Invariance, TypeCorrect, PTL DEF Spec, DecisionsStand

-----------------------------------------------------------------------------
(* The engine implements ApprovalLedger.                                   *)

LEMMA PhaseOK ==
    ASSUME NEW row \in Row, RowOK(row), row.completed
    PROVE  Phase(row) = "decided"
  BY DEF Phase, RowOK, Missing

LEMMA AbsentPhase ==
    ASSUME NEW row \in Row, RowOK(row), row.status = "absent"
    PROVE  Phase(row) = "none"
  BY DEF Phase, RowOK, Missing

LEMMA PendingPhase ==
    ASSUME NEW row \in Row, ~row.completed,
           row.status \notin {"absent", "purged"}
    PROVE  Phase(row) = "open"
  BY DEF Phase

\* A step that changes the phases of exactly the rows S is a step of the ledger.
LEMMA LedgerMoves ==
    ASSUME NEW S \in SUBSET Ids, S # {}, NEW from, NEW to,
           \A i \in S : Phase(inst[i]) = from,
           \A i \in Ids : Phase(inst'[i]) = IF i \in S THEN to
                                                       ELSE Phase(inst[i]),
           applied' = applied
    PROVE  Ledger!Moves(S, from, to)
  <1>1. LedgerPhase' = [i \in Ids |-> Phase(inst'[i])]
    BY DEF LedgerPhase, Phase
  <1>2. LedgerPhase = [i \in Ids |-> Phase(inst[i])]
    BY DEF LedgerPhase
  <1> QED BY <1>1, <1>2 DEF Ledger!Moves

LEMMA LedgerStutters ==
    ASSUME \A i \in Ids : Phase(inst'[i]) = Phase(inst[i]), applied' = applied
    PROVE  UNCHANGED Ledger!lvars
  <1>1. LedgerPhase' = [i \in Ids |-> Phase(inst'[i])]
    BY DEF LedgerPhase, Phase
  <1>2. LedgerPhase = [i \in Ids |-> Phase(inst[i])]
    BY DEF LedgerPhase
  <1> QED BY <1>1, <1>2 DEF Ledger!lvars

\* The step of one sweep decides the rows that end and were not decided yet.
LEMMA SweepDecides ==
    ASSUME TypeOK, IInv, NEW q \in Sweepers, SweepCommit(q)
    PROVE  [Ledger!LNext]_Ledger!lvars
  <1> DEFINE S == {i \in work[q] \ moving[q] : ~inst[i].completed}
  <1>1. S \in SUBSET Ids /\ applied' = applied
    BY DEF TypeOK, Sessions, SweepCommit, observed
  <1>2. \A i \in Ids : Phase(inst'[i]) = IF i \in S THEN "decided"
                                                    ELSE Phase(inst[i])
    <2> SUFFICES ASSUME NEW i \in Ids
                 PROVE  Phase(inst'[i]) = IF i \in S THEN "decided"
                                                     ELSE Phase(inst[i])
      OBVIOUS
    <2>1. inst[i] \in Row /\ RowOK(inst[i]) /\ SessionOK(q)
      BY DEF TypeOK, IInv, Sessions
    <2>2. /\ RowOK(inst'[i])
          /\ i \notin work[q] => inst'[i] = inst[i]
          /\ i \in work[q] => /\ inst[i].status \in Submitted
                              /\ inst'[i].status \in Submitted
          /\ inst[i].completed => inst'[i].completed
          /\ i \in moving[q] => (inst'[i].completed => inst[i].completed)
          /\ i \in work[q] \ moving[q] => inst'[i].completed
      BY <2>1, SweepStep DEF IInv
    <2>3. i \in work[q] =>
            /\ Phase(inst[i]) = IF inst[i].completed THEN "decided" ELSE "open"
            /\ Phase(inst'[i]) = IF inst'[i].completed THEN "decided" ELSE "open"
      BY <2>2 DEF Phase, Submitted, Pending
    <2> QED BY <2>2, <2>3
  <1>3. \A i \in S : Phase(inst[i]) = "open"
    <2> SUFFICES ASSUME NEW i \in S PROVE Phase(inst[i]) = "open"
      OBVIOUS
    <2>1. inst[i] \in Row /\ inst[i].status \in Submitted /\ ~inst[i].completed
      BY <1>1 DEF TypeOK, IInv, SessionOK, SweepCommit, Goes, Sessions
    <2> QED BY <2>1, PendingPhase DEF Submitted, Pending
  <1>4. CASE S = {}
    <2>1. UNCHANGED Ledger!lvars
      BY <1>1, <1>2, <1>4, LedgerStutters
    <2> QED BY <2>1
  <1>5. CASE S # {}
    <2> HIDE DEF S
    <2>1. Ledger!Moves(S, "open", "decided")
      BY <1>1, <1>2, <1>3, <1>5, LedgerMoves
    <2> QED BY <1>1, <2>1 DEF Ledger!LNext, Ledger!Decide
  <1> QED BY <1>4, <1>5

LEMMA LedgerStep ==
    ASSUME TypeOK, IInv, [Next]_vars
    PROVE  [Ledger!LNext]_Ledger!lvars
  <1>0. \A i \in Ids : inst[i] \in Row /\ RowOK(inst[i])
    BY DEF TypeOK, IInv
  <1> USE DEF Goes, observed
  <1>1. ASSUME NEW i \in Ids, NEW w \in Workflows, NEW a \in Users,
               NEW s \in Someone, NEW under \in BOOLEAN,
               Open(i, w, a, s, under)
        PROVE  Ledger!LNext
    <2>1. PICK st \in {"pending_l1", "no_approval_required"}, g \in Stages :
            /\ inst' = [inst EXCEPT ![i] = NewRow(w, a, s, st, g)]
            /\ inst[i].status = "absent" /\ applied' = applied
      BY <1>1 DEF Open, InitiatePending, InitiateBypass, InitialStage, Stages
    <2> DEFINE row == NewRow(w, a, s, st, g)
    <2>2. row.status = st /\ ~row.completed /\ row \in Row
      BY PendingRowOK, NewRowType DEF Statuses, Pending
    <2> HIDE DEF row
    <2>3. Phase(row) = "open"
      BY <2>2, PendingPhase
    <2>4. Phase(inst[i]) = "none"
      BY <1>0, <2>1, AbsentPhase
    <2>5. \A j \in Ids : Phase(inst'[j]) = IF j \in {i} THEN "open"
                                                        ELSE Phase(inst[j])
      BY <2>1, <2>3 DEF TypeOK, row
    <2>6. Ledger!Moves({i}, "none", "open")
      BY <2>1, <2>4, <2>5, LedgerMoves
    <2> QED BY <2>6 DEF Ledger!LNext, Ledger!Submit
  <1>2. ASSUME NEW i \in Ids, NEW row \in Row, RowOK(row), row.completed,
               inst' = [inst EXCEPT ![i] = row],
               inst[i].status \notin {"absent", "purged"}, applied' = applied
        PROVE  [Ledger!LNext]_Ledger!lvars
    <2>1. Phase(row) = "decided"
      BY <1>2, PhaseOK
    <2>2. \A j \in Ids : Phase(inst'[j]) = IF j \in {i} THEN "decided"
                                                        ELSE Phase(inst[j])
      BY <1>2, <2>1 DEF TypeOK
    <2>3. CASE inst[i].completed
      <3>1. Phase(inst[i]) = "decided"
        BY <1>0, <2>3, PhaseOK
      <3>2. UNCHANGED Ledger!lvars
        BY <1>2, <2>2, <3>1, LedgerStutters
      <3> QED BY <3>2
    <2>4. CASE ~inst[i].completed
      <3>1. Phase(inst[i]) = "open"
        BY <1>0, <1>2, <2>4, PendingPhase
      <3>2. Ledger!Moves({i}, "open", "decided")
        BY <1>2, <2>2, <3>1, LedgerMoves
      <3> QED BY <3>2 DEF Ledger!LNext, Ledger!Decide
    <2> QED BY <2>3, <2>4
  <1>3. ASSUME NEW q \in Requests, Complete(q)
        PROVE  [Ledger!LNext]_Ledger!lvars
    <2>1. PICK i \in work[q] :
            /\ pc[q] = "mutated"
            /\ inst' = [inst EXCEPT ![i].status = "completed",
                                    ![i].completed = TRUE]
            /\ applied' = applied
      BY <1>3 DEF Complete
    <2> DEFINE row == [inst[i] EXCEPT !.status = "completed", !.completed = TRUE]
    <2>2. i \in Ids /\ inst[i].status = "no_approval_required"
      BY <2>1 DEF TypeOK, IInv, SessionOK, Sessions
    <2>3. RowOK(row) /\ row.completed /\ row \in Row
      BY <1>0, <2>2, CompletedOK DEF Row, Statuses, Closed
    <2>4. inst' = [inst EXCEPT ![i] = row]
      BY <2>1, <2>2 DEF TypeOK
    <2> HIDE DEF row
    <2> QED BY <1>2, <2>1, <2>2, <2>3, <2>4
  <1>4. ASSUME NEW i \in Ids, NEW u \in Users, NEW q \in Requests,
               Approve(q, i, u) \/ Reject(q, i, u)
        PROVE  [Ledger!LNext]_Ledger!lvars
    <2> DEFINE row == IF Approve(q, i, u) THEN Approved(inst[i], u)
                                          ELSE Rejected(inst[i], u)
    <2>1. /\ MayAdvance(inst[i], u, RoleOf[u])
          /\ inst' = [inst EXCEPT ![i] = row]
          /\ applied' = applied
      BY <1>4 DEF Approve, Reject
    <2>2. inst[i].status \in Pending
      BY <2>1 DEF MayAdvance
    <2>3. RowOK(row) /\ row.completed /\ row \in Row
      BY <1>0, <2>1, DecidedOK, DecidedType
    <2> HIDE DEF row
    <2> QED BY <1>2, <2>1, <2>2, <2>3 DEF Pending
  <1>5. ASSUME NEW q \in Sessions, CallbackCommit(q)
        PROVE  [Ledger!LNext]_Ledger!lvars
    <2>1. /\ inst' = inst /\ pc[q] = "decided" /\ work[q] \in SUBSET Ids
          /\ applied' = IF q \in Workers THEN applied ELSE applied \cup work[q]
      BY <1>5 DEF CallbackCommit, TypeOK
    <2>2. CASE q \in Workers
      <3>1. UNCHANGED Ledger!lvars
        BY <2>1, <2>2, LedgerStutters
      <3> QED BY <3>1
    <2>3. CASE q \notin Workers
      <3>1. \A i \in work[q] : Phase(inst[i]) = "decided"
        BY <1>0, <2>1, PhaseOK DEF IInv, SessionOK
      <3>2. Ledger!Apply(work[q])
        BY <2>1, <2>3, <3>1 DEF Ledger!Apply, LedgerPhase
      <3> QED BY <2>1, <3>2 DEF Ledger!LNext
    <2> QED BY <2>2, <2>3
  <1>6. ASSUME NEW i \in Ids, Purge(i) PROVE Ledger!LNext
    <2>1. /\ inst' = [inst EXCEPT ![i] = Missing("purged")]
          /\ applied' = applied /\ inst[i].completed
      BY <1>6 DEF Purge, Retirable
    <2>2. Phase(inst[i]) = "decided" /\ Phase(Missing("purged")) = "forgotten"
      BY <1>0, <2>1, PhaseOK DEF Phase, Missing
    <2>3. \A j \in Ids : Phase(inst'[j]) = IF j \in {i} THEN "forgotten"
                                                        ELSE Phase(inst[j])
      BY <2>1, <2>2 DEF TypeOK
    <2>4. Ledger!Moves({i}, "decided", "forgotten")
      BY <2>1, <2>2, <2>3, LedgerMoves
    <2> QED BY <2>4 DEF Ledger!LNext, Ledger!Forget
  <1>7. CASE \/ \E i \in Ids, u \in Users : ApproveL1(i, u)
             \/ \E i \in Ids : Expire(i)
             \/ \E q \in Sessions : Dies(q)
             \/ \E q \in Sweepers : SweepRead(q)
             \/ UNCHANGED vars
    <2>1. inst' = inst /\ applied' = applied
      BY <1>7 DEF ApproveL1, Expire, Dies, SweepRead, vars
    <2>2. UNCHANGED Ledger!lvars
      BY <2>1, LedgerStutters
    <2> QED BY <2>2
  <1> QED
    BY <1>1, <1>3, <1>4, <1>5, <1>6, <1>7, SweepDecides DEF Next, Advance

\* The engine implements the ledger: opened once, decided once, applied only
\* when decided, forgotten only when decided.
THEOREM Refinement == Spec => ImplementsLedger
  <1>1. Init => Ledger!LInit
    <2> SUFFICES ASSUME Init PROVE Ledger!LInit
      OBVIOUS
    <2>1. \A i \in Ids : Phase(inst[i]) = "none"
      BY DEF Init, Phase, Missing
    <2> QED BY <2>1 DEF Init, Ledger!LInit, LedgerPhase
  <1>2. TypeOK /\ IInv /\ [Next]_vars => [Ledger!LNext]_Ledger!lvars
    BY LedgerStep
  <1> QED
    BY <1>1, <1>2, TypeCorrect, Invariance, PTL
       DEF Spec, ImplementsLedger, Ledger!LSpec
=============================================================================
