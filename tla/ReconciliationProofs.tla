------------------------ MODULE ReconciliationProofs -------------------------
(***************************************************************************)
(* A reconciliation takes only steps of the approval engine, so the        *)
(* engine's theorems hold of it; and RecInv is an invariant of it, for any *)
(* number of users, reconciliations, instances, requests and sweeps.       *)
(***************************************************************************)
EXTENDS ReconciliationProperties, ApprovalProofs

-----------------------------------------------------------------------------
(* The helpers.                                                            *)

\* Both reviews have a workflow, and a workflow asks for one of the outcomes.
LEMMA WorkflowType ==
  /\ \A to \in Outcomes : WorkflowFor(to) \in Workflows
  /\ \A row : NewStatus(row) \in Outcomes
  BY RecAssumption DEF Outcomes, NewStatus, WorkflowFor

\* What the ORM writes back is a row with its count, a status that is either the
\* new one or the table's, and signatures out of the table, the copy or the new row.
LEMMA FlushedRow ==
  ASSUME NEW r \in RecRow, NEW read \in RecRow, NEW new \in RecRow
  PROVE  /\ Flushed(r, read, new) \in RecRow
         /\ Flushed(r, read, new).counter = r.counter
         /\ Flushed(r, read, new).variance = r.variance
         /\ Flushed(r, read, new).status \in {r.status, new.status}
         /\ new.status # read.status => Flushed(r, read, new).status = new.status
         /\ Flushed(r, read, new).approver \in {r.approver, new.approver}
         /\ Flushed(r, read, new).rejecter \in {r.rejecter, new.rejecter}
  BY DEF Flushed, Column, RecRow

LEMMA ReviewedRow ==
  ASSUME NEW r \in RecRow, NEW u \in Users, NEW to \in Outcomes
  PROVE  /\ Reviewed(r, u, to) \in RecRow
         /\ Reviewed(r, u, to).status = to
         /\ Reviewed(r, u, to).approver \in {u, None}
         /\ Reviewed(r, u, to).rejecter \in {u, None}
  BY DEF Reviewed, RecRow, Outcomes, Someone

LEMMA CalledBackRow ==
  ASSUME NEW r \in RecRow, NEW u \in Someone, NEW to \in Outcomes
  PROVE  /\ CalledBack(r, u, to) \in RecRow
         /\ CalledBack(r, u, to).status = to
         /\ CalledBack(r, u, to).approver \in {u, r.approver}
         /\ CalledBack(r, u, to).rejecter \in {u, r.rejecter}
  BY DEF CalledBack, RecRow, Outcomes

\* Whoever the callback takes for the decider did not count.
LEMMA DeciderDidNotCount ==
  ASSUME NEW row \in Row, RowOK(row), row.subject \in Users, row.actor # row.subject
  PROVE  Decider(row) \in Someone /\ Decider(row) # row.subject
  <1>1. row.subject # None
    BY NoneAssumption
  <1>2. Maker(row) = row.subject
    BY <1>1 DEF Maker
  <1> QED
    BY <1>2 DEF Decider, RowOK, Signed, Row

-----------------------------------------------------------------------------
(* The composition and the engine.                                         *)

\* Every step is one of the engine, or leaves it alone.
LEMMA EngineStepOf ==
  ASSUME RecTypeOK, Transactions, [RecNext]_allVars
  PROVE  [Next]_vars
  <1>1. ASSUME NEW q \in Requests, Review(q) PROVE [Next]_vars
    <2>1. ASSUME NEW i \in Ids, ReviewSubmit(q, i) \/ ReviewCommit(q, i) PROVE Next
      <3>1. task[q] \in Task /\ seen[q] \in Snapshot
        BY <2>1 DEF ReviewSubmit, ReviewCommit, Transactions, Transaction, InReview, Reviewing, RecTypeOK, Sessions
      <3> DEFINE w == WorkflowFor(task[q].to)
                 s == seen[q].row[task[q].rec].counter
                 under == seen[q].row[task[q].rec].variance # "large"
      <3>2. w \in Workflows /\ task[q].by \in Users /\ s \in Someone /\ under \in BOOLEAN
        BY <3>1, WorkflowType DEF Task, Snapshot, RecRow
      <3>3. Open(i, w, task[q].by, s, under)
        BY <2>1 DEF ReviewSubmit, ReviewCommit, Open
      <3> HIDE DEF w, s, under
      <3> QED
        BY <3>2, <3>3 DEF Next
    <2>2. ASSUME NEW k \in Recs, NEW u \in Users, NEW to \in Outcomes, ReviewRead(q, k, u, to)
          PROVE  UNCHANGED vars
      BY <2>2 DEF ReviewRead
    <2>3. CASE ReviewFails(q)
      BY <2>3 DEF ReviewFails
    <2> QED
      BY <1>1, <2>1, <2>2, <2>3 DEF Review
  <1>2. ASSUME NEW q \in Requests \cup Daemons, CallbackRead(q) \/ CallbackWrite(q) PROVE [Next]_vars
    BY <1>2 DEF CallbackRead, CallbackWrite, Next, Sessions, Sweepers
  <1>3. ASSUME NEW q \in Sessions, WorkerCommit(q) \/ SessionDies(q) PROVE [Next]_vars
    BY <1>3 DEF WorkerCommit, SessionDies, Next
  <1>4. ASSUME NEW i \in Ids, NEW u \in Users, ApproveL1(i, u) PROVE Next
    BY <1>4 DEF Next, Advance
  <1>5. ASSUME NEW q \in Requests, NEW i \in Ids, NEW u \in Users, Approve(q, i, u) \/ Reject(q, i, u)
        PROVE  Next
    BY <1>5 DEF Next, Advance
  <1>6. CASE EngineStep
    BY <1>5, <1>6 DEF EngineStep, Next
  <1>7. ASSUME NEW k \in Recs, NEW u \in Users, NEW v \in Variances, Count(k, u, v)
        PROVE  UNCHANGED vars
    BY <1>7 DEF Count
  <1>8. Workers \subseteq Sessions
    BY DEF Sessions, Sweepers
  <1> QED
    BY <1>1, <1>2, <1>3, <1>4, <1>6, <1>7, <1>8 DEF RecNext, allVars

\* An instance that goes on keeps its subject and actor, and what accounts for a
\* posting keeps accounting for it.
GoesOn(i) ==
  /\ Accounts(inst[i]) => Accounts(inst'[i])
  /\ inst'[i].status \notin {"absent", "purged"} =>
        /\ inst[i].status \notin {"absent", "purged"}
        /\ inst'[i].subject = inst[i].subject
        /\ inst'[i].actor = inst[i].actor

\* The engine's steps on rows that exist.
Later ==
  \/ \E q \in Requests : Complete(q)
  \/ \E q \in Requests, i \in Ids, u \in Users : Approve(q, i, u) \/ Reject(q, i, u)
  \/ \E i \in Ids, u \in Users : ApproveL1(i, u)
  \/ \E i \in Ids : Expire(i) \/ Purge(i)
  \/ \E q \in Sweepers : SweepRead(q) \/ SweepCommit(q)
  \/ \E q \in Sessions : CallbackCommit(q) \/ Dies(q)
  \/ UNCHANGED vars

LEMMA RowsGoOn ==
  ASSUME TypeOK, IInv, Later, NEW j \in Ids
  PROVE  GoesOn(j)
  <1> USE DEF GoesOn
  <1>0. inst[j] \in Row /\ inst \in [Ids -> Row]
    BY DEF TypeOK
  <1>1. ASSUME NEW q \in Requests, Complete(q) PROVE GoesOn(j)
    <2>1. PICK i \in work[q] :
            /\ Goes(q, "mutated", "decided", {i})
            /\ inst' = [inst EXCEPT ![i].status = "completed", ![i].completed = TRUE]
      BY <1>1 DEF Complete
    <2>2. i \in Ids /\ inst[i].status = "no_approval_required"
      BY <2>1 DEF IInv, SessionOK, Goes, TypeOK, Sessions
    <2> QED
      BY <1>0, <2>1, <2>2 DEF Accounts, Row
  <1>2. ASSUME NEW q \in Requests, NEW i \in Ids, NEW u \in Users, Approve(q, i, u) \/ Reject(q, i, u)
        PROVE  GoesOn(j)
    <2>1. inst[i].status \in Pending /\ inst[i] \in Row
      BY <1>2 DEF Approve, Reject, MayAdvance, TypeOK
    <2>2. \/ inst' = [inst EXCEPT ![i] = Approved(inst[i], u)]
          \/ inst' = [inst EXCEPT ![i] = Rejected(inst[i], u)]
      BY <1>2 DEF Approve, Reject
    <2>3. ASSUME NEW row \in {Approved(inst[i], u), Rejected(inst[i], u)}
          PROVE  row.completed /\ row.subject = inst[i].subject /\ row.actor = inst[i].actor
      BY <2>1 DEF Approved, Rejected, Row
    <2>4. CASE j = i
      <3>1. inst'[j] \in {Approved(inst[i], u), Rejected(inst[i], u)}
        BY <1>0, <2>2, <2>4
      <3> QED
        BY <2>1, <2>3, <2>4, <3>1 DEF Accounts, Pending
    <2>5. CASE j # i
      BY <1>0, <2>2, <2>5
    <2> QED
      BY <2>4, <2>5
  <1>3. ASSUME NEW i \in Ids, Purge(i) PROVE GoesOn(j)
    BY <1>0, <1>3 DEF Purge, Missing, Accounts
  <1>4. ASSUME NEW q \in Sweepers, SweepCommit(q) PROVE GoesOn(j)
    <2>1. /\ j \notin work[q] => inst'[j] = inst[j]
          /\ j \in work[q] => inst[j].status \in Submitted
          /\ inst[j].completed => inst'[j].completed
      BY <1>4, SweepStep DEF IInv, Sessions
    <2>2. \A m : /\ Swept(inst[j], m).subject = inst[j].subject
                 /\ Swept(inst[j], m).actor = inst[j].actor
      BY <1>0 DEF Swept, Row
    <2>3. j \in work[q] => inst'[j] = Swept(inst[j], j \in moving[q])
      BY <1>4 DEF SweepCommit
    <2> QED
      BY <2>1, <2>2, <2>3 DEF Accounts, Submitted, Pending
  <1>5. CASE UNCHANGED inst
    BY <1>5
  <1> QED
    BY <1>1, <1>2, <1>3, <1>4, <1>5
    DEF Later, ApproveL1, Expire, SweepRead, CallbackCommit, Dies, vars


-----------------------------------------------------------------------------
(* What steps keep of the counts, the instances and the open transactions.  *)

\* A count stays counted by whom it was and as much as it was, and what was
\* posted stays posted.
CountsKept ==
  \A k \in Recs :
    /\ rec[k].status # "absent" => /\ rec'[k].status # "absent"
                                   /\ rec'[k].counter = rec[k].counter
                                   /\ rec'[k].variance = rec[k].variance
    /\ posted[k] > 0 => posted'[k] > 0

LEMMA AboutKept ==
  ASSUME AboutACount, CountsKept, \A i \in Ids : GoesOn(i), UNCHANGED target
  PROVE  AboutACount'
  BY DEF AboutACount, CountsKept, GoesOn

LEMMA AccountsKept ==
  ASSUME PostingIsAccountedFor, \A i \in Ids : GoesOn(i), UNCHANGED target,
         NEW k \in Recs, posted[k] > 0
  PROVE  \E i \in Ids : target'[i] = k /\ Accounts(inst'[i])
  BY DEF PostingIsAccountedFor, GoesOn

LEMMA ReadKept ==
  ASSUME NEW q \in Sessions, ReadIsOld(q), CountsKept, seen'[q] = seen[q]
  PROVE  ReadIsOld(q)'
  BY DEF ReadIsOld, CountsKept

LEMMA ReadFresh ==
  ASSUME NEW q \in Sessions, RecTypeOK, CounterNeverSignsOff, Reads(q), UNCHANGED <<rec, posted>>
  PROVE  /\ seen'[q] = [row |-> rec, posted |-> {k \in Recs : posted[k] > 0}]
         /\ seen'[q] \in Snapshot
         /\ ReadIsOld(q)'
         /\ \A p \in Sessions : p # q => seen'[p] = seen[p]
  <1>1. /\ seen'[q] = [row |-> rec, posted |-> {k \in Recs : posted[k] > 0}]
        /\ \A p \in Sessions : p # q => seen'[p] = seen[p]
    BY DEF RecTypeOK, Reads
  <1>2. [row |-> rec, posted |-> {k \in Recs : posted[k] > 0}] \in Snapshot
    BY DEF RecTypeOK, Snapshot
  <1>3. ReadIsOld(q)'
    BY <1>1 DEF ReadIsOld, CounterNeverSignsOff
  <1> QED
    BY <1>1, <1>2, <1>3

\* A session that takes no part in a step keeps its transaction.
LEMMA TransactionKept ==
  ASSUME NEW q \in Sessions, Transaction(q),
         pc'[q] = pc[q], work'[q] = work[q], seen'[q] = seen[q],
         q \in Requests => task'[q] = task[q],
         pc[q] = "decided" => \A i \in work[q] : target'[i] = target[i]
  PROVE  Transaction(q)'
  BY DEF Transaction, InReview, Reviewing, CallingBack

\* A session without a transaction and not in a review has nothing to keep.
LEMMA NoTransaction ==
  ASSUME NEW q \in Sessions, seen'[q] = None, q \in Requests => task'[q] = None
  PROVE  ReadIsOld(q)' /\ Transaction(q)'
  BY DEF ReadIsOld, Transaction, InReview

\* An instance in the hands of a session that has decided exists.
LEMMA DecidedExists ==
  ASSUME TypeOK, IInv, NEW q \in Sessions, pc[q] = "decided", NEW i \in work[q]
  PROVE  i \in Ids /\ inst[i].status \notin {"absent", "purged"} /\ inst[i].completed
  BY DEF TypeOK, IInv, SessionOK, RowOK, Missing

\* A session that is neither in a review nor has decided has read nothing.
LEMMA NothingRead ==
  ASSUME NEW q \in Sessions, Transaction(q), ~InReview(q), pc[q] # "decided"
  PROVE  seen[q] = None
  BY DEF Transaction, CallingBack

-----------------------------------------------------------------------------
(* Steps that write no reconciliation.                                     *)

\* What RecInv says besides types and the engine's invariant, without and with
\* the open transactions.
Tables ==
  Counted /\ AboutACount /\ CounterNeverSignsOff /\ ApprovedIsPosted /\ PostingIsAccountedFor

Facts == Tables /\ Transactions

LEMMA TablesKept ==
  ASSUME RecInv, Later, UNCHANGED <<rec, posted, target>>
  PROVE  Tables' /\ CountsKept
  <1>1. \A i \in Ids : GoesOn(i)
    BY RowsGoOn DEF RecInv, RecTypeOK
  <1>2. CountsKept
    BY DEF CountsKept
  <1>3. AboutACount'
    BY <1>1, <1>2, AboutKept DEF RecInv
  <1>4. PostingIsAccountedFor'
    BY <1>1, AccountsKept DEF RecInv, PostingIsAccountedFor
  <1>5. Counted' /\ CounterNeverSignsOff' /\ ApprovedIsPosted'
    BY DEF RecInv, Counted, CounterNeverSignsOff, ApprovedIsPosted
  <1> QED
    BY <1>2, <1>3, <1>4, <1>5 DEF Tables

\* The engine's own steps.
LEMMA EngineKeeps ==
  ASSUME RecInv, UNCHANGED recVars,
         EngineStep \/ \E i \in Ids, u \in Users : ApproveL1(i, u)
  PROVE  Facts'
  <1> USE DEF recVars
  <1>1. Later
    BY DEF EngineStep, Later
  <1>2. Tables' /\ CountsKept
    BY <1>1, TablesKept
  <1>3. \A q \in Sessions : ReadIsOld(q)'
    BY <1>2, ReadKept DEF RecInv, Transactions
  <1>4. ASSUME NEW q \in Sessions, NEW W, NEW from, NEW to, Goes(q, from, to, W),
               from # "decided", ~InReview(q)
        PROVE  \A p \in Sessions : Transaction(p)'
    <2>1. pc[q] = from /\ pc \in [Sessions -> Steps] /\ work \in [Sessions -> SUBSET Ids]
      BY <1>4 DEF Goes, RecInv, RecTypeOK, TypeOK
    <2>2. Transaction(q)'
      <3>1. seen[q] = None
        BY <1>4, <2>1, NothingRead DEF RecInv, Transactions
      <3>2. q \in Requests => task[q] = None
        BY <1>4 DEF InReview
      <3> QED
        BY <3>1, <3>2, NoTransaction
    <2>3. ASSUME NEW p \in Sessions, p # q PROVE Transaction(p)'
      <3>1. pc'[p] = pc[p] /\ work'[p] = work[p]
        BY <1>4, <2>1, <2>3 DEF Goes
      <3> QED
        BY <3>1, TransactionKept DEF RecInv, Transactions
    <2> QED
      BY <2>2, <2>3
  <1>5. ASSUME NEW q \in Requests, Complete(q) PROVE \A p \in Sessions : Transaction(p)'
    <2>1. PICK i \in work[q] : Goes(q, "mutated", "decided", {i})
      BY <1>5 DEF Complete
    <2>2. q \in Sessions
      BY DEF Sessions
    <2>3. ~InReview(q)
      BY <2>1, <2>2 DEF Goes, RecInv, Transactions, Transaction, Reviewing
    <2> QED
      BY <1>4, <2>1, <2>2, <2>3
  <1>6. ASSUME NEW q \in Requests, NEW i \in Ids, NEW u \in Users,
               task[q] = None, Approve(q, i, u) \/ Reject(q, i, u)
        PROVE  \A p \in Sessions : Transaction(p)'
    <2>1. Goes(q, "idle", "decided", {i}) /\ q \in Sessions /\ ~InReview(q)
      BY <1>6 DEF Approve, Reject, Sessions, InReview
    <2> QED
      BY <1>4, <2>1
  <1>7. ASSUME NEW q \in Sweepers, SweepRead(q) \/ SweepCommit(q)
        PROVE  \A p \in Sessions : Transaction(p)'
    <2>1. q \in Sessions /\ ~InReview(q)
      BY EngineAssumption DEF Sessions, Sweepers, InReview
    <2>2. CASE SweepRead(q)
      BY <1>4, <2>1, <2>2 DEF SweepRead
    <2>3. CASE SweepCommit(q)
      <3> DEFINE ended == work[q] \ moving[q]
                 to == IF ended = {} THEN "idle" ELSE "decided"
      <3>1. Goes(q, "sweeping", to, ended)
        BY <2>3 DEF SweepCommit
      <3> HIDE DEF ended, to
      <3> QED
        BY <1>4, <2>1, <3>1
    <2> QED
      BY <1>7, <2>2, <2>3
  <1>8. ASSUME UNCHANGED <<pc, work>>, NEW p \in Sessions PROVE Transaction(p)'
    BY <1>8, TransactionKept DEF RecInv, Transactions
  <1>9. ASSUME NEW p \in Sessions PROVE Transaction(p)'
    <2>1. CASE EngineStep
      BY <1>5, <1>6, <1>7, <1>8, <2>1 DEF EngineStep, Expire, Purge
    <2>2. CASE \E i \in Ids, u \in Users : ApproveL1(i, u)
      BY <1>8, <2>2 DEF ApproveL1
    <2> QED
      BY <2>1, <2>2
  <1> QED
    BY <1>2, <1>3, <1>9 DEF Facts, Transactions

\* A review that starts, or fails.
LEMMA ReviewKeeps ==
  ASSUME RecInv, NEW q \in Requests,
         ReviewFails(q) \/ \E k \in Recs, u \in Users, to \in Outcomes : ReviewRead(q, k, u, to)
  PROVE  Facts'
  <1> USE DEF RecInv
  <1>0. q \in Sessions /\ seen \in [Sessions -> Snapshot \cup {None}] /\ task \in [Requests -> Task \cup {None}]
    BY DEF RecTypeOK, Sessions
  <1>1. UNCHANGED <<vars, rec, posted, target>>
    BY DEF ReviewFails, ReviewRead
  <1>2. Tables' /\ CountsKept
    BY <1>1, TablesKept DEF Later
  <1>3. ASSUME NEW p \in Sessions, p # q PROVE ReadIsOld(p)' /\ Transaction(p)'
    <2>1. seen'[p] = seen[p] /\ (p \in Requests => task'[p] = task[p])
      BY <1>0, <1>3 DEF ReviewFails, ReviewRead, ReviewEnds, Reads
    <2> QED
      BY <1>1, <1>2, <2>1, ReadKept, TransactionKept DEF Transactions, vars
  <1>4. CASE ReviewFails(q)
    <2>1. seen'[q] = None /\ task'[q] = None
      BY <1>0, <1>4 DEF ReviewFails, ReviewEnds
    <2>2. ReadIsOld(q)' /\ Transaction(q)'
      BY <1>0, <2>1, NoTransaction
    <2> QED
      BY <1>2, <1>3, <2>2 DEF Facts, Transactions
  <1>5. ASSUME NEW k \in Recs, NEW u \in Users, NEW to \in Outcomes, ReviewRead(q, k, u, to)
        PROVE  Facts'
    <2>1. /\ pc[q] = "idle" /\ rec[k].status = "pending" /\ u # rec[k].counter
          /\ task' = [task EXCEPT ![q] = [rec |-> k, by |-> u, to |-> to]]
          /\ Reads(q)
      BY <1>5 DEF ReviewRead
    <2>2. /\ seen'[q] = [row |-> rec, posted |-> {n \in Recs : posted[n] > 0}]
          /\ seen'[q] \in Snapshot
          /\ ReadIsOld(q)'
      <3>1. RecTypeOK /\ CounterNeverSignsOff /\ UNCHANGED <<rec, posted>>
        BY <1>1
      <3> QED
        BY <1>0, <2>1, <3>1, ReadFresh
    <2>3. seen'[q] # None
      BY <2>2, RecAssumption
    <2>4. task'[q] = [rec |-> k, by |-> u, to |-> to]
      BY <1>0, <2>1
    <2>5. seen'[q].row[k] = rec[k] /\ pc'[q] = "idle"
      BY <1>1, <2>1, <2>2 DEF vars
    <2>6. Reviewing(q)'
      BY <2>1, <2>3, <2>4, <2>5 DEF Reviewing
    <2>7. InReview(q)'
      BY <2>4, RecAssumption DEF InReview, Task
    <2>8. Transaction(q)'
      BY <2>6, <2>7 DEF Transaction
    <2> QED
      BY <1>2, <1>3, <2>2, <2>8 DEF Facts, Transactions
  <1> QED
    BY <1>4, <1>5

-----------------------------------------------------------------------------
(* Steps that write reconciliations.                                       *)

LEMMA CountKeeps ==
  ASSUME RecInv, NEW n \in Recs, NEW u \in Users, NEW v \in Variances, Count(n, u, v)
  PROVE  Facts'
  <1> USE DEF RecInv
  <1>1. /\ rec[n].status = "absent"
        /\ rec' = [rec EXCEPT ![n].status = "pending", ![n].variance = v, ![n].counter = u]
        /\ UNCHANGED <<vars, posted, target, task, seen>>
    BY DEF Count
  <1>2. rec \in [Recs -> RecRow]
    BY DEF RecTypeOK
  <1>3. \A k \in Recs : k # n => rec'[k] = rec[k]
    BY <1>1, <1>2
  <1>4. /\ rec'[n].status = "pending" /\ rec'[n].counter = u
        /\ rec'[n].approver = None /\ rec'[n].rejecter = None
    BY <1>1, <1>2 DEF Counted, RecRow
  <1>5. CountsKept
    BY <1>1, <1>3 DEF CountsKept
  <1>6. \A i \in Ids : GoesOn(i)
    BY <1>1, RowsGoOn DEF Later, RecTypeOK
  <1>7. AboutACount' /\ PostingIsAccountedFor'
    BY <1>1, <1>5, <1>6, AboutKept, AccountsKept DEF PostingIsAccountedFor
  <1>8. Counted' /\ CounterNeverSignsOff' /\ ApprovedIsPosted'
    <2>1. u # None
      BY NoneAssumption
    <2>2. Counted'
      BY <1>3, <1>4 DEF Counted
    <2>3. CounterNeverSignsOff'
      BY <1>3, <1>4, <2>1 DEF CounterNeverSignsOff
    <2>4. ApprovedIsPosted'
      BY <1>1, <1>3, <1>4 DEF ApprovedIsPosted
    <2> QED
      BY <2>2, <2>3, <2>4
  <1>9. ASSUME NEW q \in Sessions PROVE ReadIsOld(q)' /\ Transaction(q)'
    BY <1>1, <1>5, ReadKept, TransactionKept DEF Transactions, vars
  <1> QED
    BY <1>7, <1>8, <1>9 DEF Facts, Tables, Transactions

\* A review that opens an instance for a count.
LEMMA OpeningKeeps ==
  ASSUME RecInv, CountsKept, NEW q \in Requests, NEW i \in Ids, task[q] # None,
         NEW st \in {"pending_l1", "no_approval_required"}, NEW w, NEW g,
         inst[i].status = "absent",
         ~Denied(task[q].by, seen[q].row[task[q].rec].counter),
         inst' = [inst EXCEPT ![i] = NewRow(w, task[q].by, seen[q].row[task[q].rec].counter, st, g)],
         target' = [target EXCEPT ![i] = task[q].rec],
         \A p \in Sessions : p # q => pc'[p] = pc[p] /\ work'[p] = work[p],
         ReviewEnds(q)
  PROVE  /\ AboutACount' /\ Transactions'
         /\ \A k \in Recs : posted[k] > 0 => \E j \in Ids : target'[j] = k /\ Accounts(inst'[j])
         /\ inst'[i].status = st /\ target'[i] = task[q].rec
  <1> USE DEF RecInv
  <1> DEFINE k == task[q].rec
             row == seen[q].row[k]
  <1>0. /\ q \in Sessions /\ task[q] \in Task /\ k \in Recs /\ task[q].by \in Users
        /\ inst \in [Ids -> Row] /\ target \in [Ids -> Recs \cup {None}]
    BY DEF RecTypeOK, TypeOK, Sessions, Task
  <1>1. Reviewing(q) /\ ReadIsOld(q)
    BY <1>0 DEF Transactions, Transaction, InReview
  <1>2. rec[k].status # "absent" /\ row.counter = rec[k].counter /\ rec[k].counter \in Users
    BY <1>0, <1>1 DEF Reviewing, ReadIsOld, Counted
  <1>3. task[q].by # row.counter
    BY <1>1 DEF Reviewing
  <1>4. /\ inst'[i].status = st /\ inst'[i].subject = row.counter /\ inst'[i].actor = task[q].by
        /\ target'[i] = k
    BY <1>0 DEF NewRow, Missing
  <1>5. \A j \in Ids : j # i => inst'[j] = inst[j] /\ target'[j] = target[j]
    BY <1>0
  <1>6. AboutACount'
    <2>1. rec'[k].status # "absent" /\ rec'[k].counter = rec[k].counter
      BY <1>0, <1>2 DEF CountsKept
    <2>2. ASSUME NEW j \in Ids, inst'[j].status \notin {"absent", "purged"}
          PROVE  /\ target'[j] \in Recs
                 /\ rec'[target'[j]].status # "absent"
                 /\ inst'[j].subject = rec'[target'[j]].counter
                 /\ inst'[j].actor # inst'[j].subject
      <3>1. CASE j = i
        BY <1>0, <1>2, <1>3, <1>4, <2>1, <3>1
      <3>2. CASE j # i
        BY <1>5, <2>2, <3>2 DEF AboutACount, CountsKept
      <3> QED
        BY <3>1, <3>2
    <2> QED
      BY <2>2 DEF AboutACount
  <1>7. ~Accounts(inst[i])
    <2>1. inst[i] = Missing("absent")
      BY DEF IInv, RowOK
    <2>2. ~Missing("absent").completed
      BY DEF Missing
    <2> QED
      BY <2>1, <2>2 DEF Accounts
  <1>8. ASSUME NEW n \in Recs, posted[n] > 0
        PROVE  \E j \in Ids : target'[j] = n /\ Accounts(inst'[j])
    BY <1>5, <1>7, <1>8 DEF PostingIsAccountedFor
  <1>9. seen'[q] = None /\ task'[q] = None
    BY <1>0 DEF ReviewEnds, RecTypeOK
  <1>10. ASSUME NEW p \in Sessions, p # q PROVE ReadIsOld(p)' /\ Transaction(p)'
    <2>1. seen'[p] = seen[p] /\ (p \in Requests => task'[p] = task[p])
      BY <1>0, <1>10 DEF ReviewEnds, RecTypeOK
    <2>2. ASSUME pc[p] = "decided", NEW j \in work[p] PROVE target'[j] = target[j]
      <3>1. j \in Ids /\ inst[j].status # "absent"
        BY <2>2, DecidedExists DEF RecTypeOK
      <3> QED
        BY <1>5, <3>1
    <2> QED
      BY <1>10, <2>1, <2>2, ReadKept, TransactionKept DEF Transactions
  <1>11. ReadIsOld(q)' /\ Transaction(q)'
    BY <1>0, <1>9, NoTransaction
  <1> QED
    BY <1>4, <1>6, <1>8, <1>10, <1>11 DEF Transactions

LEMMA SubmitKeeps ==
  ASSUME RecInv, NEW q \in Requests, NEW i \in Ids, ReviewSubmit(q, i)
  PROVE  Facts'
  <1> DEFINE t == task[q]
             s == seen[q].row[t.rec].counter
  <1>1. /\ task[q] # None /\ inst[i].status = "absent" /\ ~Denied(t.by, s)
        /\ inst' = [inst EXCEPT ![i] = NewRow(WorkflowFor(t.to), t.by, s, "pending_l1",
                                              InitialStage(WorkflowFor(t.to)))]
        /\ target' = [target EXCEPT ![i] = t.rec]
        /\ ReviewEnds(q) /\ UNCHANGED <<pc, work, rec, posted>>
    BY DEF ReviewSubmit, InitiatePending
  <1>2. CountsKept
    BY <1>1 DEF CountsKept
  <1>3. /\ AboutACount' /\ Transactions'
        /\ \A k \in Recs : posted[k] > 0 => \E j \in Ids : target'[j] = k /\ Accounts(inst'[j])
    BY <1>1, <1>2, OpeningKeeps
  <1>4. PostingIsAccountedFor'
    BY <1>1, <1>3 DEF PostingIsAccountedFor
  <1> QED
    BY <1>1, <1>3, <1>4
    DEF Facts, Tables, RecInv, Counted, CounterNeverSignsOff, ApprovedIsPosted

\* Bypassed: the review makes its change, and posts what it approves.
LEMMA CommitKeeps ==
  ASSUME RecInv, NEW q \in Requests, NEW i \in Ids, ReviewCommit(q, i)
  PROVE  Facts'
  <1> DEFINE t == task[q]
             k == t.rec
             row == seen[q].row[k]
             new == Reviewed(row, t.by, t.to)
             K == IF t.to = "approved" /\ row.variance # "none" THEN {k} ELSE {}
             w == WorkflowFor(t.to)
  <1>1. /\ t # None /\ inst[i].status = "absent" /\ ~Denied(t.by, row.counter)
        /\ Goes(q, "idle", "mutated", {i})
        /\ inst' = [inst EXCEPT ![i] = NewRow(w, t.by, row.counter, "no_approval_required", None)]
        /\ target' = [target EXCEPT ![i] = k]
        /\ rec' = [rec EXCEPT ![k] = Flushed(rec[k], row, new)]
        /\ Posts(K)
        /\ ReviewEnds(q)
    BY DEF ReviewCommit, InitiateBypass
  <1>2. /\ q \in Sessions /\ t \in Task /\ k \in Recs /\ t.by \in Users /\ t.to \in Outcomes
        /\ rec \in [Recs -> RecRow] /\ posted \in [Recs -> Nat]
        /\ pc \in [Sessions -> Steps] /\ work \in [Sessions -> SUBSET Ids]
    BY <1>1 DEF RecInv, RecTypeOK, TypeOK, Sessions, Task
  <1>3. Reviewing(q) /\ ReadIsOld(q)
    BY <1>1, <1>2 DEF RecInv, Transactions, Transaction, InReview
  <1>4. /\ rec[k].status # "absent" /\ row.counter = rec[k].counter
        /\ row.variance = rec[k].variance /\ rec[k].counter \in Users
        /\ row.status = "pending" /\ t.by # rec[k].counter
    BY <1>2, <1>3 DEF Reviewing, ReadIsOld, RecInv, Counted
  <1>5. row \in RecRow
    BY <1>2, <1>3 DEF Reviewing, RecInv, RecTypeOK, Snapshot
  <1>6. /\ new \in RecRow /\ new.status = t.to
        /\ new.approver \in {t.by, None} /\ new.rejecter \in {t.by, None}
    BY <1>2, <1>5, ReviewedRow
  <1>7. /\ rec'[k].status = t.to
        /\ rec'[k].counter = rec[k].counter /\ rec'[k].variance = rec[k].variance
        /\ rec'[k].approver \in {rec[k].approver, t.by, None}
        /\ rec'[k].rejecter \in {rec[k].rejecter, t.by, None}
    <2>1. rec'[k] = Flushed(rec[k], row, new) /\ rec[k] \in RecRow
      BY <1>1, <1>2
    <2>2. new.status # row.status
      BY <1>2, <1>4, <1>6 DEF Outcomes
    <2> HIDE DEF row, new, k, t
    <2> QED
      BY <1>5, <1>6, <2>1, <2>2, FlushedRow
  <1>8. \A n \in Recs : n # k => rec'[n] = rec[n]
    BY <1>1, <1>2
  <1>9. \A n \in Recs : posted'[n] = IF n \in K THEN posted[n] + 1 ELSE posted[n]
    BY <1>1 DEF Posts
  <1> HIDE DEF t, k, row, new, K, w
  <1>10. \A n \in Recs : posted[n] > 0 => posted'[n] > 0
    BY <1>2, <1>9
  <1>11. CountsKept
    <2>1. t.to # "absent"
      BY <1>2 DEF Outcomes
    <2> QED
      BY <1>7, <1>8, <1>10, <2>1 DEF CountsKept
  <1>12. /\ AboutACount' /\ Transactions'
         /\ \A n \in Recs : posted[n] > 0 => \E j \in Ids : target'[j] = n /\ Accounts(inst'[j])
         /\ inst'[i].status = "no_approval_required" /\ target'[i] = k
    <2>1. \A p \in Sessions : p # q => pc'[p] = pc[p] /\ work'[p] = work[p]
      BY <1>1, <1>2 DEF Goes
    <2> QED
      BY <1>1, <1>11, <2>1, OpeningKeeps DEF t, k, row
  <1>13. PostingIsAccountedFor'
    <2> SUFFICES ASSUME NEW n \in Recs, posted'[n] > 0
                 PROVE  \E j \in Ids : target'[j] = n /\ Accounts(inst'[j])
      BY DEF PostingIsAccountedFor
    <2>1. CASE n \in K
      BY <1>12, <2>1 DEF K, Accounts
    <2>2. CASE n \notin K
      BY <1>9, <1>12, <2>2
    <2> QED
      BY <2>1, <2>2
  <1>14. ApprovedIsPosted'
    <2> SUFFICES ASSUME NEW n \in Recs, rec'[n].status = "approved", rec'[n].variance # "none"
                 PROVE  posted'[n] > 0
      BY DEF ApprovedIsPosted
    <2>1. CASE n = k
      <3>1. n \in K
        BY <1>4, <1>7, <2>1 DEF K
      <3> QED
        BY <1>2, <1>9, <3>1
    <2>2. CASE n # k
      BY <1>8, <1>10, <2>2 DEF RecInv, ApprovedIsPosted
    <2> QED
      BY <2>1, <2>2
  <1>15. Counted' /\ CounterNeverSignsOff'
    <2>1. t.to # "absent" /\ rec[k].counter # None
      BY <1>2, <1>4, NoneAssumption DEF Outcomes
    <2>2. Counted'
      BY <1>4, <1>7, <1>8, <2>1 DEF RecInv, Counted
    <2>3. CounterNeverSignsOff'
      BY <1>4, <1>7, <1>8, <2>1 DEF RecInv, CounterNeverSignsOff
    <2> QED
      BY <2>2, <2>3
  <1> QED
    BY <1>12, <1>13, <1>14, <1>15 DEF Facts, Tables

\* The callback reads what it is about to change.
LEMMA CallbackReadKeeps ==
  ASSUME RecInv, NEW q \in Sessions, CallbackRead(q)
  PROVE  Facts'
  <1> USE DEF RecInv
  <1>1. /\ pc[q] = "decided" /\ q \notin Workers /\ Reads(q)
        /\ UNCHANGED <<vars, rec, posted, target, task>>
    BY DEF CallbackRead
  <1>2. Tables' /\ CountsKept
    BY <1>1, TablesKept DEF Later
  <1>3. RecTypeOK /\ CounterNeverSignsOff /\ UNCHANGED <<rec, posted>>
    BY <1>1
  <1>4. /\ seen'[q] = [row |-> rec, posted |-> {n \in Recs : posted[n] > 0}]
        /\ ReadIsOld(q)'
        /\ \A p \in Sessions : p # q => seen'[p] = seen[p]
    BY <1>1, <1>3, ReadFresh
  <1>5. ASSUME NEW i \in work[q] PROVE rec[target[i]].status # "absent"
    <2>1. i \in Ids /\ inst[i].status \notin {"absent", "purged"}
      BY <1>1, DecidedExists DEF RecTypeOK
    <2> QED
      BY <2>1 DEF AboutACount
  <1>6. CallingBack(q)'
    BY <1>1, <1>4, <1>5 DEF CallingBack, vars
  <1>7. ~InReview(q)
    BY <1>1 DEF Transactions, Transaction, Reviewing
  <1>8. Transaction(q)'
    BY <1>1, <1>6, <1>7 DEF Transaction, InReview
  <1>9. ASSUME NEW p \in Sessions, p # q PROVE ReadIsOld(p)' /\ Transaction(p)'
    BY <1>1, <1>2, <1>4, <1>9, ReadKept, TransactionKept DEF Transactions, vars
  <1> QED
    BY <1>2, <1>4, <1>8, <1>9 DEF Facts, Transactions

\* A session that ends what it was doing leaves no transaction open.
LEMMA EndKeeps ==
  ASSUME RecInv, CountsKept, NEW q \in Sessions, NEW from, Goes(q, from, "idle", {}),
         seen' = [seen EXCEPT ![q] = None], UNCHANGED <<task, target>>, ~InReview(q)
  PROVE  Transactions'
  <1> USE DEF RecInv
  <1>1. seen'[q] = None /\ \A p \in Sessions : p # q => seen'[p] = seen[p]
    BY DEF RecTypeOK
  <1>2. ReadIsOld(q)' /\ Transaction(q)'
    BY <1>1, NoTransaction DEF InReview
  <1>3. ASSUME NEW p \in Sessions, p # q PROVE ReadIsOld(p)' /\ Transaction(p)'
    <2>1. pc'[p] = pc[p] /\ work'[p] = work[p]
      BY <1>3 DEF Goes, RecTypeOK, TypeOK
    <2> QED
      BY <1>1, <1>3, <2>1, ReadKept, TransactionKept DEF Transactions
  <1> QED
    BY <1>2, <1>3 DEF Transactions

\* A worker has read nothing, and a session that dies forgets what it read.
LEMMA SessionEndKeeps ==
  ASSUME RecInv, NEW q \in Sessions, SessionDies(q) \/ (q \in Workers /\ WorkerCommit(q))
  PROVE  Facts'
  <1> USE DEF RecInv
  <1>1. Later /\ UNCHANGED <<rec, posted, target, task>>
    BY DEF SessionDies, WorkerCommit, Later, recVars
  <1>2. Tables' /\ CountsKept
    BY <1>1, TablesKept
  <1>3. pc[q] # "idle"
    BY DEF SessionDies, WorkerCommit, Dies, CallbackCommit, Goes
  <1>4. ~InReview(q)
    BY <1>3 DEF Transactions, Transaction, Reviewing
  <1>5. seen' = [seen EXCEPT ![q] = None]
    <2>1. CASE SessionDies(q)
      BY <2>1 DEF SessionDies
    <2>2. CASE q \in Workers /\ WorkerCommit(q)
      <3>1. seen[q] = None
        BY <1>4, <2>2 DEF Transactions, Transaction, CallingBack
      <3>2. seen' = seen
        BY <2>2 DEF WorkerCommit, recVars
      <3> QED
        BY <3>1, <3>2 DEF RecTypeOK
    <2> QED
      BY <2>1, <2>2
  <1>6. \E from : Goes(q, from, "idle", {})
    BY DEF SessionDies, WorkerCommit, Dies, CallbackCommit
  <1>7. Transactions'
    BY <1>1, <1>2, <1>4, <1>5, <1>6, EndKeeps
  <1> QED
    BY <1>2, <1>7 DEF Facts

\* The callback signs and posts from what it read.
LEMMA CallbackWriteKeeps ==
  ASSUME RecInv, NEW q \in Sessions, CallbackWrite(q)
  PROVE  Facts'
  <1>1. /\ seen[q] # None /\ CallbackCommit(q)
        /\ seen' = [seen EXCEPT ![q] = None] /\ UNCHANGED <<target, task>>
    BY DEF CallbackWrite
  <1>2. PICK last \in LastOf(q) :
          /\ WritesBack(q, last)
          /\ Posts({k \in Hit(q) : /\ NewStatus(inst[last[k]]) = "approved"
                                   /\ seen[q].row[k].variance # "none"
                                   /\ k \notin seen[q].posted})
    BY DEF CallbackWrite
  <1>3. /\ pc[q] = "decided" /\ Goes(q, "decided", "idle", {}) /\ UNCHANGED inst
        /\ rec \in [Recs -> RecRow] /\ posted \in [Recs -> Nat] /\ seen[q] \in Snapshot
        /\ TypeOK /\ IInv /\ inst \in [Ids -> Row]
    BY <1>1 DEF CallbackCommit, Goes, RecInv, RecTypeOK, TypeOK
  <1>4. ~InReview(q) /\ CallingBack(q) /\ ReadIsOld(q)
    BY <1>1, <1>3 DEF RecInv, Transactions, Transaction, Reviewing
  <1>5. ASSUME NEW k \in Hit(q)
        PROVE  /\ last[k] \in work[q] /\ target[last[k]] = k /\ last[k] \in Ids
               /\ inst[last[k]].completed /\ k \in Recs
               /\ RowOK(inst[last[k]]) /\ inst[last[k]] \in Row
               /\ inst[last[k]].subject = rec[k].counter /\ rec[k].counter \in Users
               /\ inst[last[k]].actor # inst[last[k]].subject
               /\ rec[k].status # "absent" /\ seen[q].row[k].status # "absent"
    <2>1. last[k] \in work[q] /\ target[last[k]] = k
      BY <1>2 DEF LastOf
    <2>2. /\ last[k] \in Ids /\ inst[last[k]].completed
          /\ inst[last[k]].status \notin {"absent", "purged"}
      BY <1>3, <2>1, DecidedExists
    <2>3. /\ k \in Recs /\ rec[k].status # "absent"
          /\ inst[last[k]].subject = rec[k].counter
          /\ inst[last[k]].actor # inst[last[k]].subject
      BY <2>1, <2>2 DEF RecInv, AboutACount
    <2>4. rec[k].counter \in Users
      BY <2>3 DEF RecInv, Counted
    <2>5. seen[q].row[k].status # "absent"
      BY <1>4, <2>1 DEF CallingBack
    <2>6. RowOK(inst[last[k]]) /\ inst[last[k]] \in Row
      BY <1>3, <2>2 DEF IInv
    <2> QED
      BY <2>1, <2>2, <2>3, <2>4, <2>5, <2>6
  <1>6. ASSUME NEW k \in Hit(q)
        PROVE  /\ rec'[k].status \in {rec[k].status, NewStatus(inst[last[k]])}
               /\ rec'[k].status \in Outcomes \cup {rec[k].status}
               /\ rec'[k].counter = rec[k].counter /\ rec'[k].variance = rec[k].variance
               /\ rec[k].counter \notin {rec'[k].approver, rec'[k].rejecter}
    <2> DEFINE row == seen[q].row[k]
               u == Decider(inst[last[k]])
               to == NewStatus(inst[last[k]])
               new == CalledBack(row, u, to)
    <2>1. k \in Recs /\ row \in RecRow /\ rec[k] \in RecRow /\ to \in Outcomes
      BY <1>3, <1>5, <1>6, WorkflowType DEF Snapshot
    <2>2. u \in Someone /\ u # rec[k].counter
      BY <1>5, <1>6, DeciderDidNotCount
    <2>3. rec[k].counter \notin {row.approver, row.rejecter}
      BY <1>1, <1>4, <1>5, <1>6 DEF ReadIsOld
    <2>4. rec[k].counter \notin {rec[k].approver, rec[k].rejecter}
      BY <1>5, <1>6 DEF RecInv, CounterNeverSignsOff
    <2>5. rec'[k] = Flushed(rec[k], row, new)
      BY <1>2, <1>6, <2>1 DEF WritesBack
    <2> HIDE DEF row, u, to
    <2>6. /\ new \in RecRow /\ new.status = to
          /\ new.approver \in {u, row.approver} /\ new.rejecter \in {u, row.rejecter}
      BY <2>1, <2>2, CalledBackRow
    <2> HIDE DEF new
    <2>7. /\ rec'[k].counter = rec[k].counter /\ rec'[k].variance = rec[k].variance
          /\ rec'[k].status \in {rec[k].status, new.status}
          /\ rec'[k].approver \in {rec[k].approver, new.approver}
          /\ rec'[k].rejecter \in {rec[k].rejecter, new.rejecter}
      BY <2>1, <2>5, <2>6, FlushedRow
    <2> QED
      BY <2>1, <2>2, <2>3, <2>4, <2>6, <2>7 DEF to
  <1>7. \A k \in Recs : k \notin Hit(q) => rec'[k] = rec[k]
    BY <1>2 DEF WritesBack
  <1> DEFINE K == {k \in Hit(q) : /\ NewStatus(inst[last[k]]) = "approved"
                                  /\ seen[q].row[k].variance # "none"
                                  /\ k \notin seen[q].posted}
  <1>8. \A k \in Recs : posted'[k] = IF k \in K THEN posted[k] + 1 ELSE posted[k]
    BY <1>2 DEF Posts
  <1> HIDE DEF K
  <1>9. \A k \in Recs : (posted[k] > 0 => posted'[k] > 0) /\ (k \in K => posted'[k] > 0)
    BY <1>3, <1>8
  <1>10. CountsKept
    <2>1. "absent" \notin Outcomes
      BY DEF Outcomes
    <2> QED
      BY <1>6, <1>7, <1>9, <2>1 DEF CountsKept
  <1>11. \A i \in Ids : GoesOn(i)
    BY <1>1, <1>3, RowsGoOn DEF Later
  <1>12. AboutACount'
    BY <1>1, <1>10, <1>11, AboutKept DEF RecInv
  <1>13. PostingIsAccountedFor'
    <2> SUFFICES ASSUME NEW k \in Recs, posted'[k] > 0
                 PROVE  \E j \in Ids : target'[j] = k /\ Accounts(inst'[j])
      BY DEF PostingIsAccountedFor
    <2>1. CASE k \in K
      <3>1. k \in Hit(q)
        BY <2>1 DEF K
      <3> QED
        BY <1>1, <1>3, <1>5, <3>1 DEF Accounts
    <2>2. CASE k \notin K
      BY <1>1, <1>8, <1>11, <2>2, AccountsKept DEF RecInv
    <2> QED
      BY <2>1, <2>2
  <1>14. ApprovedIsPosted'
    <2> SUFFICES ASSUME NEW k \in Recs, rec'[k].status = "approved", rec'[k].variance # "none"
                 PROVE  posted'[k] > 0
      BY DEF ApprovedIsPosted
    <2>1. CASE k \in Hit(q) /\ rec[k].status # "approved"
      <3>1. NewStatus(inst[last[k]]) = "approved"
        BY <1>6, <2>1
      <3>2. seen[q].row[k].variance # "none"
        BY <1>1, <1>4, <1>5, <1>6, <2>1 DEF ReadIsOld
      <3>3. k \in seen[q].posted => posted[k] > 0
        BY <1>1, <1>4 DEF ReadIsOld
      <3> QED
        BY <1>9, <2>1, <3>1, <3>2, <3>3 DEF K
    <2>2. CASE k \notin Hit(q) \/ rec[k].status = "approved"
      <3>1. rec[k].status = "approved" /\ rec[k].variance # "none"
        BY <1>6, <1>7, <2>2
      <3> QED
        BY <1>9, <3>1 DEF RecInv, ApprovedIsPosted
    <2> QED
      BY <2>1, <2>2
  <1>15. Counted'
    <2>1. "absent" \notin Outcomes
      BY DEF Outcomes
    <2> QED
      BY <1>5, <1>6, <1>7, <2>1 DEF RecInv, Counted
  <1>16. CounterNeverSignsOff'
    BY <1>6, <1>7 DEF RecInv, CounterNeverSignsOff
  <1>17. Transactions'
    BY <1>1, <1>3, <1>4, <1>10, EndKeeps
  <1> QED
    BY <1>12, <1>13, <1>14, <1>15, <1>16, <1>17 DEF Facts, Tables

-----------------------------------------------------------------------------
(* The theorems.                                                           *)

\* Types are kept.
LEMMA NextRecType ==
  ASSUME RecInv, [RecNext]_allVars
  PROVE  RecTypeOK'
  <1> USE DEF RecInv, RecTypeOK
  <1>1. TypeOK'
    BY EngineStepOf, NextTypeOK
  <1>2. ASSUME NEW k \in Recs, NEW u \in Users, NEW v \in Variances, Count(k, u, v)
        PROVE  RecTypeOK'
    <2>1. rec' = [rec EXCEPT ![k] = [@ EXCEPT !.status = "pending", !.variance = v, !.counter = u]]
      BY <1>2 DEF Count
    <2>2. [rec[k] EXCEPT !.status = "pending", !.variance = v, !.counter = u] \in RecRow
      BY DEF RecRow, Someone
    <2> QED
      BY <1>1, <1>2, <2>1, <2>2 DEF Count
  <1>3. ASSUME NEW q \in Requests, NEW k \in Recs, NEW u \in Users, NEW to \in Outcomes,
               ReviewRead(q, k, u, to)
        PROVE  RecTypeOK'
    <2>1. seen' \in [Sessions -> Snapshot \cup {None}]
      BY <1>3 DEF ReviewRead, Reads, Snapshot
    <2>2. task' \in [Requests -> Task \cup {None}]
      BY <1>3 DEF ReviewRead, Task
    <2> QED
      BY <1>1, <1>3, <2>1, <2>2 DEF ReviewRead
  <1>4. ASSUME NEW q \in Requests, NEW i \in Ids, ReviewSubmit(q, i) PROVE RecTypeOK'
    <2>1. task[q].rec \in Recs
      BY <1>4 DEF ReviewSubmit, Task
    <2> QED
      BY <1>1, <1>4, <2>1 DEF ReviewSubmit, ReviewEnds
  <1>5. ASSUME NEW q \in Requests, NEW i \in Ids, ReviewCommit(q, i) PROVE RecTypeOK'
    <2> DEFINE t == task[q]
               row == seen[q].row[t.rec]
    <2>1. t \in Task /\ t.rec \in Recs /\ row \in RecRow /\ t.by \in Users /\ t.to \in Outcomes
      <3>1. t \in Task
        BY <1>5 DEF ReviewCommit
      <3>2. seen[q] # None
        BY <1>5 DEF ReviewCommit, Transactions, Transaction, InReview, Reviewing, Sessions
      <3> QED
        BY <3>1, <3>2 DEF Task, Snapshot, Sessions
    <2>2. /\ rec' = [rec EXCEPT ![t.rec] = Flushed(rec[t.rec], row, Reviewed(row, t.by, t.to))]
          /\ posted' \in [Recs -> Nat]
          /\ target' = [target EXCEPT ![i] = t.rec] /\ ReviewEnds(q)
      BY <1>5 DEF ReviewCommit, Posts
    <2> HIDE DEF t, row
    <2>3. Flushed(rec[t.rec], row, Reviewed(row, t.by, t.to)) \in RecRow
      BY <2>1, ReviewedRow, FlushedRow
    <2> QED
      BY <1>1, <2>1, <2>2, <2>3 DEF ReviewEnds
  <1>6. ASSUME NEW q \in Requests, ReviewFails(q) PROVE RecTypeOK'
    BY <1>1, <1>6 DEF ReviewFails, ReviewEnds
  <1>7. ASSUME NEW q \in Sessions, CallbackRead(q) PROVE RecTypeOK'
    <2>1. seen' \in [Sessions -> Snapshot \cup {None}]
      BY <1>7 DEF CallbackRead, Reads, Snapshot
    <2> QED
      BY <1>1, <1>7, <2>1 DEF CallbackRead
  <1>8. ASSUME NEW q \in Sessions, CallbackWrite(q) PROVE RecTypeOK'
    <2>1. PICK last \in LastOf(q) : WritesBack(q, last) /\ \E K : Posts(K)
      BY <1>8 DEF CallbackWrite
    <2>2. seen[q] \in Snapshot /\ UNCHANGED <<target, task>> /\ seen' = [seen EXCEPT ![q] = None]
          /\ pc[q] = "decided"
      BY <1>8 DEF CallbackWrite, CallbackCommit, Goes
    <2>3. posted' \in [Recs -> Nat]
      BY <2>1 DEF Posts
    <2>4. ASSUME NEW k \in Recs
          PROVE  (IF k \in Hit(q)
                  THEN Flushed(rec[k], seen[q].row[k],
                               CalledBack(seen[q].row[k], Decider(inst[last[k]]), NewStatus(inst[last[k]])))
                  ELSE rec[k]) \in RecRow
      <3>1. CASE k \in Hit(q)
        <4>1. inst[last[k]] \in Row
          <5>1. last[k] \in work[q]
            BY <2>1, <3>1 DEF LastOf
          <5> QED
            BY <2>2, <5>1, DecidedExists DEF TypeOK
        <4>2. Decider(inst[last[k]]) \in Someone /\ NewStatus(inst[last[k]]) \in Outcomes
          BY <4>1, WorkflowType DEF Decider, Row
        <4>3. seen[q].row[k] \in RecRow /\ rec[k] \in RecRow
          BY <2>2 DEF Snapshot
        <4>4. CalledBack(seen[q].row[k], Decider(inst[last[k]]), NewStatus(inst[last[k]])) \in RecRow
          BY <4>2, <4>3, CalledBackRow
        <4> QED
          BY <3>1, <4>3, <4>4, FlushedRow
      <3>2. CASE k \notin Hit(q)
        BY <3>2
      <3> QED
        BY <3>1, <3>2
    <2>5. rec' \in [Recs -> RecRow]
      BY <2>1, <2>4 DEF WritesBack
    <2> QED
      BY <1>1, <2>2, <2>3, <2>5
  <1>9. ASSUME NEW q \in Sessions, SessionDies(q) PROVE RecTypeOK'
    BY <1>1, <1>9 DEF SessionDies
  <1>10. CASE UNCHANGED recVars
    BY <1>1, <1>10 DEF recVars
  <1>11. Requests \cup Daemons \subseteq Sessions
    BY DEF Sessions, Sweepers
  <1> QED
    BY <1>2, <1>3, <1>4, <1>5, <1>6, <1>7, <1>8, <1>9, <1>10, <1>11
    DEF RecNext, Review, WorkerCommit, EngineStep, allVars

LEMMA NextFacts ==
  ASSUME RecInv, [RecNext]_allVars
  PROVE  Facts'
  <1>1. ASSUME NEW q \in Requests, Review(q) PROVE Facts'
    BY <1>1, ReviewKeeps, SubmitKeeps, CommitKeeps DEF Review
  <1>2. ASSUME NEW q \in Requests \cup Daemons, CallbackRead(q) \/ CallbackWrite(q) PROVE Facts'
    <2>1. q \in Sessions
      BY DEF Sessions, Sweepers
    <2> QED
      BY <1>2, <2>1, CallbackReadKeeps, CallbackWriteKeeps
  <1>3. ASSUME NEW q \in Workers, WorkerCommit(q) PROVE Facts'
    <2>1. q \in Sessions
      BY DEF Sessions, Sweepers
    <2> QED
      BY <1>3, <2>1, SessionEndKeeps
  <1>4. CASE UNCHANGED allVars
    <2>1. Tables' /\ CountsKept
      BY <1>4, TablesKept DEF allVars, recVars, Later
    <2>2. \A q \in Sessions : ReadIsOld(q)' /\ Transaction(q)'
      BY <1>4, <2>1, ReadKept, TransactionKept DEF RecInv, Transactions, allVars, recVars, vars
    <2> QED
      BY <2>1, <2>2 DEF Facts, Transactions
  <1>5. CASE EngineStep
    BY <1>5, EngineKeeps DEF EngineStep
  <1> QED
    BY <1>1, <1>2, <1>3, <1>4, <1>5, CountKeeps, SessionEndKeeps, EngineKeeps DEF RecNext

LEMMA InitRecInv == RecInit => RecInv
  <1> SUFFICES ASSUME RecInit PROVE RecInv
    OBVIOUS
  <1>1. TypeOK /\ IInv
    BY InitTypeOK, InitIInv DEF RecInit
  <1>2. RecTypeOK
    BY <1>1 DEF RecInit, RecTypeOK, RecRow, Variances, Someone
  <1>3. Counted /\ CounterNeverSignsOff /\ ApprovedIsPosted /\ PostingIsAccountedFor
    BY DEF RecInit, Counted, CounterNeverSignsOff, ApprovedIsPosted, PostingIsAccountedFor
  <1>4. AboutACount
    BY DEF RecInit, Init, AboutACount, Missing
  <1>5. Transactions
    BY DEF RecInit, Transactions, ReadIsOld, Transaction, InReview
  <1> QED
    BY <1>1, <1>2, <1>3, <1>4, <1>5 DEF RecInv

\* The inductive invariant, for any number of users, reconciliations, instances
\* and sessions.
THEOREM ReconciliationInvariance == RecSpec => []RecInv
  <1>1. ASSUME RecInv, [RecNext]_allVars PROVE RecInv'
    <2>1. IInv'
      BY <1>1, EngineStepOf, NextIInv DEF RecInv, RecTypeOK
    <2> QED
      BY <1>1, <2>1, NextRecType, NextFacts DEF RecInv, Facts, Tables
  <1>2. RecInv /\ [RecNext]_allVars => RecInv'
    BY <1>1
  <1> QED
    BY <1>2, InitRecInv, PTL DEF RecSpec

\* Reconciliations are one more client of the approval engine: what the engine
\* promises holds with them too (approve_steel_stock_reconciliation and its
\* callback change an instance only through approval_service).
THEOREM ReconciliationUsesEngine == RecSpec => Spec
  <1>1. RecInit => Init
    BY DEF RecInit
  <1>2. RecInv /\ [RecNext]_allVars => [Next]_vars
    BY EngineStepOf DEF RecInv
  <1> QED
    BY <1>1, <1>2, ReconciliationInvariance, PTL DEF RecSpec, Spec

\* Type correctness.
THEOREM ReconciliationTypes == RecSpec => []RecTypeOK
  <1>1. RecInv => RecTypeOK
    BY DEF RecInv
  <1> QED
    BY <1>1, ReconciliationInvariance, PTL

\* Nobody signs off his own count, in the router or through the callback.
THEOREM CountersNeverSignOff == RecSpec => []CounterNeverSignsOff
  <1>1. RecInv => CounterNeverSignsOff
    BY DEF RecInv
  <1> QED
    BY <1>1, ReconciliationInvariance, PTL

\* An approved variance is in the ledger.
THEOREM ApprovalsArePosted == RecSpec => []ApprovedIsPosted
  <1>1. RecInv => ApprovedIsPosted
    BY DEF RecInv
  <1> QED
    BY <1>1, ReconciliationInvariance, PTL

\* Every adjustment has an approval instance that accounts for it.
THEOREM PostingsAreAccountedFor == RecSpec => []PostingIsAccountedFor
  <1>1. RecInv => PostingIsAccountedFor
    BY DEF RecInv
  <1> QED
    BY <1>1, ReconciliationInvariance, PTL
-----------------------------------------------------------------------------
(* Settled reviews, and what is posted twice.                              *)

\* The part of a step that SettledStays depends on: a settled review stays
\* settled, what is posted is settled with it, and nobody reads what is not there.
StaysSettled ==
  \A k \in Recs : /\ Settled(rec[k]) => Settled(rec'[k])
                  /\ posted'[k] > 0 => posted[k] > 0 \/ Settled(rec'[k])

NothingInvented ==
  \A q \in Sessions : \/ seen'[q] \in {seen[q], None}
                      \/ seen'[q] = [row |-> rec, posted |-> {k \in Recs : posted[k] > 0}]

\* A second posting shows in the copy its session had read.
AgainIsStale ==
  \A k \in Recs : posted[k] > 0 /\ posted'[k] > posted[k] =>
      \E q \in Sessions : seen[q] # None /\ seen'[q] = None /\ Outdated(q, k)

\* Each reconciliation takes a step of its promise.
StockSteps == \A k \in Recs : Stock(k)!VStep

\* All of them: one step of the induction, of the action property and of the
\* refinement.
Settling == StaysSettled /\ NothingInvented /\ AgainIsStale /\ StockSteps

\* Steps of the promise, in terms of rows.
LEMMA StockMoves ==
  ASSUME NEW k \in Recs, RecTypeOK, ApprovedIsPosted',
         rec[k].status # "absent", rec'[k].status \in Outcomes,
         rec'[k].variance = rec[k].variance,
         \/ posted'[k] = posted[k]
         \/ /\ posted'[k] = posted[k] + 1
            /\ rec[k].variance # "none" /\ rec'[k].status = "approved"
  PROVE  Stock(k)!VStep
  <1>1. posted[k] \in Nat
    BY DEF RecTypeOK
  <1>2. rec'[k].status = "approved" /\ rec'[k].variance # "none" => posted'[k] > 0
    BY DEF ApprovedIsPosted
  <1>3. CASE posted'[k] = posted[k] + 1 /\ rec[k].variance # "none" /\ rec'[k].status = "approved"
    BY <1>3 DEF Stock!VStep, Stock!VNext, Stock!Post
  <1>4. CASE posted'[k] = posted[k] /\ rec'[k].status = "approved"
    BY <1>1, <1>2, <1>4 DEF Stock!VStep, Stock!VNext, Stock!Approve
  <1>5. CASE posted'[k] = posted[k] /\ rec'[k].status = "rejected"
    BY <1>5 DEF Stock!VStep, Stock!VNext, Stock!Reject
  <1> QED
    BY <1>3, <1>4, <1>5 DEF Outcomes

LEMMA StockStutters ==
  ASSUME NEW k \in Recs, rec'[k] = rec[k], posted'[k] = posted[k]
  PROVE  Stock(k)!VStep
  BY DEF Stock!VStep

LEMMA SettlingKeeps ==
  ASSUME SettledStays, CopiesArePosted, ApprovedIsPosted, StaysSettled, NothingInvented
  PROVE  SettledStays' /\ CopiesArePosted'
  <1> SUFFICES ASSUME NEW k \in Recs
               PROVE  /\ posted'[k] > 0 => Settled(rec'[k])
                      /\ \A q \in Sessions : seen'[q] # None =>
                            /\ Settled(seen'[q].row[k]) => Settled(rec'[k])
                            /\ seen'[q].row[k].status = "approved"
                                  /\ seen'[q].row[k].variance # "none" => k \in seen'[q].posted
    BY DEF SettledStays, CopiesArePosted, Settled
  <1>1. posted'[k] > 0 => Settled(rec'[k])
    BY DEF SettledStays, StaysSettled
  <1>2. ASSUME NEW q \in Sessions, seen'[q] # None
        PROVE  /\ Settled(seen'[q].row[k]) => Settled(rec'[k])
               /\ seen'[q].row[k].status = "approved"
                     /\ seen'[q].row[k].variance # "none" => k \in seen'[q].posted
    <2>1. CASE seen'[q] = seen[q]
      BY <1>2, <2>1 DEF SettledStays, StaysSettled, CopiesArePosted
    <2>2. CASE seen'[q] = [row |-> rec, posted |-> {n \in Recs : posted[n] > 0}]
      <3>1. seen'[q].row = rec /\ seen'[q].posted = {n \in Recs : posted[n] > 0}
        BY <2>2
      <3> QED
        BY <3>1 DEF StaysSettled, ApprovedIsPosted
    <2> QED
      BY <1>2, <2>1, <2>2 DEF NothingInvented
  <1> QED
    BY <1>1, <1>2

\* A step that writes neither a reconciliation nor the ledger settles nothing.
LEMMA UnwrittenSettles ==
  ASSUME UNCHANGED <<rec, posted>>, NothingInvented, RecTypeOK
  PROVE  Settling
  <1>1. StockSteps
    BY StockStutters DEF StockSteps
  <1> QED
    BY <1>1 DEF Settling, StaysSettled, AgainIsStale, RecTypeOK

\* A new count was not settled before, and nothing is posted for it.
LEMMA CountSettles ==
  ASSUME RecInv, NEW k \in Recs, NEW u \in Users, NEW v \in Variances, Count(k, u, v)
  PROVE  Settling
  <1>1. /\ rec[k].status = "absent" /\ UNCHANGED <<posted, seen>>
        /\ \A n \in Recs : n # k => rec'[n] = rec[n]
        /\ posted \in [Recs -> Nat]
    BY DEF Count, RecInv, RecTypeOK
  <1>2. ~Settled(rec[k])
    BY <1>1 DEF Settled, Outcomes
  <1>3. Stock(k)!VStep
    <2>1. rec'[k].status = "pending" /\ rec'[k].variance = v
      BY DEF Count, RecInv, RecTypeOK, RecRow
    <2> QED
      BY <1>1, <2>1 DEF Stock!VStep, Stock!VNext, Stock!CountStock
  <1>4. StockSteps
    BY <1>1, <1>3, StockStutters DEF StockSteps
  <1> QED
    BY <1>1, <1>2, <1>4 DEF Settling, StaysSettled, NothingInvented, AgainIsStale

\* A bypassed review settles the row it read as pending: when the variance is
\* posted already, the row has been settled since.
LEMMA CommitSettles ==
  ASSUME RecInv, SettledStays, ApprovedIsPosted',
         NEW q \in Requests, NEW i \in Ids, ReviewCommit(q, i)
  PROVE  Settling
  <1> DEFINE t == task[q]
             k == t.rec
             row == seen[q].row[k]
             new == Reviewed(row, t.by, t.to)
             K == IF t.to = "approved" /\ row.variance # "none" THEN {k} ELSE {}
  <1>1. /\ t # None /\ ReviewEnds(q) /\ Posts(K)
        /\ rec' = [rec EXCEPT ![k] = Flushed(rec[k], row, new)]
    BY DEF ReviewCommit
  <1>2. /\ q \in Sessions /\ t \in Task /\ k \in Recs /\ t.by \in Users /\ t.to \in Outcomes
        /\ rec \in [Recs -> RecRow] /\ posted \in [Recs -> Nat]
        /\ seen \in [Sessions -> Snapshot \cup {None}]
    BY <1>1 DEF RecInv, RecTypeOK, Sessions, Task
  <1>3. /\ seen[q] # None /\ row.status = "pending"
        /\ rec[k].status # "absent" /\ row.variance = rec[k].variance
    BY <1>1, <1>2 DEF RecInv, Transactions, Transaction, InReview, Reviewing, ReadIsOld
  <1>4. row \in RecRow
    BY <1>2, <1>3 DEF Snapshot
  <1>5. new \in RecRow /\ new.status = t.to /\ new.status # row.status
    BY <1>2, <1>3, <1>4, ReviewedRow DEF Outcomes
  <1>6. rec'[k].status = t.to /\ rec'[k].variance = rec[k].variance
    <2>1. rec'[k] = Flushed(rec[k], row, new) /\ rec[k] \in RecRow
      BY <1>1, <1>2
    <2> HIDE DEF row, new, k, t
    <2> QED
      BY <1>4, <1>5, <2>1, FlushedRow
  <1>7. \A n \in Recs : n # k => rec'[n] = rec[n]
    BY <1>1, <1>2
  <1>8. \A n \in Recs : posted'[n] = IF n \in K THEN posted[n] + 1 ELSE posted[n]
    BY <1>1 DEF Posts
  <1>9. seen'[q] = None /\ \A p \in Sessions : p # q => seen'[p] = seen[p]
    BY <1>1, <1>2 DEF ReviewEnds
  <1>10. K \subseteq {k} /\ (k \in K => t.to = "approved" /\ row.variance # "none")
    OBVIOUS
  <1> HIDE DEF t, k, new, K, row
  <1>11. StaysSettled
    BY <1>2, <1>6, <1>7, <1>8, <1>10 DEF StaysSettled, Settled
  <1>12. AgainIsStale
    <2> SUFFICES ASSUME NEW n \in Recs, posted[n] > 0, posted'[n] > posted[n]
                 PROVE  Outdated(q, n)
      BY <1>2, <1>3, <1>9 DEF AgainIsStale
    <2>1. n = k
      BY <1>2, <1>8, <1>10
    <2>2. rec[n].status # "pending"
      BY DEF SettledStays, Settled, Outcomes
    <2> QED
      BY <1>3, <2>1, <2>2 DEF Outdated, row
  <1>13. StockSteps
    <2> SUFFICES ASSUME NEW n \in Recs PROVE Stock(n)!VStep
      BY DEF StockSteps
    <2>1. CASE n = k
      <3>1. /\ rec[n].status # "absent" /\ rec'[n].status \in Outcomes
            /\ rec'[n].variance = rec[n].variance
        BY <1>2, <1>3, <1>6, <2>1
      <3>2. \/ posted'[n] = posted[n]
            \/ /\ posted'[n] = posted[n] + 1
               /\ rec[n].variance # "none" /\ rec'[n].status = "approved"
        BY <1>3, <1>6, <1>8, <1>10, <2>1
      <3> QED
        BY <3>1, <3>2, StockMoves DEF RecInv
    <2>2. CASE n # k
      <3>1. rec'[n] = rec[n] /\ posted'[n] = posted[n]
        BY <1>7, <1>8, <1>10, <2>2
      <3> QED
        BY <3>1, StockStutters
    <2> QED
      BY <2>1, <2>2
  <1> QED
    BY <1>9, <1>11, <1>12, <1>13 DEF Settling, NothingInvented

\* The callback settles every row of its instances, also one it had read as
\* settled: the column it then leaves alone is settled in the table.
LEMMA WriteSettles ==
  ASSUME RecInv, SettledStays, CopiesArePosted, ApprovedIsPosted',
         NEW q \in Sessions, CallbackWrite(q)
  PROVE  Settling
  <1>1. PICK last \in LastOf(q) :
          /\ WritesBack(q, last)
          /\ Posts({k \in Hit(q) : /\ NewStatus(inst[last[k]]) = "approved"
                                   /\ seen[q].row[k].variance # "none"
                                   /\ k \notin seen[q].posted})
    BY DEF CallbackWrite
  <1>2. /\ seen[q] # None /\ pc[q] = "decided" /\ seen' = [seen EXCEPT ![q] = None]
        /\ rec \in [Recs -> RecRow] /\ posted \in [Recs -> Nat] /\ seen[q] \in Snapshot
        /\ seen \in [Sessions -> Snapshot \cup {None}] /\ TypeOK /\ IInv
    BY DEF CallbackWrite, CallbackCommit, Goes, RecInv, RecTypeOK
  <1>3. ASSUME NEW k \in Recs, k \in Hit(q)
        PROVE  /\ Settled(rec'[k]) /\ rec'[k].variance = rec[k].variance
               /\ \/ seen[q].row[k].status = NewStatus(inst[last[k]])
                  \/ rec'[k].status = NewStatus(inst[last[k]])
    <2> DEFINE row == seen[q].row[k]
               u == Decider(inst[last[k]])
               to == NewStatus(inst[last[k]])
               new == CalledBack(row, u, to)
    <2>1. u \in Someone
      <3>1. last[k] \in work[q]
        BY <1>1, <1>3 DEF LastOf
      <3> QED
        BY <1>2, <3>1, DecidedExists DEF TypeOK, Row, Decider
    <2>2. row \in RecRow /\ rec[k] \in RecRow /\ to \in Outcomes
      BY <1>2, WorkflowType DEF Snapshot
    <2>3. rec'[k] = Flushed(rec[k], row, new)
      BY <1>1, <1>3 DEF WritesBack
    <2>4. Settled(row) => Settled(rec[k])
      BY <1>2 DEF SettledStays
    <2> HIDE DEF row, u, to
    <2>5. new \in RecRow /\ new.status = to
      BY <2>1, <2>2, CalledBackRow
    <2> HIDE DEF new
    <2>6. /\ rec'[k].status \in {rec[k].status, new.status}
          /\ new.status # row.status => rec'[k].status = new.status
          /\ rec'[k].variance = rec[k].variance
      BY <2>2, <2>3, <2>5, FlushedRow
    <2>7. Settled(rec'[k])
      BY <2>2, <2>4, <2>5, <2>6 DEF Settled
    <2> QED
      BY <2>5, <2>6, <2>7 DEF to, row
  <1>4. \A k \in Recs : k \notin Hit(q) => rec'[k] = rec[k]
    BY <1>1 DEF WritesBack
  <1>5. \A k \in Recs :
          \/ posted'[k] = posted[k]
          \/ /\ k \in Hit(q) /\ k \notin seen[q].posted /\ posted'[k] = posted[k] + 1
             /\ NewStatus(inst[last[k]]) = "approved" /\ seen[q].row[k].variance # "none"
    BY <1>1 DEF Posts
  <1>6. seen'[q] = None /\ \A p \in Sessions : p # q => seen'[p] = seen[p]
    BY <1>2
  <1>7. StaysSettled
    BY <1>2, <1>3, <1>4, <1>5 DEF StaysSettled
  <1>8. AgainIsStale
    BY <1>2, <1>5, <1>6 DEF AgainIsStale, Outdated
  \* What it posts it had not read as approved, so it writes that it is.
  <1>9. StockSteps
    <2> SUFFICES ASSUME NEW k \in Recs PROVE Stock(k)!VStep
      BY DEF StockSteps
    <2>1. CASE k \notin Hit(q)
      BY <1>4, <1>5, <2>1, StockStutters
    <2>2. CASE k \in Hit(q)
      <3>1. seen[q].row[k].status # "absent"
        <4>1. CallingBack(q)
          BY <1>2 DEF RecInv, Transactions, Transaction, Reviewing
        <4> QED
          BY <2>2, <4>1 DEF CallingBack, Hit
      <3>2. rec[k].status # "absent" /\ seen[q].row[k].variance = rec[k].variance
        BY <1>2, <3>1 DEF RecInv, Transactions, ReadIsOld
      <3>3. posted'[k] # posted[k] =>
              posted'[k] = posted[k] + 1 /\ rec[k].variance # "none" /\ rec'[k].status = "approved"
        BY <1>2, <1>3, <1>5, <2>2, <3>2 DEF CopiesArePosted
      <3> QED
        BY <1>3, <2>2, <3>2, <3>3, StockMoves DEF RecInv, Settled
    <2> QED
      BY <2>1, <2>2
  <1> QED
    BY <1>6, <1>7, <1>8, <1>9 DEF Settling, NothingInvented

\* Every step settles only for good.
LEMMA NextSettles ==
  ASSUME RecInv, SettledStays, CopiesArePosted, [RecNext]_allVars
  PROVE  Settling
  <1>0. RecTypeOK /\ CounterNeverSignsOff /\ ApprovedIsPosted'
    BY NextFacts DEF RecInv, Facts, Tables
  <1>1. ASSUME NEW q \in Sessions, Reads(q), UNCHANGED <<rec, posted>> PROVE Settling
    <2>1. /\ seen'[q] = [row |-> rec, posted |-> {k \in Recs : posted[k] > 0}]
          /\ \A p \in Sessions : p # q => seen'[p] = seen[p]
      BY <1>0, <1>1, ReadFresh
    <2>2. NothingInvented
      BY <2>1 DEF NothingInvented
    <2> QED
      BY <1>0, <1>1, <2>2, UnwrittenSettles
  <1>2. ASSUME NEW q \in Sessions, seen' = [seen EXCEPT ![q] = None], UNCHANGED <<rec, posted>>
        PROVE  Settling
    <2>1. NothingInvented
      BY <1>0, <1>2 DEF NothingInvented, RecTypeOK
    <2> QED
      BY <1>0, <1>2, <2>1, UnwrittenSettles
  <1>3. ASSUME UNCHANGED <<seen, rec, posted>> PROVE Settling
    BY <1>0, <1>3, UnwrittenSettles DEF NothingInvented
  <1>4. Requests \subseteq Sessions /\ Daemons \subseteq Sessions
    BY DEF Sessions, Sweepers
  <1>5. ASSUME NEW q \in Requests, Review(q) PROVE Settling
    <2>1. ASSUME NEW k \in Recs, NEW u \in Users, NEW to \in Outcomes, ReviewRead(q, k, u, to)
          PROVE  Settling
      BY <1>1, <1>4, <2>1 DEF ReviewRead
    <2>2. ASSUME NEW i \in Ids, ReviewSubmit(q, i) PROVE Settling
      BY <1>2, <1>4, <2>2 DEF ReviewSubmit, ReviewEnds
    <2>3. CASE ReviewFails(q)
      BY <1>2, <1>4, <2>3 DEF ReviewFails, ReviewEnds
    <2> QED
      BY <1>0, <1>5, <2>1, <2>2, <2>3, CommitSettles DEF Review
  <1>6. ASSUME NEW q \in Requests \cup Daemons, CallbackRead(q) \/ CallbackWrite(q) PROVE Settling
    BY <1>0, <1>1, <1>4, <1>6, WriteSettles DEF CallbackRead
  <1>7. ASSUME NEW q \in Sessions, SessionDies(q) PROVE Settling
    BY <1>2, <1>7 DEF SessionDies
  <1>8. CASE UNCHANGED recVars
    BY <1>3, <1>8 DEF recVars
  <1> QED
    BY <1>5, <1>6, <1>7, <1>8, CountSettles DEF RecNext, WorkerCommit, EngineStep, allVars

\* A review is settled for good, a posted variance is settled, and a copy that says
\* approved was read with the adjustment: no later read, review or callback brings a
\* review back to pending.
THEOREM SettledReviewsStay == RecSpec => [](SettledStays /\ CopiesArePosted)
  <1>1. RecInit => SettledStays /\ CopiesArePosted
    BY DEF RecInit, SettledStays, CopiesArePosted, Settled, Outcomes
  <1>2. RecInv /\ SettledStays /\ CopiesArePosted /\ [RecNext]_allVars
           => SettledStays' /\ CopiesArePosted'
    BY NextSettles, SettlingKeeps DEF Settling, RecInv
  <1> QED
    BY <1>1, <1>2, ReconciliationInvariance, PTL DEF RecSpec

\* A variance is posted a second time only by a session whose copy is out of date.
THEOREM SecondPostingsAreStale == RecSpec => SecondPostingIsStale
  <1>1. RecInv /\ SettledStays /\ CopiesArePosted /\ [RecNext]_allVars
           => [\A k \in Recs :
                 posted[k] > 0 /\ posted'[k] > posted[k] =>
                   \E q \in Sessions : seen[q] # None /\ seen'[q] = None /\ Outdated(q, k)]_allVars
    BY NextSettles DEF Settling, AgainIsStale
  <1> QED
    BY <1>1, SettledReviewsStay, ReconciliationInvariance, PTL DEF RecSpec, SecondPostingIsStale

\* Every reconciliation keeps the promise of StockReview.
THEOREM StockReviewRefinement == RecSpec => ImplementsStockReview
  <1>1. RecInit => \A k \in Recs : Stock(k)!VInit
    BY DEF RecInit, Stock!VInit
  <1>2. RecInv /\ SettledStays /\ CopiesArePosted /\ [RecNext]_allVars
           => [\A k \in Recs : Stock(k)!VStep]_<<rec, posted>>
    BY NextSettles DEF Settling, StockSteps
  <1> QED
    BY <1>1, <1>2, SettledReviewsStay, ReconciliationInvariance, PTL
       DEF RecSpec, ImplementsStockReview

\* Which is to say: each of them is a behaviour of StockReview.
THEOREM EachStockReview == RecSpec => \A k \in Recs : Stock(k)!VSpec
  <1> SUFFICES ASSUME NEW k \in Recs PROVE RecSpec => Stock(k)!VSpec
    OBVIOUS
  <1>1. RecInit => Stock(k)!VInit
    BY DEF RecInit, Stock!VInit
  <1>2. RecInv /\ SettledStays /\ CopiesArePosted /\ [RecNext]_allVars
           => [Stock(k)!VNext]_<<rec[k].status, rec[k].variance, posted[k]>>
    BY NextSettles DEF Settling, StockSteps, Stock!VStep
  <1> QED
    BY <1>1, <1>2, SettledReviewsStay, ReconciliationInvariance, PTL DEF RecSpec, Stock!VSpec

\* The promises of the engine hold with reconciliations for clients.
THEOREM ReconciliationKeepsEngine ==
    RecSpec => []SeparationOfDuties /\ DecisionsStand /\ ImplementsLedger
  BY ReconciliationUsesEngine, SeparationOfDutiesHolds, DecisionsStandHolds, Refinement, PTL
=============================================================================
