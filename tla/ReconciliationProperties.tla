----------------------- MODULE ReconciliationProperties -----------------------
(***************************************************************************)
(* The correctness properties of Reconciliation.                           *)
(***************************************************************************)
EXTENDS Reconciliation, ApprovalProperties

\* Nobody signs off his own count, neither in the router nor through the
\* callback, which takes the signature from whatever the instance carries
\* (approve_steel_stock_reconciliation, _on_reconciliation_completed).
CounterNeverSignsOff ==
    \A k \in Recs :
        rec[k].status # "absent" =>
            rec[k].counter \notin {rec[k].approver, rec[k].rejecter}

\* An approved variance is in the ledger: whoever wrote the approval last, the
\* adjustment is posted in the same transaction or was posted before it.
ApprovedIsPosted ==
    \A k \in Recs :
        rec[k].status = "approved" /\ rec[k].variance # "none" => posted[k] > 0

\* No adjustment without an approval instance to account for it: every posting
\* belongs to a reconciliation with an approval instance that was bypassed or
\* has been decided.
Accounts(row) == row.completed \/ row.status \in {"no_approval_required", "purged"}

PostingIsAccountedFor ==
    \A k \in Recs : posted[k] > 0 =>
        \E i \in Ids : target[i] = k /\ Accounts(inst[i])

\* The session's transaction read the row, or the ledger, before another session
\* changed what it says of k.
Outdated(q, k) ==
    seen[q].row[k] # rec[k] \/ (k \in seen[q].posted) # (posted[k] > 0)

\* A variance in the ledger is posted again only by a session that read it before:
\* reviews and callbacks that do not overlap post it once, in whatever order an
\* instance is opened, decided, called back and the row reviewed anew.
SecondPostingIsStale ==
    [][\A k \in Recs :
          posted[k] > 0 /\ posted'[k] > posted[k] =>
              \E q \in Sessions : seen[q] # None /\ seen'[q] = None /\ Outdated(q, k)]_allVars

\* Each reconciliation, as the table and the ledger have it, keeps the promise of
\* StockReview, whatever routers, callbacks and sweeps write from older copies.
Stock(k) == INSTANCE StockReview WITH status <- rec[k].status,
                                      variance <- rec[k].variance,
                                      posted <- posted[k]

ImplementsStockReview ==
    /\ \A k \in Recs : Stock(k)!VInit
    /\ [][\A k \in Recs : Stock(k)!VStep]_<<rec, posted>>

\* A review ends: once an instance for it is decided, the reconciliation leaves
\* the pending state, unless the session that owed the callback died or had none.
DecidedReviewIsSettled ==
    \A i \in Ids : \A k \in Recs :
        (inst[i].completed /\ inst[i].status # "purged" /\ target[i] = k)
            ~> (rec[k].status # "pending" \/ i \in lost \cup skipped)

-----------------------------------------------------------------------------
(* The inductive invariant behind the safety properties above, over IInv of *)
(* the engine.                                                              *)

\* Somebody counted before anybody signed.
Counted ==
    \A k \in Recs : IF rec[k].status = "absent"
                    THEN rec[k].approver = None /\ rec[k].rejecter = None
                    ELSE rec[k].counter \in Users

\* An instance is about a count: its subject counted, its actor did not.
AboutACount ==
    \A i \in Ids : inst[i].status \notin {"absent", "purged"} =>
        /\ target[i] \in Recs
        /\ rec[target[i]].status # "absent"
        /\ inst[i].subject = rec[target[i]].counter
        /\ inst[i].actor # inst[i].subject

\* What a session has read may be old, but who counted and how much is as in
\* the table, and what was posted still is.
ReadIsOld(q) ==
    seen[q] # None => \A k \in Recs :
        /\ k \in seen[q].posted => posted[k] > 0
        /\ seen[q].row[k].status # "absent" =>
              /\ rec[k].status # "absent"
              /\ seen[q].row[k].counter = rec[k].counter
              /\ seen[q].row[k].variance = rec[k].variance
              /\ rec[k].counter \notin {seen[q].row[k].approver, seen[q].row[k].rejecter}

\* A session has a transaction open in a review of a count somebody else made,
\* or in a callback about counts it has read.
Reviewing(q) ==
    /\ pc[q] = "idle" /\ seen[q] # None
    /\ seen[q].row[task[q].rec].status = "pending"
    /\ seen[q].row[task[q].rec].counter # task[q].by

CallingBack(q) ==
    /\ pc[q] = "decided" /\ q \notin Workers
    /\ \A i \in work[q] : seen[q].row[target[i]].status # "absent"

InReview(q) == q \in Requests /\ task[q] # None

Transaction(q) ==
    /\ InReview(q) => Reviewing(q)
    /\ seen[q] # None => InReview(q) \/ CallingBack(q)

Transactions == \A q \in Sessions : ReadIsOld(q) /\ Transaction(q)

\* A review is settled for good: what is posted was settled by then, and so is,
\* in the table, what a session has read as settled.
Settled(row) == row.status \in Outcomes

SettledStays ==
    \A k \in Recs :
        /\ posted[k] > 0 => Settled(rec[k])
        /\ \A q \in Sessions :
              seen[q] # None /\ Settled(seen[q].row[k]) => Settled(rec[k])

\* A copy that says approved was read with the adjustment.
CopiesArePosted ==
    \A q \in Sessions : seen[q] # None => \A k \in Recs :
        seen[q].row[k].status = "approved" /\ seen[q].row[k].variance # "none"
            => k \in seen[q].posted

RecInv ==
    /\ RecTypeOK /\ IInv
    /\ Counted /\ AboutACount /\ Transactions
    /\ CounterNeverSignsOff /\ ApprovedIsPosted /\ PostingIsAccountedFor

-----------------------------------------------------------------------------
(* Statements of comments and answers that the code does not keep.         *)

\* "Reject: terminates the workflow immediately" (POST /approvals/{id}/advance):
\* a reconciliation becomes approved only when one of its instances was let
\* through, by a checker or by the bypass.
RejectedIsNotApplied ==
    [][\A k \in Recs :
          rec[k].status = "pending" /\ rec'[k].status = "approved" =>
             \E i \in Ids :
                /\ target'[i] = k
                /\ inst'[i].status \in {"approved", "completed",
                                        "no_approval_required"}]_allVars

\* "idempotent: skip if a transaction with the same reference already exists":
\* a variance reaches the ledger at most once.
PostedAtMostOnce == \A k \in Recs : posted[k] <= 1
=============================================================================
