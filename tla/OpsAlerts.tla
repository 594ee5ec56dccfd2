----------------------------- MODULE OpsAlerts ------------------------------
(***************************************************************************)
(* Delivery of operational alerts over WhatsApp: the emitting request and  *)
(* the dispatcher's threads (services/ops_alerts/dispatcher.py), the sender*)
(* (services/whatsapp_sender.py), the provider's status reports            *)
(* (routers/whatsapp_webhook.py, services/ops_alerts/service.py) and the   *)
(* two recoveries of a restarted process (services/billing_manager.py,     *)
(* services/ops_alerts/service.py).                                        *)
(*                                                                         *)
(* An alert waits in a queue in memory until a dispatcher thread takes it  *)
(* and sends one message to each recipient, all of them at the same time.  *)
(* The table ops_alert_events has one root row for the alert and one row   *)
(* for each recipient.  The provider reports what became of a message, in  *)
(* any order and any number of times; handlers run in threads and take no  *)
(* locks, so each of them works on the copies it loaded and writes the     *)
(* columns whose value it changed.  One process runs at a time.  It may    *)
(* die at any moment and takes the queue, its threads and the cache of     *)
(* handled reports with it; any transaction may be lost.                   *)
(*                                                                         *)
(* Free choices stand for what other alerts and the outside decide: whether*)
(* an alert is limited or finds the queue full, when a thread is free to   *)
(* take it, and what the provider answers.  The dispatcher saves a row in  *)
(* one step: nobody else writes a recipient's row before it has the        *)
(* provider's id.  So does a handler load its rows: it locks none of them. *)
(* Every report has a timestamp.                                           *)
(***************************************************************************)
EXTENDS Naturals, FiniteSets

CONSTANTS Alerts, Recipients,
          Targets,     \* the recipients resolved for each alert
          Handlers,    \* webhook threads
          Dead,        \* age, in ticks, past which a dispatch is given up
          Stale,       \* age, in ticks, at which a dispatch is stuck
          None,
          MaxTime,     \* bound on the clock
          MaxReports,  \* bound on the reports the provider makes
          MaxRestarts  \* bound on the times the process dies

VARIABLES now, restarts,
          alert,     \* what the process does with each alert
          created,   \* timestamp of each alert
          recording, \* alerts put in the queue and not yet recorded
          stage,     \* how far the message to each recipient is
          result,    \* MessageResult.status of each message
          accepted,  \* number of messages the provider took for each recipient
          reports,   \* reports the provider made
          root,      \* delivery_status of the root row of each alert
          row,       \* the row of each recipient
          seen,      \* _WEBHOOK_EVENT_CACHE
          handler,   \* what each webhook thread does
          disturbed  \* history: alerts two transactions met on, or one was lost of

clock == <<now, restarts>>
emission == <<alert, created, recording>>
sending == <<stage, result>>
provider == <<accepted, reports>>
table == <<root, row>>
webhook == <<seen, handler>>
vars == <<clock, emission, sending, provider, table, webhook, disturbed>>

Messages == {m \in Alerts \X Recipients : m[2] \in Targets[m[1]]}
AlertOf(m) == m[1]
To(a) == {m \in Messages : AlertOf(m) = a}

Reported == {"dispatched", "delivered", "read", "failed"}
FINAL_DELIVERY_STATUSES == {"read", "failed"}

\* The values of delivery_status in a recipient's row, and in the root row.
RecipientStatuses == {"pending", "dispatching", "suppressed"} \cup Reported
RootStatuses == RecipientStatuses \cup {"queued", "dropped", "partial_failure"}

\* A recipient's row: whether it has the provider's id, and the time of its last
\* report, else of its failure, its dispatch or the alert
\* (_effective_status_timestamp).
Rows == [status : RecipientStatuses, id : BOOLEAN, at : Nat]

Reports == [msg : Messages, status : Reported, at : Nat]

ASSUME OpsAlertsAssumption ==
    /\ Targets \in [Alerts -> SUBSET Recipients]
    /\ Dead \in Nat /\ Stale \in Nat \ {0}
    /\ None \notin Nat \cup RootStatuses \cup {"accepted"} \cup Rows

\* The provider stamps whole seconds, the process microseconds: what the
\* process does is later than what the provider stamps in the same tick.
ProviderStamp == 2 * now
Stamp == 2 * now + 1

Free == [report |-> None, copy |-> None, base |-> None, sum |-> None]
Busy(h) == handler[h] # Free
About(h) == AlertOf(handler[h].report.msg)

Init ==
    /\ now = 0 /\ restarts = 0
    /\ alert = [a \in Alerts |-> "new"]
    /\ created = [a \in Alerts |-> 0]
    /\ recording = {}
    /\ stage = [m \in Messages |-> "due"]
    /\ result = [m \in Messages |-> None]
    /\ accepted = [m \in Messages |-> 0]
    /\ reports = {}
    /\ root = [a \in Alerts |-> None]
    /\ row = [m \in Messages |-> None]
    /\ seen = {}
    /\ handler = [h \in Handlers |-> Free]
    /\ disturbed = {}

-----------------------------------------------------------------------------
\* The order of the statuses in which one report of a second beats another.
DELIVERY_STATUS_PRECEDENCE(status) ==
    CASE status \in {"read", "failed"} -> 5
      [] status = "delivered" -> 4
      [] status = "dispatched" -> 3
      [] status = "dispatching" -> 2
      [] status \in {"pending", "suppressed"} -> 1

\* Mutated form: reports of the same second are taken in the order of arrival.
RejectOlder(r, e) == e.at < r.at

\* A report older than the row, or one of the same second that says less, is stale.
_should_reject_delivery_update(r, e) ==
    \/ e.at < r.at
    \/ r.status \in FINAL_DELIVERY_STATUSES /\ r.status # e.status /\ e.at = r.at
    \/ /\ e.at = r.at
       /\ DELIVERY_STATUS_PRECEDENCE(e.status) < DELIVERY_STATUS_PRECEDENCE(r.status)

Updated(r, e) ==
    IF _should_reject_delivery_update(r, e) THEN r
                                            ELSE [r EXCEPT !.status = e.status, !.at = e.at]

\* Mutated form: one recipient's success is taken for everybody's.
AggregateAny(S) ==
    IF "read" \in S THEN "read"
    ELSE IF "delivered" \in S THEN "delivered"
    ELSE IF "dispatched" \in S THEN "dispatched"
    ELSE IF "failed" \in S THEN "failed" ELSE "dispatching"

\* The root's status from the set of its recipients' statuses.
_aggregate_root_delivery_state(S) ==
    IF S = {} THEN "queued"
    ELSE IF S = {"pending"} THEN "pending"
    ELSE IF S = {"read"} THEN "read"
    ELSE IF S \subseteq {"delivered", "read"} THEN "delivered"
    ELSE IF S \subseteq {"dispatched", "delivered", "read"} THEN "dispatched"
    ELSE IF S = {"suppressed"} THEN "suppressed"
    ELSE IF "failed" \in S
         THEN IF S \cap {"dispatching", "dispatched", "delivered", "read"} # {}
              THEN "partial_failure" ELSE "failed"
    ELSE IF S \cap {"pending", "dispatching"} # {} THEN "dispatching" ELSE "queued"

Statuses(a, rows) == {rows[m].status : m \in {n \in To(a) : rows[n] # None}}

\* What _refresh_root_delivery_state writes; without a root row, nothing.
Refreshed(a, rows) ==
    IF root[a] = None THEN None ELSE _aggregate_root_delivery_state(Statuses(a, rows))

-----------------------------------------------------------------------------
(* The request that emits an alert, and the dispatcher's threads.           *)

\* A transaction about alert a commits, or the database refuses it, which
\* _persist_result logs and forgets.
Saved == UNCHANGED disturbed
NotSaved(a) == disturbed' = disturbed \cup {a}

SaveRoot(a, status) ==
    \/ root' = [root EXCEPT ![a] = status] /\ Saved
    \/ UNCHANGED root /\ NotSaved(a)

\* emit_alert_candidate puts the alert in the queue and records it afterwards.
Enqueue(a) ==
    /\ alert[a] = "new"
    /\ alert' = [alert EXCEPT ![a] = "queued"]
    /\ created' = [created EXCEPT ![a] = Stamp]
    /\ recording' = recording \cup {a}
    /\ UNCHANGED <<clock, sending, provider, table, webhook, disturbed>>

\* record_queued; by then a thread may be at work on the alert, or done.
RecordQueued(a) ==
    /\ a \in recording
    /\ recording' = recording \ {a}
    /\ \/ /\ root' = [root EXCEPT ![a] = "queued"]
          /\ disturbed' = IF alert[a] = "done" THEN disturbed \cup {a} ELSE disturbed
       \/ UNCHANGED root /\ NotSaved(a)
    /\ UNCHANGED <<clock, alert, created, sending, provider, row, webhook>>

\* A limited alert, or one the full queue has no place for, leaves a root row only.
Refuse(a) ==
    /\ alert[a] = "new"
    /\ alert' = [alert EXCEPT ![a] = "done"]
    /\ created' = [created EXCEPT ![a] = Stamp]
    /\ \E status \in {"suppressed", "dropped"} : SaveRoot(a, status)
    /\ UNCHANGED <<clock, recording, sending, provider, row, webhook>>

\* A thread takes the alert and resolves its recipients.
Take(a) ==
    /\ alert[a] = "queued"
    /\ alert' = [alert EXCEPT ![a] = "busy"]
    /\ UNCHANGED <<clock, created, recording, sending, provider, table, webhook, disturbed>>

\* It finds no recipients, or cannot load them; or the alert cannot be
\* delivered at all, which _worker_loop catches.
GiveUp(a) ==
    /\ alert[a] = "queued"
    /\ alert' = [alert EXCEPT ![a] = "done"]
    /\ \E status \in {"suppressed", "failed"} : SaveRoot(a, status)
    /\ UNCHANGED <<clock, created, recording, sending, provider, row, webhook>>

At(m, s) == alert[AlertOf(m)] = "busy" /\ stage[m] = s

NewRow(m) == [status |-> "dispatching", id |-> FALSE, at |-> created[AlertOf(m)]]

SaveRow(m, r) ==
    \/ row' = [row EXCEPT ![m] = r] /\ Saved
    \/ UNCHANGED row /\ NotSaved(AlertOf(m))

\* _deliver_to_target records the message before it is sent.
Mark(m) ==
    /\ At(m, "due")
    /\ stage' = [stage EXCEPT ![m] = "sending"]
    /\ SaveRow(m, NewRow(m))
    /\ UNCHANGED <<clock, emission, result, provider, root, webhook>>

Answers == {"accepted", "suppressed", "refused", "timeout", "server error"}
ResultOf(answer) == IF answer \in {"accepted", "suppressed"} THEN answer ELSE "failed"

\* Mutated form: a request that timed out is tried again.
RetriesTimeouts(m, answer) == stage[m] = "sending" /\ answer \in {"server error", "timeout"}

\* The sender tries again once, and only after a server error.
Retries(m, answer) == stage[m] = "sending" /\ answer = "server error"

\* _perform_send: the caps are checked before the first attempt; a request
\* that times out may have reached the provider, which takes no message that
\* it answers with an error.
Send(m) ==
    \E answer \in Answers, taken \in 0..1 :
        /\ At(m, "sending") \/ At(m, "again")
        /\ answer = "suppressed" => stage[m] = "sending"
        /\ answer = "accepted" => taken = 1
        /\ taken = 1 => answer \in {"accepted", "timeout"}
        /\ accepted' = [accepted EXCEPT ![m] = @ + taken]
        /\ IF Retries(m, answer)
           THEN stage' = [stage EXCEPT ![m] = "again"] /\ UNCHANGED result
           ELSE /\ stage' = [stage EXCEPT ![m] = "answered"]
                /\ result' = [result EXCEPT ![m] = ResultOf(answer)]
        /\ UNCHANGED <<clock, emission, reports, table, webhook, disturbed>>

\* Mutated form: the result is stored as it is, not as a status of the table.
ResultingRaw(m) ==
    LET r == IF row[m] = None THEN NewRow(m) ELSE row[m]
    IN  [r EXCEPT !.status = result[m], !.id = result[m] = "accepted"]

\* The row of a message with its result; it has the provider's id and the time
\* of dispatch when the provider took the message.
Resulting(m) ==
    LET r == IF row[m] = None THEN NewRow(m) ELSE row[m]
    IN  IF result[m] = "accepted" THEN [r EXCEPT !.status = "dispatching", !.id = TRUE, !.at = Stamp]
                                  ELSE [r EXCEPT !.status = result[m]]

Record(m) ==
    /\ At(m, "answered")
    /\ stage' = [stage EXCEPT ![m] = "done"]
    /\ SaveRow(m, Resulting(m))
    /\ UNCHANGED <<clock, emission, result, provider, root, webhook>>

\* The root's status from the results of the messages.
Outcome(R) ==
    IF R = {"accepted"} THEN "dispatching"
    ELSE IF "accepted" \in R THEN "partial_failure"
    ELSE IF R = {"suppressed"} THEN "suppressed" ELSE "failed"

Finish(a) ==
    /\ alert[a] = "busy"
    /\ \A m \in To(a) : stage[m] = "done"
    /\ alert' = [alert EXCEPT ![a] = "done"]
    /\ SaveRoot(a, Outcome({result[m] : m \in To(a)}))
    /\ stage' = [m \in Messages |-> IF m \in To(a) THEN "due" ELSE stage[m]]
    /\ result' = [m \in Messages |-> IF m \in To(a) THEN None ELSE result[m]]
    /\ UNCHANGED <<clock, created, recording, provider, row, webhook>>

-----------------------------------------------------------------------------
(* The provider, and the webhook.                                           *)

StatusesOf(m) == {e.status : e \in {f \in reports : f.msg = m}}

\* The provider reports a message it took; a report may be missing.
Report(m, s) ==
    /\ Cardinality(reports) < MaxReports
    /\ accepted[m] > 0
    /\ s \notin StatusesOf(m)
    /\ StatusesOf(m) \cap FINAL_DELIVERY_STATUSES = {}
    /\ s = "dispatched" => StatusesOf(m) = {}
    /\ s = "failed" => "delivered" \notin StatusesOf(m)
    /\ reports' = reports \cup {[msg |-> m, status |-> s, at |-> ProviderStamp]}
    /\ UNCHANGED <<clock, emission, sending, accepted, table, webhook, disturbed>>

Matches(e) == row[e.msg] # None /\ row[e.msg].id

\* A report nobody waits for is remembered as handled.
Unmatched(e) ==
    /\ e \notin seen
    /\ ~Matches(e)
    /\ seen' = seen \cup {e}
    /\ UNCHANGED <<clock, emission, sending, provider, table, handler, disturbed>>

\* A thread finds the row of a report by the provider's id, applies the report
\* to its copy, and loads the other rows of the alert for the root.
Load(h, e) ==
    LET a == AlertOf(e.msg)
        r == Updated(row[e.msg], e)
    IN  /\ ~Busy(h)
        /\ e \notin seen
        /\ Matches(e)
        /\ handler' = [handler EXCEPT
                         ![h] = [report |-> e, copy |-> row[e.msg], base |-> root[a],
                                 sum |-> Refreshed(a, [row EXCEPT ![e.msg] = r])]]
        /\ disturbed' = IF \/ alert[a] # "done"
                           \/ \E g \in Handlers : Busy(g) /\ About(g) = a
                        THEN disturbed \cup {a} ELSE disturbed
        /\ UNCHANGED <<clock, emission, sending, provider, table, seen>>

\* A column keeps the value another transaction gave it unless this one changes it.
Column(new, old, current) == IF new # old THEN new ELSE current

Written(h) ==
    LET old == handler[h].copy
        new == Updated(old, handler[h].report)
        r == row[handler[h].report.msg]
    IN  [r EXCEPT !.status = Column(new.status, old.status, r.status),
                  !.at = Column(new.at, old.at, r.at)]

Commit(h) ==
    /\ Busy(h)
    /\ row' = [row EXCEPT ![handler[h].report.msg] = Written(h)]
    /\ root' = [root EXCEPT ![About(h)] = Column(handler[h].sum, handler[h].base, @)]
    /\ seen' = seen \cup {handler[h].report}
    /\ handler' = [handler EXCEPT ![h] = Free]
    /\ UNCHANGED <<clock, emission, sending, provider, disturbed>>

\* The database refuses the transaction; the report is remembered all the same.
Fail(h) ==
    /\ Busy(h)
    /\ NotSaved(About(h))
    /\ seen' = seen \cup {handler[h].report}
    /\ handler' = [handler EXCEPT ![h] = Free]
    /\ UNCHANGED <<clock, emission, sending, provider, table>>

-----------------------------------------------------------------------------
(* The process dies, and the next one starts.                               *)

\* recover_stale_dispatching_events of billing_manager gives up what is in
\* dispatch for more than ten minutes.  It asks the column status, which is
\* "dispatching" in the root row of a partial failure, too (but for root rows of
\* which a thread wrote one column and another thread the other; those are of
\* disturbed alerts), and leaves the root row as it finds it otherwise.
CutOff(a) == created[a] + 2 * Dead < Stamp

Abandoned(m) == CutOff(AlertOf(m)) /\ row[m] # None /\ row[m].status = "dispatching"

GivenUp ==
    [m \in Messages |->
       IF Abandoned(m) THEN [row[m] EXCEPT !.status = "failed", !.at = Stamp] ELSE row[m]]

RootsGivenUp ==
    [a \in Alerts |->
       IF CutOff(a) /\ root[a] \in {"dispatching", "partial_failure"} THEN "failed" ELSE root[a]]

\* recover_stale_dispatching_events of the alert service puts back what it finds
\* in dispatch at an age that is configured, and sums those alerts up again.
Old(a) == created[a] + 2 * Stale <= Stamp

\* Mutated form: a row that waits for its next report is taken for stuck, too.
StuckUnread(rows, m) ==
    Old(AlertOf(m)) /\ rows[m] # None /\ rows[m].status \in {"dispatching", "dispatched"}

Stuck(rows, m) == Old(AlertOf(m)) /\ rows[m] # None /\ rows[m].status = "dispatching"

Reset(rows) ==
    [m \in Messages |->
       IF Stuck(rows, m) THEN [rows[m] EXCEPT !.status = "pending"] ELSE rows[m]]

RootsReset(rows, roots) ==
    [a \in Alerts |->
       IF (\E m \in To(a) : Stuck(rows, m)) \/ (Old(a) /\ roots[a] = "dispatching")
       THEN Refreshed(a, Reset(rows)) ELSE roots[a]]

\* The alert service does not start where alerts are disabled.
StartAlerts(rows, roots) ==
    \/ row' = rows /\ root' = roots
    \/ row' = Reset(rows) /\ root' = RootsReset(rows, roots)

\* Before any thread of the new process starts, one recovery runs after the
\* other; the first may fail, which is logged and forgotten.
Restart ==
    /\ restarts < MaxRestarts
    /\ restarts' = restarts + 1
    /\ alert' = [a \in Alerts |-> IF alert[a] \in {"queued", "busy"} THEN "lost" ELSE alert[a]]
    /\ recording' = {}
    /\ stage' = [m \in Messages |-> "due"]
    /\ result' = [m \in Messages |-> None]
    /\ seen' = {}
    /\ handler' = [h \in Handlers |-> Free]
    /\ StartAlerts(row, root) \/ StartAlerts(GivenUp, RootsGivenUp)
    /\ UNCHANGED <<now, created, provider, disturbed>>

Tick ==
    /\ now < MaxTime
    /\ now' = now + 1
    /\ UNCHANGED <<restarts, emission, sending, provider, table, webhook, disturbed>>

Dispatch(a) ==
    \/ Take(a) \/ GiveUp(a) \/ Finish(a)
    \/ \E m \in To(a) : Mark(m) \/ Send(m) \/ Record(m)

Emit(a) == Enqueue(a) \/ RecordQueued(a) \/ Refuse(a)

Handle(h) == Commit(h) \/ Fail(h)

Next ==
    \/ \E a \in Alerts : Emit(a) \/ Dispatch(a)
    \/ \E m \in Messages, s \in Reported : Report(m, s)
    \/ \E e \in reports : Unmatched(e)
    \/ \E h \in Handlers, e \in reports : Load(h, e)
    \/ \E h \in Handlers : Handle(h)
    \/ Tick \/ Restart

Spec == Init /\ [][Next]_vars
=============================================================================
