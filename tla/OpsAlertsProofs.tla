-------------------------- MODULE OpsAlertsProofs ---------------------------
(***************************************************************************)
(* AlertInv is an invariant of OpsAlerts for any number of alerts,         *)
(* recipients and webhook threads; SentOnce and RootSumsUp are parts of it *)
(* or follow, and ReportsAreNotUndone holds of every step from it.         *)
(***************************************************************************)
EXTENDS OpsAlertsProperties, TLAPS

\* A message belongs to an alert.
LEMMA AlertOfMessage == \A m \in Messages : AlertOf(m) \in Alerts
  BY DEF Messages, AlertOf

\* The root's status is one of the table's, whatever the recipients' are.
LEMMA SummaryType == \A S : _aggregate_root_delivery_state(S) \in RootStatuses
  BY DEF _aggregate_root_delivery_state, RootStatuses, RecipientStatuses, Reported

\* What the statuses of a message's recipients sum up to says of all of them
\* what they say, unless one of them is suppressed.
LEMMA SummarySumsUp ==
  ASSUME NEW S, S \subseteq RecipientStatuses, S # {}, "suppressed" \notin S
  PROVE  SumsUp(_aggregate_root_delivery_state(S), S)
  <1> USE DEF SumsUp, _aggregate_root_delivery_state
  <1>1. CASE S = {"pending"}
    BY <1>1
  <1>2. CASE S = {"read"}
    BY <1>2
  <1>3. CASE S # {"read"} /\ S \subseteq {"delivered", "read"}
    BY <1>3
  <1>4. CASE ~(S \subseteq {"delivered", "read"}) /\ S \subseteq {"dispatched", "delivered", "read"}
    BY <1>4
  <1>5. CASE S # {"pending"} /\ ~(S \subseteq {"dispatched", "delivered", "read"})
    BY <1>5 DEF RecipientStatuses, Reported
  <1> QED
    BY <1>1, <1>2, <1>3, <1>4, <1>5

\* The statuses the dispatcher's results leave in the rows agree with the status
\* it gives the root.
LEMMA OutcomeSumsUp ==
  ASSUME NEW R, NEW S, S # {}, "suppressed" \notin S,
         R \subseteq Results,
         \A r \in R : (IF r = "accepted" THEN "dispatching" ELSE r) \in S,
         \A s \in S : \E r \in R : s = IF r = "accepted" THEN "dispatching" ELSE r
  PROVE  SumsUp(Outcome(R), S)
  <1>1. R \subseteq {"accepted", "failed"} /\ R # {}
    BY DEF Results
  <1>2. S \subseteq {"dispatching", "failed"}
    BY <1>1
  <1>3. ("failed" \in S <=> "failed" \in R) /\ ("dispatching" \in S <=> "accepted" \in R)
    BY <1>1
  <1> QED
    BY <1>1, <1>2, <1>3 DEF SumsUp, Outcome

\* An applied report leaves a later row, or a row of the same second that says
\* as much; a refused one leaves the row as it is.
LEMMA UpdatedLater ==
  ASSUME NEW r \in Rows, NEW e \in Reports
  PROVE  /\ Updated(r, e) \in Rows
         /\ Updated(r, e).id = r.id
         /\ \/ Updated(r, e) = r
            \/ Updated(r, e).at > r.at
            \/ Updated(r, e).at = r.at /\ Rank(Updated(r, e)) >= Rank(r)
         /\ r.status # "suppressed" => Updated(r, e).status # "suppressed"
  <1>1. DELIVERY_STATUS_PRECEDENCE(r.status) \in Nat /\ DELIVERY_STATUS_PRECEDENCE(e.status) \in Nat
    BY DEF DELIVERY_STATUS_PRECEDENCE, Rows, Reports, RecipientStatuses, Reported
  <1>2. CASE _should_reject_delivery_update(r, e)
    BY <1>2 DEF Updated
  <1>3. CASE ~_should_reject_delivery_update(r, e)
    <2>1. Updated(r, e) = [status |-> e.status, id |-> r.id, at |-> e.at]
      BY <1>3 DEF Updated, Rows
    <2>2. ~(e.at < r.at) /\ e.at \in Nat /\ r.at \in Nat
      BY <1>3 DEF _should_reject_delivery_update, Rows, Reports
    <2>3. e.at = r.at => ~(DELIVERY_STATUS_PRECEDENCE(e.status) < DELIVERY_STATUS_PRECEDENCE(r.status))
      BY <1>3 DEF _should_reject_delivery_update
    <2>4. e.status \in Reported /\ e.status # "suppressed"
      BY DEF Reports, Reported
    <2> QED
      BY <1>1, <2>1, <2>2, <2>3, <2>4 DEF Rank, Rows, RecipientStatuses
  <1> QED
    BY <1>2, <1>3

-----------------------------------------------------------------------------
\* The initial states satisfy the invariant: there are no rows.
LEMMA InitInv == Init => AlertInv
  <1> SUFFICES ASSUME Init PROVE AlertInv
    OBVIOUS
  <1>1. AlertTypeOK
    BY OpsAlertsAssumption DEF Init, AlertTypeOK
  <1>2. OneMessage /\ ResultsKept
    BY AlertOfMessage DEF Init, OneMessage, ResultsKept
  <1>3. Loaded /\ Undisturbed /\ HandledWasMade
    BY DEF Init, Loaded, Undisturbed, HandledWasMade, Busy
  <1>4. RootKnown /\ RootSumsUp
    BY DEF Init, RootKnown, RootSumsUp, Settled
  <1> QED
    BY <1>1, <1>2, <1>3, <1>4 DEF AlertInv

\* Types are kept by the emitting request and the dispatcher.
LEMMA DispatchType ==
  ASSUME AlertTypeOK, ResultsKept,
         NEW a \in Alerts, Emit(a) \/ Dispatch(a)
  PROVE  AlertTypeOK'
  <1> USE AlertOfMessage DEF clock, emission, sending, provider, table, webhook, AlertTypeOK
  <1>1. CASE Enqueue(a)
    BY <1>1 DEF Enqueue, Stamp
  <1>2. CASE RecordQueued(a)
    BY <1>2 DEF RecordQueued, NotSaved, RootStatuses
  <1>3. CASE Refuse(a)
    BY <1>3 DEF Refuse, SaveRoot, Saved, NotSaved, Stamp, RootStatuses, RecipientStatuses
  <1>4. CASE Take(a)
    BY <1>4 DEF Take
  <1>5. CASE GiveUp(a)
    BY <1>5 DEF GiveUp, SaveRoot, Saved, NotSaved, RootStatuses, RecipientStatuses, Reported
  <1>6. CASE Finish(a)
    <2>1. \A R : Outcome(R) \in RootStatuses
      BY DEF Outcome, RootStatuses, RecipientStatuses, Reported
    <2> QED
      BY <1>6, <2>1 DEF Finish, SaveRoot, Saved, NotSaved
  <1>7. ASSUME NEW m \in To(a), Mark(m) PROVE AlertTypeOK'
    <2>1. m \in Messages
      BY DEF To
    <2>2. NewRow(m) \in Rows
      BY <2>1 DEF NewRow, Rows, RecipientStatuses
    <2> QED
      BY <1>7, <2>1, <2>2 DEF Mark, SaveRow, Saved, NotSaved
  <1>8. ASSUME NEW m \in To(a), Send(m) PROVE AlertTypeOK'
    <2>1. m \in Messages
      BY DEF To
    <2>2. PICK answer \in Answers, taken \in 0..1 :
            /\ accepted' = [accepted EXCEPT ![m] = @ + taken]
            /\ \/ stage' = [stage EXCEPT ![m] = "again"] /\ UNCHANGED result
               \/ /\ stage' = [stage EXCEPT ![m] = "answered"]
                  /\ result' = [result EXCEPT ![m] = ResultOf(answer)]
      BY <1>8 DEF Send
    <2>3. ResultOf(answer) \in Results
      BY DEF ResultOf, Results
    <2>4. accepted' \in [Messages -> Nat]
      BY <2>1, <2>2
    <2>5. UNCHANGED <<clock, emission, reports, table, webhook, disturbed>>
      BY <1>8 DEF Send
    <2> QED
      BY <2>1, <2>2, <2>3, <2>4, <2>5
  <1>9. ASSUME NEW m \in To(a), Record(m) PROVE AlertTypeOK'
    <2>1. m \in Messages
      BY DEF To
    <2>2. result[m] \in Results
      BY <1>9, <2>1 DEF Record, At, ResultsKept
    <2>3. NewRow(m) \in Rows /\ Stamp \in Nat
      BY <2>1 DEF NewRow, Rows, RecipientStatuses, Stamp
    <2>4. Resulting(m) \in Rows
      BY <2>1, <2>2, <2>3 DEF Resulting, Rows, Results, RecipientStatuses, Reported
    <2> QED
      BY <1>9, <2>1, <2>4 DEF Record, SaveRow, Saved, NotSaved
  <1> QED
    BY <1>1, <1>2, <1>3, <1>4, <1>5, <1>6, <1>7, <1>8, <1>9 DEF Emit, Dispatch

\* Types are kept by the webhook's threads and the provider.
LEMMA WebhookType ==
  ASSUME AlertTypeOK, Loaded,
         \/ \E m \in Messages, s \in Reported : Report(m, s)
         \/ \E e \in reports : Unmatched(e)
         \/ \E h \in Handlers, e \in reports : Load(h, e)
         \/ \E h \in Handlers : Commit(h) \/ Fail(h)
  PROVE  AlertTypeOK'
  <1> USE DEF clock, emission, sending, provider, table, webhook
  <1>1. ASSUME NEW m \in Messages, NEW s \in Reported, Report(m, s) PROVE AlertTypeOK'
    BY <1>1 DEF AlertTypeOK, Report, Reports, ProviderStamp
  <1>2. ASSUME NEW e \in reports, Unmatched(e) PROVE AlertTypeOK'
    BY <1>2 DEF AlertTypeOK, Unmatched
  <1>3. ASSUME NEW h \in Handlers, NEW e \in reports, Load(h, e) PROVE AlertTypeOK'
    <2>1. e \in Reports /\ e.msg \in Messages /\ AlertOf(e.msg) \in Alerts
      BY AlertOfMessage DEF AlertTypeOK, Reports
    <2>2. row[e.msg] \in Rows
      BY <1>3, <2>1 DEF AlertTypeOK, Load, Matches
    <2>3. root[AlertOf(e.msg)] \in RootStatuses \cup {None}
      BY <2>1 DEF AlertTypeOK
    <2>4. \A rows : Refreshed(AlertOf(e.msg), rows) \in RootStatuses \cup {None}
      BY SummaryType DEF Refreshed
    <2>5. handler' \in [Handlers -> Threads \cup {Free}]
      BY <1>3, <2>1, <2>2, <2>3, <2>4 DEF AlertTypeOK, Load, Threads
    <2> QED
      BY <1>3, <2>1, <2>5 DEF AlertTypeOK, Load
  <1>4. ASSUME NEW h \in Handlers, Commit(h) PROVE AlertTypeOK'
    <2>1. handler[h] \in Threads
      BY <1>4 DEF AlertTypeOK, Commit, Busy
    <2>2. /\ handler[h].report \in Reports /\ handler[h].copy \in Rows
          /\ handler[h].base \in RootStatuses \cup {None}
          /\ handler[h].sum \in RootStatuses \cup {None}
          /\ handler[h].report.msg \in Messages
          /\ About(h) \in Alerts
      BY <2>1, AlertOfMessage DEF Threads, Reports, About
    <2>3. row' \in [Messages -> Rows \cup {None}]
      <3>1. Written(h) \in Rows
        <4>1. row[handler[h].report.msg] \in Rows
          BY <1>4, <2>2 DEF AlertTypeOK, Commit, Loaded
        <4>2. Updated(handler[h].copy, handler[h].report) \in Rows
          BY <2>2, UpdatedLater
        <4> QED
          BY <2>2, <4>1, <4>2 DEF Written, Column, Rows
      <3> QED
        BY <1>4, <2>2, <3>1 DEF AlertTypeOK, Commit
    <2>4. root' \in [Alerts -> RootStatuses \cup {None}]
      BY <1>4, <2>2 DEF AlertTypeOK, Commit, Column
    <2> QED
      BY <1>4, <2>2, <2>3, <2>4 DEF AlertTypeOK, Commit
  <1>5. ASSUME NEW h \in Handlers, Fail(h) PROVE AlertTypeOK'
    <2>1. handler[h] \in Threads
      BY <1>5 DEF AlertTypeOK, Fail, Busy
    <2>2. handler[h].report \in Reports /\ About(h) \in Alerts
      BY <2>1, AlertOfMessage DEF Threads, Reports, About
    <2> QED
      BY <1>5, <2>2 DEF AlertTypeOK, Fail, NotSaved
  <1> QED
    BY <1>1, <1>2, <1>3, <1>4, <1>5

\* The first recovery gives up rows that were in dispatch, and no others.
LEMMA GivenUpRow ==
  ASSUME AlertTypeOK, NEW m \in Messages
  PROVE  /\ GivenUp[m] \in Rows \cup {None}
         /\ GivenUp[m] = None <=> row[m] = None
         /\ \/ GivenUp[m] = row[m] /\ ~Abandoned(m)
            \/ /\ Abandoned(m) /\ row[m] \in Rows /\ GivenUp[m] \in Rows
               /\ row[m].status = "dispatching" /\ GivenUp[m].status = "failed"
               /\ GivenUp[m].id = row[m].id
  <1>1. row[m] \in Rows \cup {None} /\ None \notin Rows /\ Stamp \in Nat
    BY OpsAlertsAssumption DEF AlertTypeOK, Stamp
  <1>2. CASE Abandoned(m)
    <2>1. row[m] \in Rows /\ row[m].status = "dispatching"
      BY <1>1, <1>2 DEF Abandoned
    <2>2. GivenUp[m] = [row[m] EXCEPT !.status = "failed", !.at = Stamp]
      BY <1>2 DEF GivenUp
    <2>3. GivenUp[m] \in Rows /\ GivenUp[m].status = "failed" /\ GivenUp[m].id = row[m].id
      BY <1>1, <2>1, <2>2 DEF Rows, RecipientStatuses, Reported
    <2> QED
      BY <1>1, <1>2, <2>1, <2>3
  <1>3. CASE ~Abandoned(m)
    BY <1>1, <1>3 DEF GivenUp
  <1> QED
    BY <1>2, <1>3

\* The second recovery puts back rows that are in dispatch, and no others.
LEMMA ResetRow ==
  ASSUME NEW rows \in [Messages -> Rows \cup {None}], NEW m \in Messages
  PROVE  /\ Reset(rows)[m] \in Rows \cup {None}
         /\ Reset(rows)[m] = None <=> rows[m] = None
         /\ \/ Reset(rows)[m] = rows[m]
            \/ /\ rows[m] \in Rows /\ Reset(rows)[m] \in Rows
               /\ rows[m].status = "dispatching" /\ Reset(rows)[m].status = "pending"
               /\ Reset(rows)[m].id = rows[m].id
  <1>1. rows[m] \in Rows \cup {None} /\ None \notin Rows
    BY OpsAlertsAssumption
  <1>2. CASE Stuck(rows, m)
    <2>1. rows[m] \in Rows /\ rows[m].status = "dispatching"
      BY <1>1, <1>2 DEF Stuck
    <2>2. Reset(rows)[m] = [rows[m] EXCEPT !.status = "pending"]
      BY <1>2 DEF Reset
    <2>3. /\ Reset(rows)[m] \in Rows
          /\ Reset(rows)[m].status = "pending" /\ Reset(rows)[m].id = rows[m].id
      BY <2>1, <2>2 DEF Rows, RecipientStatuses
    <2> QED
      BY <1>1, <2>1, <2>3
  <1>3. CASE ~Stuck(rows, m)
    BY <1>1, <1>3 DEF Reset
  <1> QED
    BY <1>2, <1>3

LEMMA RowsTyped ==
  ASSUME AlertTypeOK
  PROVE  /\ row \in [Messages -> Rows \cup {None}]
         /\ GivenUp \in [Messages -> Rows \cup {None}]
         /\ \A rows \in [Messages -> Rows \cup {None}] : Reset(rows) \in [Messages -> Rows \cup {None}]
  <1>1. GivenUp \in [Messages -> Rows \cup {None}]
    BY GivenUpRow DEF GivenUp
  <1>2. ASSUME NEW rows \in [Messages -> Rows \cup {None}]
        PROVE  Reset(rows) \in [Messages -> Rows \cup {None}]
    BY ResetRow DEF Reset
  <1> QED
    BY <1>1, <1>2 DEF AlertTypeOK

\* A restarted process leaves a row as it is, or gives up or puts back one that
\* was in dispatch.
LEMMA RestartRow ==
  ASSUME AlertTypeOK, Restart, NEW m \in Messages
  PROVE  /\ row'[m] \in Rows \cup {None}
         /\ row'[m] = None <=> row[m] = None
         /\ \/ row'[m] = row[m]
            \/ /\ row[m] \in Rows /\ row'[m] \in Rows
               /\ row[m].status = "dispatching" /\ row'[m].status \in {"pending", "failed"}
               /\ row'[m].id = row[m].id
  <1>1. \/ row' = row \/ row' = GivenUp
        \/ row' = Reset(row) \/ row' = Reset(GivenUp)
    BY DEF Restart, StartAlerts
  <1>2. CASE row' = row
    BY <1>2, RowsTyped
  <1>3. CASE row' = GivenUp
    BY <1>3, GivenUpRow
  <1>4. CASE row' = Reset(row)
    BY <1>4, RowsTyped, ResetRow
  <1>5. CASE row' = Reset(GivenUp)
    <2> DEFINE g == GivenUp
    <2>1. g \in [Messages -> Rows \cup {None}]
      BY RowsTyped
    <2>2. /\ g[m] = None <=> row[m] = None
          /\ \/ g[m] = row[m]
             \/ /\ row[m] \in Rows /\ g[m] \in Rows
                /\ row[m].status = "dispatching" /\ g[m].status = "failed" /\ g[m].id = row[m].id
      BY GivenUpRow
    <2> HIDE DEF g
    <2>3. /\ Reset(g)[m] \in Rows \cup {None}
          /\ Reset(g)[m] = None <=> g[m] = None
          /\ \/ Reset(g)[m] = g[m]
             \/ /\ g[m] \in Rows /\ Reset(g)[m] \in Rows
                /\ g[m].status = "dispatching" /\ Reset(g)[m].status = "pending"
                /\ Reset(g)[m].id = g[m].id
      BY <2>1, ResetRow
    <2>4. row' = Reset(g)
      BY <1>5 DEF g
    <2> QED
      BY <2>2, <2>3, <2>4
  <1> QED
    BY <1>1, <1>2, <1>3, <1>4, <1>5

\* It leaves root rows of a status of the table.
LEMMA RestartRoots ==
  ASSUME AlertTypeOK, Restart
  PROVE  root' \in [Alerts -> RootStatuses \cup {None}]
  <1>1. RootsGivenUp \in [Alerts -> RootStatuses \cup {None}]
    BY DEF RootsGivenUp, AlertTypeOK, RootStatuses, RecipientStatuses, Reported
  <1>2. \A a, rows : Refreshed(a, rows) \in RootStatuses \cup {None}
    BY SummaryType DEF Refreshed
  <1>3. ASSUME NEW rows, NEW roots \in [Alerts -> RootStatuses \cup {None}]
        PROVE  RootsReset(rows, roots) \in [Alerts -> RootStatuses \cup {None}]
    BY <1>2 DEF RootsReset
  <1>4. root \in [Alerts -> RootStatuses \cup {None}]
    BY DEF AlertTypeOK
  <1> QED
    BY <1>1, <1>3, <1>4 DEF Restart, StartAlerts

\* Types are kept by every step.
LEMMA TypeStep ==
  ASSUME AlertInv, [Next]_vars PROVE AlertTypeOK'
  <1> USE DEF AlertInv
  <1>1. CASE \E a \in Alerts : Emit(a) \/ Dispatch(a)
    BY <1>1, DispatchType
  <1>2. CASE \/ \E m \in Messages, s \in Reported : Report(m, s)
             \/ \E e \in reports : Unmatched(e)
             \/ \E h \in Handlers, e \in reports : Load(h, e)
             \/ \E h \in Handlers : Handle(h)
    BY <1>2, WebhookType DEF Handle
  <1>3. CASE Tick
    BY <1>3 DEF Tick, AlertTypeOK, emission, sending, provider, table, webhook
  <1>4. CASE Restart
    <2>1. row' \in [Messages -> Rows \cup {None}]
      BY <1>4, RowsTyped DEF Restart, StartAlerts
    <2>2. root' \in [Alerts -> RootStatuses \cup {None}]
      BY <1>4, RestartRoots
    <2> QED
      BY <1>4, <2>1, <2>2 DEF Restart, AlertTypeOK, provider
  <1>5. CASE UNCHANGED vars
    BY <1>5 DEF vars, AlertTypeOK, clock, emission, sending, provider, table, webhook
  <1> QED
    BY <1>1, <1>2, <1>3, <1>4, <1>5 DEF Next

\* One message at most is sent to a recipient, and the dispatcher is done with a
\* row that has the provider's id.
LEMMA OneMessageStep ==
  ASSUME AlertInv, [Next]_vars PROVE OneMessage'
  <1> USE AlertOfMessage DEF AlertInv
  <1> SUFFICES ASSUME NEW n \in Messages
               PROVE  /\ alert'[AlertOf(n)] \in {"new", "queued"}
                            => accepted'[n] = 0 /\ row'[n] = None /\ stage'[n] = "due"
                      /\ alert'[AlertOf(n)] = "busy" /\ stage'[n] \in {"due", "sending", "again"}
                            => accepted'[n] = 0
                      /\ alert'[AlertOf(n)] = "busy" /\ stage'[n] # "done"
                            => row'[n] = None \/ ~row'[n].id
                      /\ accepted'[n] <= 1
    BY DEF OneMessage
  <1> DEFINE P == /\ alert[AlertOf(n)] \in {"new", "queued"}
                        => accepted[n] = 0 /\ row[n] = None /\ stage[n] = "due"
                  /\ alert[AlertOf(n)] = "busy" /\ stage[n] \in {"due", "sending", "again"}
                        => accepted[n] = 0
                  /\ alert[AlertOf(n)] = "busy" /\ stage[n] # "done" => row[n] = None \/ ~row[n].id
                  /\ accepted[n] <= 1
  <1>0. P /\ AlertOf(n) \in Alerts
    BY DEF OneMessage
  <1>t. /\ alert \in [Alerts -> {"new", "queued", "busy", "done", "lost"}]
        /\ stage \in [Messages -> {"due", "sending", "again", "answered", "done"}]
        /\ accepted \in [Messages -> Nat]
        /\ row \in [Messages -> Rows \cup {None}]
    BY DEF AlertTypeOK
  <1> HIDE DEF AlertInv
  <1>1. ASSUME NEW a \in Alerts, Emit(a) PROVE P'
    <2>1. UNCHANGED <<accepted, stage, row>>
      BY <1>1 DEF Emit, Enqueue, RecordQueued, Refuse, sending, provider, table
    <2>2. \/ UNCHANGED alert
          \/ alert[a] = "new" /\ \E s \in {"queued", "done"} : alert' = [alert EXCEPT ![a] = s]
      BY <1>1 DEF Emit, Enqueue, RecordQueued, Refuse
    <2> QED
      BY <1>0, <1>t, <2>1, <2>2
  <1>2. ASSUME NEW a \in Alerts, Take(a) \/ GiveUp(a) PROVE P'
    <2>1. UNCHANGED <<accepted, stage, row>>
      BY <1>2 DEF Take, GiveUp, sending, provider, table
    <2>2. alert[a] = "queued" /\ \E s \in {"busy", "done"} : alert' = [alert EXCEPT ![a] = s]
      BY <1>2 DEF Take, GiveUp
    <2> QED
      BY <1>0, <1>t, <2>1, <2>2
  <1>3. ASSUME NEW a \in Alerts, Finish(a) PROVE P'
    <2>1. /\ UNCHANGED <<accepted, row>>
          /\ alert[a] = "busy" /\ alert' = [alert EXCEPT ![a] = "done"]
          /\ stage' = [m \in Messages |-> IF m \in To(a) THEN "due" ELSE stage[m]]
      BY <1>3 DEF Finish, provider
    <2>2. CASE AlertOf(n) = a
      BY <1>0, <1>t, <2>1, <2>2
    <2>3. CASE AlertOf(n) # a
      BY <1>0, <1>t, <2>1, <2>3 DEF To
    <2> QED
      BY <2>2, <2>3
  <1>4. ASSUME NEW m \in Messages, Mark(m) PROVE P'
    <2>1. /\ At(m, "due") /\ UNCHANGED <<alert, accepted>>
          /\ stage' = [stage EXCEPT ![m] = "sending"]
          /\ row' = [row EXCEPT ![m] = NewRow(m)] \/ UNCHANGED row
      BY <1>4 DEF Mark, SaveRow, emission, provider
    <2>2. ~NewRow(m).id
      BY DEF NewRow
    <2> QED
      BY <1>0, <1>t, <2>1, <2>2 DEF At
  <1>5. ASSUME NEW m \in Messages, Send(m) PROVE P'
    <2>1. /\ At(m, "sending") \/ At(m, "again")
          /\ UNCHANGED <<alert, row>>
          /\ \E taken \in 0..1 :
                /\ accepted' = [accepted EXCEPT ![m] = @ + taken]
                /\ \/ stage' = [stage EXCEPT ![m] = "again"] /\ taken = 0
                   \/ stage' = [stage EXCEPT ![m] = "answered"]
      <3>1. PICK answer \in Answers, taken \in 0..1 :
               /\ At(m, "sending") \/ At(m, "again")
               /\ taken = 1 => answer \in {"accepted", "timeout"}
               /\ accepted' = [accepted EXCEPT ![m] = @ + taken]
               /\ \/ Retries(m, answer) /\ stage' = [stage EXCEPT ![m] = "again"]
                  \/ stage' = [stage EXCEPT ![m] = "answered"]
               /\ UNCHANGED <<emission, table>>
        BY <1>5 DEF Send
      <3>2. Retries(m, answer) => taken = 0
        <4>1. taken = 0 \/ taken = 1
          OBVIOUS
        <4>2. taken = 1 => answer # "server error"
          BY <3>1
        <4> QED
          BY <4>1, <4>2 DEF Retries
      <3> QED
        BY <3>1, <3>2 DEF emission, table
    <2> QED
      BY <1>0, <1>t, <2>1 DEF At
  <1>6. ASSUME NEW m \in Messages, Record(m) PROVE P'
    <2>1. /\ At(m, "answered") /\ UNCHANGED <<alert, accepted>>
          /\ stage' = [stage EXCEPT ![m] = "done"]
          /\ \A k \in Messages : k # m => row'[k] = row[k]
      BY <1>6, <1>t DEF Record, SaveRow, emission, provider
    <2> QED
      BY <1>0, <1>t, <2>1 DEF At
  <1>7. ASSUME NEW h \in Handlers, Commit(h) PROVE P'
    <2>1. /\ UNCHANGED <<alert, accepted, stage>>
          /\ row' = [row EXCEPT ![handler[h].report.msg] = Written(h)]
      BY <1>7 DEF Commit, emission, sending, provider
    <2>2. /\ row[handler[h].report.msg] # None /\ row[handler[h].report.msg].id
      BY <1>7 DEF AlertInv, Loaded, Commit
    <2>3. CASE n = handler[h].report.msg
      BY <1>0, <1>t, <2>1, <2>2, <2>3
    <2>4. CASE n # handler[h].report.msg
      BY <1>0, <1>t, <2>1, <2>4
    <2> QED
      BY <2>3, <2>4
  <1>8. CASE Restart
    <2>1. /\ alert' = [a \in Alerts |-> IF alert[a] \in {"queued", "busy"} THEN "lost" ELSE alert[a]]
          /\ UNCHANGED accepted
          /\ stage' = [m \in Messages |-> "due"]
      BY <1>8 DEF Restart, provider
    <2>2. row'[n] = None <=> row[n] = None
      BY <1>8, RestartRow DEF AlertInv
    <2> QED
      BY <1>0, <1>t, <2>1, <2>2
  <1>9. CASE UNCHANGED <<alert, accepted, stage, row>>
    BY <1>0, <1>9
  <1>10. CASE \/ \E m \in Messages, s \in Reported : Report(m, s)
              \/ \E e \in reports : Unmatched(e)
              \/ \E h \in Handlers, e \in reports : Load(h, e)
              \/ \E h \in Handlers : Fail(h)
              \/ Tick
              \/ UNCHANGED vars
    BY <1>9, <1>10 DEF Report, Unmatched, Load, Fail, Tick, vars, emission, sending, provider, table
  <1> QED
    BY <1>1, <1>2, <1>3, <1>4, <1>5, <1>6, <1>7, <1>8, <1>10
    DEF Next, Emit, Dispatch, Handle, To

\* Nothing forgets that an alert was disturbed.
LEMMA DisturbedGrows ==
  ASSUME [Next]_vars PROVE disturbed \subseteq disturbed'
  BY DEF Next, Emit, Dispatch, Handle, Enqueue, RecordQueued, Refuse, Take, GiveUp, Finish, Mark,
         Send, Record, Report, Unmatched, Load, Commit, Fail, Tick, Restart, SaveRoot, SaveRow,
         Saved, NotSaved, vars

\* The dispatcher's results are in the rows, unless a transaction was lost.
LEMMA ResultsStep ==
  ASSUME AlertInv, [Next]_vars PROVE ResultsKept'
  <1> USE AlertOfMessage
  <1> SUFFICES ASSUME NEW n \in Messages
               PROVE  /\ stage'[n] \in {"answered", "done"} => result'[n] # None
                      /\ alert'[AlertOf(n)] = "busy" /\ stage'[n] = "done"
                            /\ AlertOf(n) \notin disturbed'
                            => /\ row'[n] # None
                               /\ row'[n].status = IF result'[n] = "accepted"
                                                   THEN "dispatching" ELSE result'[n]
    BY DEF ResultsKept
  <1> DEFINE P == /\ stage[n] \in {"answered", "done"} => result[n] # None
                  /\ alert[AlertOf(n)] = "busy" /\ stage[n] = "done"
                        /\ AlertOf(n) \notin disturbed
                        => /\ row[n] # None
                           /\ row[n].status = IF result[n] = "accepted"
                                              THEN "dispatching" ELSE result[n]
  <1>0. P /\ AlertOf(n) \in Alerts
    BY DEF AlertInv, ResultsKept
  <1>t. /\ alert \in [Alerts -> {"new", "queued", "busy", "done", "lost"}]
        /\ stage \in [Messages -> {"due", "sending", "again", "answered", "done"}]
        /\ result \in [Messages -> Results \cup {None}]
        /\ row \in [Messages -> Rows \cup {None}]
    BY DEF AlertInv, AlertTypeOK
  <1>d. disturbed \subseteq disturbed'
    BY DisturbedGrows
  <1>1. ASSUME NEW a \in Alerts, Emit(a) PROVE P'
    <2>1. UNCHANGED <<result, stage, row>>
      BY <1>1 DEF Emit, Enqueue, RecordQueued, Refuse, sending, table
    <2>2. \/ UNCHANGED alert
          \/ alert[a] = "new" /\ \E s \in {"queued", "done"} : alert' = [alert EXCEPT ![a] = s]
      BY <1>1 DEF Emit, Enqueue, RecordQueued, Refuse
    <2> QED
      BY <1>0, <1>t, <1>d, <2>1, <2>2
  <1>2. ASSUME NEW a \in Alerts, Take(a) \/ GiveUp(a) PROVE P'
    <2>1. UNCHANGED <<result, stage, row>>
      BY <1>2 DEF Take, GiveUp, sending, table
    <2>2. alert[a] = "queued" /\ \E s \in {"busy", "done"} : alert' = [alert EXCEPT ![a] = s]
      BY <1>2 DEF Take, GiveUp
    <2>3. AlertOf(n) = a => stage[n] = "due"
      BY <2>2 DEF AlertInv, OneMessage
    <2> QED
      BY <1>0, <1>t, <1>d, <2>1, <2>2, <2>3
  <1>3. ASSUME NEW a \in Alerts, Finish(a) PROVE P'
    <2>1. /\ UNCHANGED row
          /\ alert' = [alert EXCEPT ![a] = "done"]
          /\ stage' = [m \in Messages |-> IF m \in To(a) THEN "due" ELSE stage[m]]
          /\ result' = [m \in Messages |-> IF m \in To(a) THEN None ELSE result[m]]
      BY <1>3 DEF Finish
    <2>2. n \in To(a) <=> AlertOf(n) = a
      BY DEF To
    <2> QED
      BY <1>0, <1>t, <1>d, <2>1, <2>2
  <1>4. ASSUME NEW m \in Messages, Mark(m) PROVE P'
    <2>1. /\ UNCHANGED <<alert, result>>
          /\ stage' = [stage EXCEPT ![m] = "sending"]
          /\ \A k \in Messages : k # m => row'[k] = row[k]
      BY <1>4, <1>t DEF Mark, SaveRow, emission
    <2> QED
      BY <1>0, <1>t, <1>d, <2>1
  <1>5. ASSUME NEW m \in Messages, Send(m) PROVE P'
    <2>1. /\ UNCHANGED <<alert, row>>
          /\ \/ stage' = [stage EXCEPT ![m] = "again"] /\ UNCHANGED result
             \/ /\ stage' = [stage EXCEPT ![m] = "answered"]
                /\ \E answer \in Answers : result' = [result EXCEPT ![m] = ResultOf(answer)]
      BY <1>5 DEF Send, emission, table
    <2>2. \A answer \in Answers : ResultOf(answer) # None
      BY OpsAlertsAssumption DEF ResultOf, RootStatuses, RecipientStatuses, Reported
    <2> QED
      BY <1>0, <1>t, <1>d, <2>1, <2>2
  <1>6. ASSUME NEW m \in Messages, Record(m) PROVE P'
    <2>1. /\ UNCHANGED <<alert, result>> /\ At(m, "answered")
          /\ stage' = [stage EXCEPT ![m] = "done"]
          /\ \/ row' = [row EXCEPT ![m] = Resulting(m)]
             \/ UNCHANGED row /\ AlertOf(m) \in disturbed'
      BY <1>6 DEF Record, SaveRow, NotSaved, emission
    <2>2. Resulting(m).status = IF result[m] = "accepted" THEN "dispatching" ELSE result[m]
      <3>1. row[m] # None => row[m] \in Rows
        BY <1>t
      <3> QED
        BY <3>1 DEF Resulting, NewRow, Rows
    <2>3. Resulting(m) \in Rows
      <3>1. result[m] \in Results
        BY <1>t, <2>1 DEF AlertInv, ResultsKept, At
      <3>2. NewRow(m) \in Rows /\ Stamp \in Nat
        BY DEF NewRow, Rows, RecipientStatuses, Stamp, AlertInv, AlertTypeOK
      <3> QED
        BY <1>t, <3>1, <3>2 DEF Resulting, Rows, Results, RecipientStatuses, Reported
    <2>4. Resulting(m) # None
      BY <2>3, OpsAlertsAssumption
    <2>5. CASE n = m
      BY <1>0, <1>t, <1>d, <2>1, <2>2, <2>4, <2>5 DEF At
    <2>6. CASE n # m
      BY <1>0, <1>t, <1>d, <2>1, <2>6
    <2> QED
      BY <2>5, <2>6
  <1>7. ASSUME NEW h \in Handlers, Commit(h) PROVE P'
    <2>1. /\ UNCHANGED <<alert, stage, result>>
          /\ row' = [row EXCEPT ![handler[h].report.msg] = Written(h)]
      BY <1>7 DEF Commit, emission, sending
    <2>2. CASE n = handler[h].report.msg
      <3>1. AlertOf(n) \notin disturbed => alert[AlertOf(n)] = "done"
        BY <1>7, <2>2 DEF AlertInv, Undisturbed, Commit, About
      <3> QED
        BY <1>0, <1>d, <2>1, <3>1
    <2>3. CASE n # handler[h].report.msg
      BY <1>0, <1>t, <1>d, <2>1, <2>3
    <2> QED
      BY <2>2, <2>3
  <1>8. CASE Restart
    BY <1>8 DEF Restart
  <1>9. CASE UNCHANGED <<alert, stage, result, row>>
    BY <1>0, <1>d, <1>9
  <1>10. CASE \/ \E m \in Messages, s \in Reported : Report(m, s)
              \/ \E e \in reports : Unmatched(e)
              \/ \E h \in Handlers, e \in reports : Load(h, e)
              \/ \E h \in Handlers : Fail(h)
              \/ Tick
              \/ UNCHANGED vars
    BY <1>9, <1>10 DEF Report, Unmatched, Load, Fail, Tick, vars, emission, sending, table
  <1> QED
    BY <1>1, <1>2, <1>3, <1>4, <1>5, <1>6, <1>7, <1>8, <1>10
    DEF Next, Emit, Dispatch, Handle, To

\* A row that has the provider's id is changed by webhook threads and by the
\* recovery only, and keeps the id.
LEMMA IdKept ==
  ASSUME AlertInv, [Next]_vars, NEW n \in Messages, row[n] # None, row[n].id
  PROVE  /\ row'[n] # None /\ row'[n].id
         /\ \/ row'[n] = row[n]
            \/ /\ Restart /\ row[n].status = "dispatching"
               /\ row'[n].status \in {"pending", "failed"}
            \/ \E h \in Handlers : /\ Commit(h) /\ handler[h].report.msg = n
                                  /\ row'[n] = Written(h)
  <1> DEFINE P == row' = row \/ \E m \in Messages : /\ m # n
                                                   /\ \E r : row' = [row EXCEPT ![m] = r]
  <1>t. row \in [Messages -> Rows \cup {None}]
    BY DEF AlertInv, AlertTypeOK
  <1>0. /\ row[n] \in Rows
        /\ ~\E s \in {"due", "sending", "again", "answered"} : At(n, s)
    BY <1>t DEF AlertInv, OneMessage, At
  <1>1. CASE P
    BY <1>0, <1>1, <1>t
  <1>2. ASSUME NEW m \in Messages, Mark(m) \/ Record(m) PROVE P
    <2>1. m # n
      BY <1>0, <1>2 DEF Mark, Record
    <2> QED
      BY <1>2, <2>1 DEF Mark, Record, SaveRow
  <1>3. ASSUME NEW h \in Handlers, Commit(h), handler[h].report.msg = n
        PROVE  row'[n] = Written(h) /\ Written(h) \in Rows /\ Written(h).id
    <2>1. handler[h] \in Threads
      BY <1>3 DEF AlertInv, AlertTypeOK, Commit, Busy
    <2>2. handler[h].copy \in Rows /\ handler[h].report \in Reports
      BY <2>1 DEF Threads
    <2>3. Updated(handler[h].copy, handler[h].report) \in Rows
      BY <2>2, UpdatedLater
    <2> QED
      BY <1>0, <1>3, <1>t, <2>2, <2>3 DEF Commit, Written, Column, Rows
  <1>4. ASSUME NEW h \in Handlers, Commit(h), handler[h].report.msg # n PROVE row'[n] = row[n]
    BY <1>4, <1>t DEF Commit
  <1>5. CASE Restart
    BY <1>0, <1>5, RestartRow DEF AlertInv
  <1>6. CASE \E a \in Alerts : Emit(a) \/ Take(a) \/ GiveUp(a) \/ Finish(a)
    BY <1>1, <1>6 DEF Emit, Enqueue, RecordQueued, Refuse, Take, GiveUp, Finish, table
  <1>7. CASE \/ \E m \in Messages : Send(m)
             \/ \E m \in Messages, s \in Reported : Report(m, s)
             \/ \E e \in reports : Unmatched(e)
             \/ \E h \in Handlers, e \in reports : Load(h, e)
             \/ \E h \in Handlers : Fail(h)
             \/ Tick
             \/ UNCHANGED vars
    BY <1>1, <1>7 DEF Send, Report, Unmatched, Load, Fail, Tick, vars, table
  <1> QED
    BY <1>0, <1>1, <1>2, <1>3, <1>4, <1>5, <1>6, <1>7, OpsAlertsAssumption
    DEF Next, Dispatch, Handle, To

\* A webhook thread keeps its work, ends, or starts on a report.
LEMMA HandlerStep ==
  ASSUME AlertInv, [Next]_vars, NEW h \in Handlers
  PROVE  \/ handler'[h] = handler[h]
         \/ handler'[h] = Free
         \/ \E e \in reports : Load(h, e)
  <1>t. handler \in [Handlers -> Threads \cup {Free}]
    BY DEF AlertInv, AlertTypeOK
  <1>1. ASSUME NEW g \in Handlers, NEW e \in reports, Load(g, e), g # h PROVE handler'[h] = handler[h]
    BY <1>t, <1>1 DEF Load
  <1>2. ASSUME NEW g \in Handlers, Handle(g) PROVE handler'[h] = handler[h] \/ handler'[h] = Free
    BY <1>t, <1>2 DEF Handle, Commit, Fail
  <1>3. CASE Restart
    BY <1>3 DEF Restart
  <1>4. CASE \/ \E a \in Alerts : Emit(a) \/ Dispatch(a)
             \/ \E m \in Messages, s \in Reported : Report(m, s)
             \/ \E e \in reports : Unmatched(e)
             \/ Tick
             \/ UNCHANGED vars
    BY <1>4 DEF Emit, Enqueue, RecordQueued, Refuse, Dispatch, Take, GiveUp, Finish, Mark, Send,
                Record, Report, Unmatched, Tick, vars, webhook
  <1> QED
    BY <1>1, <1>2, <1>3, <1>4 DEF Next

\* The row a webhook thread works on has the provider's id after a step, too.
LEMMA LoadedStep ==
  ASSUME AlertInv, [Next]_vars PROVE Loaded'
  <1> SUFFICES ASSUME NEW h \in Handlers, handler'[h] # Free
               PROVE  /\ row'[handler'[h].report.msg] # None
                      /\ row'[handler'[h].report.msg].id
    BY DEF Loaded, Busy, Free
  <1>t. handler \in [Handlers -> Threads \cup {Free}]
    BY DEF AlertInv, AlertTypeOK
  <1>1. CASE handler'[h] = handler[h]
    <2>1. handler[h].report.msg \in Messages
      BY <1>t, <1>1 DEF Threads, Reports
    <2> QED
      BY <1>1, <2>1, IdKept DEF AlertInv, Loaded, Busy
  <1>2. ASSUME NEW e \in reports, Load(h, e)
        PROVE  /\ row'[handler'[h].report.msg] # None
               /\ row'[handler'[h].report.msg].id
    BY <1>t, <1>2 DEF Load, Matches, table
  <1> QED
    BY <1>1, <1>2, HandlerStep

\* The reports that threads work on are among those the provider made, which are
\* never unmade.
LEMMA HandledStep ==
  ASSUME AlertInv, [Next]_vars PROVE HandledWasMade'
  <1>1. reports \subseteq reports'
    <2> USE DEF provider
    <2>1. CASE \E m \in Messages, s \in Reported : Report(m, s)
      BY <2>1 DEF Report
    <2>2. CASE ~\E m \in Messages, s \in Reported : Report(m, s)
      BY <2>2 DEF Next, Emit, Enqueue, RecordQueued, Refuse, Dispatch, Take, GiveUp, Finish, Mark,
                  Send, Record, Unmatched, Load, Handle, Commit, Fail, Tick, Restart, vars
    <2> QED
      BY <2>1, <2>2
  <1>2. ASSUME NEW h \in Handlers, handler'[h] # Free PROVE handler'[h].report \in reports
    <2>1. CASE handler'[h] = handler[h]
      BY <1>2, <2>1 DEF AlertInv, HandledWasMade, Busy
    <2>2. ASSUME NEW e \in reports, Load(h, e) PROVE handler'[h].report \in reports
      BY <2>2 DEF Load, AlertInv, AlertTypeOK
    <2> QED
      BY <1>2, <2>1, <2>2, HandlerStep
  <1> QED
    BY <1>1, <1>2 DEF HandledWasMade, Busy, Free

\* The statuses of an alert's recipients depend on its own rows.
LEMMA StatusesSame ==
  ASSUME NEW a, NEW r1, NEW r2, \A m \in To(a) : r1[m] = r2[m]
  PROVE  Statuses(a, r1) = Statuses(a, r2)
  BY DEF Statuses

\* Once the dispatcher is done with an alert, the alert's rows are changed by
\* webhook threads about it and by the recovery only, or else it is disturbed.
LEMMA DoneIsLeftAlone ==
  ASSUME AlertInv, [Next]_vars, NEW a \in Alerts, alert[a] = "done", a \notin disturbed'
  PROVE  /\ alert'[a] = "done"
         /\ \/ root'[a] = root[a] /\ \A m \in To(a) : row'[m] = row[m]
            \/ \E h \in Handlers : Commit(h) /\ About(h) = a
            \/ Restart
  <1> DEFINE Q == root'[a] = root[a] /\ \A m \in To(a) : row'[m] = row[m]
  <1>t. /\ alert \in [Alerts -> {"new", "queued", "busy", "done", "lost"}]
        /\ row \in [Messages -> Rows \cup {None}]
        /\ root \in [Alerts -> RootStatuses \cup {None}]
    BY DEF AlertInv, AlertTypeOK
  <1>1. ASSUME NEW b \in Alerts, Emit(b) PROVE alert'[a] = "done" /\ Q
    <2>1. CASE Enqueue(b)
      BY <1>t, <2>1 DEF Enqueue, table
    <2>2. CASE RecordQueued(b)
      <3>1. b # a
        BY <2>2 DEF RecordQueued, NotSaved
      <3> QED
        BY <1>t, <2>2, <3>1 DEF RecordQueued
    <2>3. CASE Refuse(b)
      BY <1>t, <2>3 DEF Refuse, SaveRoot
    <2> QED
      BY <1>1, <2>1, <2>2, <2>3 DEF Emit
  <1>2. ASSUME NEW b \in Alerts, Take(b) \/ GiveUp(b) \/ Finish(b) PROVE alert'[a] = "done" /\ Q
    <2>1. CASE Take(b)
      BY <1>t, <2>1 DEF Take, table
    <2>2. CASE GiveUp(b)
      BY <1>t, <2>2 DEF GiveUp, SaveRoot
    <2>3. CASE Finish(b)
      BY <1>t, <2>3 DEF Finish, SaveRoot
    <2> QED
      BY <1>2, <2>1, <2>2, <2>3
  <1>3. ASSUME NEW k \in Messages, Mark(k) \/ Record(k) PROVE alert'[a] = "done" /\ Q
    <2>1. k \notin To(a)
      BY <1>3 DEF Mark, Record, At, To
    <2> QED
      BY <1>t, <1>3, <2>1 DEF Mark, Record, SaveRow, emission, To
  <1>4. ASSUME NEW h \in Handlers, Commit(h), About(h) # a PROVE alert'[a] = "done" /\ Q
    <2>1. handler[h].report.msg \notin To(a)
      BY <1>4 DEF About, To
    <2> QED
      BY <1>t, <1>4, <2>1 DEF Commit, emission, To
  <1>5. ASSUME NEW h \in Handlers, Commit(h) PROVE alert'[a] = "done"
    BY <1>5 DEF Commit, emission
  <1>6. Restart => alert'[a] = "done"
    BY DEF Restart
  <1>7. CASE \/ \E m \in Messages : Send(m)
             \/ \E m \in Messages, s \in Reported : Report(m, s)
             \/ \E e \in reports : Unmatched(e)
             \/ \E h \in Handlers, e \in reports : Load(h, e)
             \/ \E h \in Handlers : Fail(h)
             \/ Tick
             \/ UNCHANGED vars
    BY <1>7 DEF Send, Report, Unmatched, Load, Fail, Tick, vars, emission, table
  <1> QED
    BY <1>1, <1>2, <1>3, <1>4, <1>5, <1>6, <1>7 DEF Next, Dispatch, Handle, To

\* A thread that met no other transaction still works on what the table holds.
LEMMA UndisturbedStep ==
  ASSUME AlertInv, [Next]_vars PROVE Undisturbed'
  <1> DEFINE Msg(h) == handler[h].report.msg
             Sum(h) == Refreshed(About(h), [row EXCEPT ![Msg(h)] =
                                              Updated(handler[h].copy, handler[h].report)])
  <1> SUFFICES ASSUME NEW h \in Handlers, Busy(h)', About(h)' \notin disturbed'
               PROVE  /\ alert'[About(h)'] = "done"
                      /\ handler'[h].copy = row'[Msg(h)']
                      /\ handler'[h].base = root'[About(h)']
                      /\ handler'[h].sum = Sum(h)'
                      /\ \A g \in Handlers : Busy(g)' /\ About(g)' = About(h)' => g = h
    BY DEF Undisturbed
  <1>t. /\ handler \in [Handlers -> Threads \cup {Free}]
        /\ row \in [Messages -> Rows \cup {None}] /\ row' \in [Messages -> Rows \cup {None}]
    BY TypeStep DEF AlertInv, AlertTypeOK
  <1>d. disturbed \subseteq disturbed'
    BY DisturbedGrows
  <1>1. CASE handler'[h] = handler[h]
    <2> DEFINE a == About(h)
    <2>1. Busy(h) /\ About(h)' = a /\ Msg(h)' = Msg(h) /\ Msg(h) \in Messages
          /\ a = AlertOf(Msg(h)) /\ a \in Alerts /\ a \notin disturbed'
      BY <1>1, <1>t, AlertOfMessage DEF Busy, Free, About, Threads, Reports
    <2>2. /\ alert[a] = "done"
          /\ handler[h].copy = row[Msg(h)]
          /\ handler[h].base = root[a]
          /\ handler[h].sum = Sum(h)
          /\ \A g \in Handlers : Busy(g) /\ About(g) = a => g = h
      BY <1>d, <2>1 DEF AlertInv, Undisturbed
    <2>3. ~Restart
      BY <2>1 DEF Restart, Busy, Free
    <2>4. ~\E g \in Handlers : Commit(g) /\ About(g) = a
      <3> SUFFICES ASSUME NEW g \in Handlers, Commit(g), About(g) = a PROVE FALSE
        OBVIOUS
      <3>1. g = h
        BY <2>2 DEF Commit
      <3> QED
        BY <1>t, <1>1, <2>1, <3>1 DEF Commit, Busy
    <2>5. alert'[a] = "done" /\ root'[a] = root[a] /\ \A m \in To(a) : row'[m] = row[m]
      BY <2>1, <2>2, <2>3, <2>4, DoneIsLeftAlone
    <2>6. Msg(h) \in To(a)
      BY <2>1 DEF To
    <2>7. Sum(h)' = Sum(h)
      <3> DEFINE u == Updated(handler[h].copy, handler[h].report)
      <3>1. Updated(handler'[h].copy, handler'[h].report) = u
        BY <1>1
      <3>2. \A m \in To(a) : [row' EXCEPT ![Msg(h)] = u][m] = [row EXCEPT ![Msg(h)] = u][m]
        BY <1>t, <2>5, <2>1 DEF To
      <3>3. Statuses(a, [row' EXCEPT ![Msg(h)] = u]) = Statuses(a, [row EXCEPT ![Msg(h)] = u])
        BY <3>2, StatusesSame
      <3>4. Sum(h) = IF root[a] = None THEN None
                     ELSE _aggregate_root_delivery_state(Statuses(a, [row EXCEPT ![Msg(h)] = u]))
        BY DEF Refreshed
      <3>5. Sum(h)' = IF root'[a] = None THEN None
                      ELSE _aggregate_root_delivery_state(Statuses(a, [row' EXCEPT ![Msg(h)] = u]))
        BY <2>1, <3>1 DEF Refreshed, Statuses
      <3> QED
        BY <2>5, <3>3, <3>4, <3>5
    <2>8. ASSUME NEW g \in Handlers, Busy(g)', About(g)' = a PROVE g = h
      <3>1. CASE handler'[g] = handler[g]
        BY <2>2, <2>8, <3>1 DEF Busy, Free, About
      <3>2. ASSUME NEW e \in reports, Load(g, e) PROVE FALSE
        <4>1. handler'[g].report = e /\ g \in Handlers
          BY <1>t, <3>2 DEF Load
        <4>2. AlertOf(e.msg) = a
          BY <2>8, <4>1 DEF About
        <4> QED
          BY <2>1, <3>2, <4>2 DEF Load
      <3>3. handler'[g] # Free
        BY <2>8 DEF Busy, Free
      <3> QED
        BY <3>1, <3>2, <3>3, HandlerStep
    <2> QED
      BY <1>1, <2>1, <2>2, <2>5, <2>6, <2>7, <2>8
  <1>2. ASSUME NEW e \in reports, Load(h, e)
        PROVE  /\ alert'[About(h)'] = "done"
               /\ handler'[h].copy = row'[Msg(h)']
               /\ handler'[h].base = root'[About(h)']
               /\ handler'[h].sum = Sum(h)'
               /\ \A g \in Handlers : Busy(g)' /\ About(g)' = About(h)' => g = h
    <2> DEFINE a == AlertOf(e.msg)
    <2>1. /\ UNCHANGED <<alert, row, root>>
          /\ handler'[h] = [report |-> e, copy |-> row[e.msg], base |-> root[a],
                            sum |-> Refreshed(a, [row EXCEPT ![e.msg] = Updated(row[e.msg], e)])]
          /\ \A g \in Handlers : g # h => handler'[g] = handler[g]
      BY <1>2, <1>t DEF Load, emission, table
    <2>2. About(h)' = a /\ Msg(h)' = e.msg
      BY <2>1 DEF About
    <2>3. alert[a] = "done" /\ ~\E g \in Handlers : Busy(g) /\ About(g) = a
      BY <1>2, <2>2 DEF Load
    <2>4. Sum(h)' = Refreshed(a, [row EXCEPT ![e.msg] = Updated(row[e.msg], e)])
      BY <2>1, <2>2 DEF Refreshed, Statuses
    <2>5. ASSUME NEW g \in Handlers, g # h PROVE Busy(g)' = Busy(g) /\ About(g)' = About(g)
      BY <2>1, <2>5 DEF Busy, Free, About
    <2> QED
      BY <2>1, <2>2, <2>3, <2>4, <2>5
  <1>3. handler'[h] # Free
    BY DEF Busy, Free
  <1> QED
    BY <1>1, <1>2, <1>3, HandlerStep

\* The statuses in an alert's rows are those a recipient's row may have.
LEMMA StatusesType ==
  ASSUME NEW a, NEW rows \in [Messages -> Rows \cup {None}]
  PROVE  Statuses(a, rows) \subseteq RecipientStatuses
  BY DEF Statuses, To, Rows

\* Three actions make the dispatcher be done with an alert.
LEMMA BecomesDone ==
  ASSUME AlertInv, [Next]_vars, NEW a \in Alerts, alert[a] # "done", alert'[a] = "done"
  PROVE  Refuse(a) \/ GiveUp(a) \/ Finish(a)
  <1>t. alert \in [Alerts -> {"new", "queued", "busy", "done", "lost"}]
    BY DEF AlertInv, AlertTypeOK
  <1>1. ASSUME NEW b \in Alerts, Emit(b) \/ Take(b) \/ GiveUp(b) \/ Finish(b)
        PROVE  Refuse(a) \/ GiveUp(a) \/ Finish(a)
    BY <1>t, <1>1 DEF Emit, Enqueue, RecordQueued, Refuse, Take, GiveUp, Finish
  <1>2. ASSUME NEW m \in Messages, Mark(m) \/ Send(m) \/ Record(m) PROVE FALSE
    BY <1>2 DEF Mark, Send, Record, emission
  <1>3. CASE \/ \E m \in Messages, s \in Reported : Report(m, s)
             \/ \E e \in reports : Unmatched(e)
             \/ \E h \in Handlers, e \in reports : Load(h, e)
             \/ \E h \in Handlers : Handle(h)
             \/ Tick
             \/ UNCHANGED vars
    BY <1>3 DEF Report, Unmatched, Load, Handle, Commit, Fail, Tick, vars, emission
  <1>4. CASE Restart
    BY <1>4, <1>t DEF Restart
  <1> QED
    BY <1>1, <1>2, <1>3, <1>4 DEF Next, Dispatch, To

\* What the root row of one alert has to say.
RootSays(a) ==
    alert[a] = "done" /\ a \notin disturbed /\ Statuses(a, row) # {} =>
        /\ root[a] # None
        /\ "suppressed" \notin Statuses(a, row) => SumsUp(root[a], Statuses(a, row))

\* The commit of a thread that met no other transaction.
LEMMA CommitSumsUp ==
  ASSUME AlertInv, [Next]_vars, NEW a, NEW h \in Handlers,
         Commit(h), About(h) = a, a \notin disturbed'
  PROVE  RootSays(a)'
  <1> DEFINE k == handler[h].report.msg
             u == Updated(handler[h].copy, handler[h].report)
             S == Statuses(a, [row EXCEPT ![k] = u])
  <1>t. /\ handler \in [Handlers -> Threads \cup {Free}]
        /\ row \in [Messages -> Rows \cup {None}] /\ root \in [Alerts -> RootStatuses \cup {None}]
    BY DEF AlertInv, AlertTypeOK
  <1>1. /\ Busy(h) /\ handler[h].copy \in Rows /\ handler[h].report \in Reports
        /\ k \in Messages /\ a = AlertOf(k) /\ a \in Alerts /\ k \in To(a)
    BY <1>t, AlertOfMessage DEF Commit, Busy, Threads, Reports, About, To
  <1>2. /\ alert[a] = "done" /\ a \notin disturbed
        /\ handler[h].copy = row[k] /\ handler[h].base = root[a]
        /\ handler[h].sum = Refreshed(a, [row EXCEPT ![k] = u])
    BY <1>1, DisturbedGrows DEF AlertInv, Undisturbed
  <1>3. row[k] \in Rows /\ row[k] # None
    BY <1>1, <1>2 DEF AlertInv, Loaded
  <1>4. row[k].status \in Statuses(a, row)
    BY <1>1, <1>3 DEF Statuses
  <1>5. root[a] # None
    BY <1>1, <1>2, <1>4 DEF AlertInv, RootKnown
  <1>6. handler[h].sum = _aggregate_root_delivery_state(S)
    BY <1>2, <1>5 DEF Refreshed
  <1>7. u \in Rows
    BY <1>1, UpdatedLater
  <1>8. Written(h) = u
    <2>1. Written(h) = [row[k] EXCEPT !.status = Column(u.status, row[k].status, row[k].status),
                                      !.at = Column(u.at, row[k].at, row[k].at)]
      BY <1>2 DEF Written
    <2>2. Written(h) = [row[k] EXCEPT !.status = u.status, !.at = u.at]
      BY <2>1 DEF Column
    <2>3. u.id = row[k].id
      BY <1>1, <1>2, UpdatedLater
    <2> QED
      BY <1>3, <1>7, <2>2, <2>3 DEF Rows
  <1>9. row' = [row EXCEPT ![k] = u] /\ root'[a] = _aggregate_root_delivery_state(S)
    BY <1>1, <1>2, <1>6, <1>8, <1>t DEF Commit, Column
  <1>10. Statuses(a, row') = S /\ S \subseteq RecipientStatuses
    BY <1>9, <1>7, <1>t, StatusesType
  <1>11. root'[a] # None
    BY <1>9, SummaryType, OpsAlertsAssumption
  <1>12. S # {} /\ "suppressed" \notin S => SumsUp(root'[a], S)
    BY <1>9, <1>10, SummarySumsUp
  <1> QED
    BY <1>10, <1>11, <1>12 DEF RootSays

\* The root rows roots say of an alert's recipients what the rows rows say.
Says(rows, roots, a) ==
    Statuses(a, rows) # {} =>
        /\ roots[a] # None
        /\ "suppressed" \notin Statuses(a, rows) => SumsUp(roots[a], Statuses(a, rows))

\* So does a root row that is summed up.
LEMMA RefreshedSays ==
  ASSUME NEW a \in Alerts, NEW rows \in [Messages -> Rows \cup {None}], NEW roots,
         root[a] # None, roots[a] = Refreshed(a, rows)
  PROVE  Says(rows, roots, a)
  <1> DEFINE S == Statuses(a, rows)
  <1>1. roots[a] = _aggregate_root_delivery_state(S)
    BY DEF Refreshed
  <1>2. S \subseteq RecipientStatuses
    BY StatusesType
  <1>3. roots[a] # None
    BY <1>1, SummaryType, OpsAlertsAssumption
  <1>4. S # {} /\ "suppressed" \notin S => SumsUp(roots[a], S)
    BY <1>1, <1>2, SummarySumsUp
  <1> QED
    BY <1>3, <1>4 DEF Says

\* Giving up what is in dispatch turns the status of these rows, and the root's
\* with it, although nothing is summed up.
LEMMA GivenUpSays ==
  ASSUME AlertTypeOK, NEW a \in Alerts, Says(row, root, a)
  PROVE  Says(GivenUp, RootsGivenUp, a)
  <1> DEFINE D == {m \in To(a) : row[m] # None}
             S == Statuses(a, row)
             T == Statuses(a, GivenUp)
  <1>1. \A m \in To(a) : m \in Messages /\ AlertOf(m) = a
    BY DEF To
  <1>2. \A m \in To(a) : GivenUp[m] # None <=> row[m] # None
    BY <1>1, GivenUpRow
  <1>3. S = {row[m].status : m \in D} /\ T = {GivenUp[m].status : m \in D}
    BY <1>2 DEF Statuses
  <1>4. S \subseteq RecipientStatuses
    BY RowsTyped, StatusesType
  <1>5. RootsGivenUp[a] = IF CutOff(a) /\ root[a] \in {"dispatching", "partial_failure"}
                          THEN "failed" ELSE root[a]
    BY DEF RootsGivenUp
  <1>6. ASSUME NEW m \in D
        PROVE  GivenUp[m].status = IF CutOff(a) /\ row[m].status = "dispatching"
                                   THEN "failed" ELSE row[m].status
    <2>1. m \in Messages /\ AlertOf(m) = a /\ row[m] # None
      BY <1>1
    <2>2. Abandoned(m) <=> CutOff(a) /\ row[m].status = "dispatching"
      BY <2>1 DEF Abandoned
    <2> QED
      BY <2>1, <2>2, GivenUpRow
  <1> HIDE DEF S, T, D
  <1>7. CASE ~CutOff(a)
    <2>1. T = S
      BY <1>3, <1>6, <1>7
    <2> QED
      BY <1>5, <1>7, <2>1 DEF Says, S, T
  <1>8. CASE CutOff(a)
    <2>1. \A t : t \in T <=> \/ t \in S /\ t # "dispatching"
                             \/ t = "failed" /\ "dispatching" \in S
      <3>1. \A m \in D : GivenUp[m].status = IF row[m].status = "dispatching"
                                             THEN "failed" ELSE row[m].status
        BY <1>6, <1>8
      <3>2. ASSUME NEW t \in T
            PROVE  \/ t \in S /\ t # "dispatching"
                   \/ t = "failed" /\ "dispatching" \in S
        <4>1. PICK m \in D : t = GivenUp[m].status
          BY <1>3
        <4>2. row[m].status \in S
          BY <1>3
        <4>3. t = IF row[m].status = "dispatching" THEN "failed" ELSE row[m].status
          BY <3>1, <4>1
        <4> QED
          BY <4>2, <4>3
      <3>3. ASSUME NEW t, \/ t \in S /\ t # "dispatching"
                          \/ t = "failed" /\ "dispatching" \in S
            PROVE  t \in T
        <4>1. PICK m \in D : row[m].status = IF t \in S /\ t # "dispatching"
                                             THEN t ELSE "dispatching"
          BY <1>3, <3>3
        <4>2. GivenUp[m].status = IF row[m].status = "dispatching"
                                  THEN "failed" ELSE row[m].status
          BY <3>1
        <4>3. GivenUp[m].status = t
          BY <3>3, <4>1, <4>2
        <4>4. GivenUp[m].status \in T
          BY <1>3
        <4> QED
          BY <4>3, <4>4
      <3> QED
        BY <3>2, <3>3
    <2> SUFFICES ASSUME T # {} PROVE /\ RootsGivenUp[a] # None
                                     /\ "suppressed" \notin T => SumsUp(RootsGivenUp[a], T)
      BY DEF Says, T
    <2>2. S # {}
      BY <2>1
    <2>3. root[a] # None /\ ("suppressed" \notin S => SumsUp(root[a], S))
      BY <2>2 DEF Says, S
    <2>4. RootsGivenUp[a] # None
      BY <1>5, <2>3, OpsAlertsAssumption DEF RootStatuses, RecipientStatuses, Reported
    <2>5. ASSUME "suppressed" \notin T PROVE SumsUp(RootsGivenUp[a], T)
      <3>1. "suppressed" \notin S /\ SumsUp(root[a], S)
        BY <2>1, <2>3, <2>5
      <3>2. CASE root[a] \in {"dispatching", "partial_failure"}
        <4>1. RootsGivenUp[a] = "failed"
          BY <1>5, <1>8, <3>2
        <4>2. ~(S \subseteq {"dispatched", "delivered", "read"})
          BY <3>1, <3>2 DEF SumsUp
        <4>3. T \cap {"failed", "pending"} # {}
          <5>1. PICK s \in S : s \notin {"dispatched", "delivered", "read"}
            BY <4>2
          <5>2. s \in {"pending", "dispatching", "failed"}
            BY <1>4, <3>1, <5>1 DEF RecipientStatuses, Reported
          <5> QED
            BY <2>1, <5>2
        <4>4. "dispatching" \notin T
          BY <2>1
        <4>5. ~(T \subseteq {"dispatched", "delivered", "read"})
          BY <4>3
        <4> QED
          BY <4>1, <4>3, <4>4, <4>5 DEF SumsUp
      <3>3. CASE root[a] \notin {"dispatching", "partial_failure"}
        <4>1. RootsGivenUp[a] = root[a]
          BY <1>5, <3>3
        <4>2. "dispatching" \notin S
          BY <3>1, <3>3 DEF SumsUp
        <4>3. T = S
          BY <2>1, <4>2
        <4> QED
          BY <3>1, <4>1, <4>3
      <3> QED
        BY <3>2, <3>3
    <2> QED
      BY <2>4, <2>5
  <1> QED
    BY <1>7, <1>8

\* Putting back what is in dispatch sums the alerts up of which it is.
LEMMA ResetSays ==
  ASSUME NEW a \in Alerts, NEW rows \in [Messages -> Rows \cup {None}], NEW roots,
         Says(rows, roots, a), roots[a] = None <=> root[a] = None
  PROVE  Says(Reset(rows), RootsReset(rows, roots), a)
  <1> DEFINE new == RootsReset(rows, roots)
  <1>1. Reset(rows) \in [Messages -> Rows \cup {None}]
    BY ResetRow DEF Reset
  <1>2. new[a] = IF (\E m \in To(a) : Stuck(rows, m)) \/ (Old(a) /\ roots[a] = "dispatching")
                 THEN Refreshed(a, Reset(rows)) ELSE roots[a]
    BY DEF RootsReset
  <1>3. \A m \in To(a) : Reset(rows)[m] = None <=> rows[m] = None
    BY ResetRow DEF To
  <1> HIDE DEF new
  <1>4. CASE root[a] = None
    <2>1. Statuses(a, rows) = {}
      BY <1>4 DEF Says
    <2>2. \A m \in To(a) : rows[m] = None
      BY <2>1 DEF Statuses
    <2>3. Statuses(a, Reset(rows)) = {}
      BY <1>3, <2>2 DEF Statuses
    <2> QED
      BY <2>3 DEF Says
  <1>5. CASE root[a] # None /\ new[a] = Refreshed(a, Reset(rows))
    BY <1>1, <1>5, RefreshedSays DEF new
  <1>6. CASE new[a] = roots[a] /\ ~\E m \in To(a) : Stuck(rows, m)
    <2>1. \A m \in To(a) : Reset(rows)[m] = rows[m]
      BY <1>6 DEF Reset, To
    <2>2. Statuses(a, Reset(rows)) = Statuses(a, rows)
      BY <2>1, StatusesSame
    <2> QED
      BY <1>6, <2>2 DEF Says, new
  <1> QED
    BY <1>2, <1>4, <1>5, <1>6

\* A restarted process leaves root rows that say of the recipients what their
\* rows say, whichever of its recoveries succeed.
LEMMA RestartSumsUp ==
  ASSUME AlertInv, Restart, NEW a \in Alerts, alert[a] = "done", a \notin disturbed
  PROVE  RootSays(a)'
  <1>1. Says(row, root, a)
    BY DEF AlertInv, RootKnown, RootSumsUp, Settled, Says
  <1>2. Says(GivenUp, RootsGivenUp, a)
    BY <1>1, GivenUpSays DEF AlertInv
  <1>3. RootsGivenUp[a] = None <=> root[a] = None
    BY OpsAlertsAssumption DEF RootsGivenUp, RootStatuses, RecipientStatuses, Reported
  <1>4. row \in [Messages -> Rows \cup {None}] /\ GivenUp \in [Messages -> Rows \cup {None}]
    BY RowsTyped DEF AlertInv
  <1>5. Says(Reset(row), RootsReset(row, root), a)
    BY <1>1, <1>4, ResetSays
  <1>6. Says(Reset(GivenUp), RootsReset(GivenUp, RootsGivenUp), a)
    BY <1>2, <1>3, <1>4, ResetSays
  <1>7. Says(row', root', a)
    BY <1>1, <1>2, <1>5, <1>6 DEF Restart, StartAlerts
  <1> QED
    BY <1>7 DEF RootSays, Says, Statuses, To, Messages, AlertOf

\* The dispatcher leaves a root row that says of the recipients what their rows
\* say, unless a transaction was lost or a thread came in between.
LEMMA FinishSumsUp ==
  ASSUME AlertInv, NEW a \in Alerts, Finish(a), a \notin disturbed, a \notin disturbed'
  PROVE  RootSays(a)'
  <1> DEFINE S == Statuses(a, row)
             R == {result[m] : m \in To(a)}
  <1>1. root'[a] = Outcome(R) /\ row' = row /\ Statuses(a, row') = S
    BY DEF Finish, SaveRoot, NotSaved, AlertInv, AlertTypeOK
  <1>2. \A m \in To(a) :
          /\ result[m] \in Results /\ row[m] # None
          /\ row[m].status = IF result[m] = "accepted" THEN "dispatching" ELSE result[m]
    BY DEF AlertInv, AlertTypeOK, ResultsKept, Finish, To
  <1>3. R \subseteq Results
    BY <1>2
  <1>4. \A r \in R : (IF r = "accepted" THEN "dispatching" ELSE r) \in S
    BY <1>2 DEF Statuses
  <1>5. \A s \in S : \E r \in R : s = IF r = "accepted" THEN "dispatching" ELSE r
    BY <1>2 DEF Statuses
  <1>6. S # {} /\ "suppressed" \notin S => SumsUp(Outcome(R), S)
    BY <1>3, <1>4, <1>5, OutcomeSumsUp
  <1>7. Outcome(R) # None
    BY OpsAlertsAssumption DEF Outcome, RootStatuses, RecipientStatuses, Reported
  <1> QED
    BY <1>1, <1>6, <1>7 DEF RootSays

\* The root row says of the recipients what their rows say, after every step.
LEMMA RootStep ==
  ASSUME AlertInv, [Next]_vars PROVE RootKnown' /\ RootSumsUp'
  <1> SUFFICES ASSUME NEW a \in Alerts PROVE RootSays(a)'
    BY DEF RootSays, RootKnown, RootSumsUp, Settled
  <1> SUFFICES ASSUME alert'[a] = "done", a \notin disturbed' PROVE RootSays(a)'
    BY DEF RootSays
  <1>1. a \notin disturbed
    BY DisturbedGrows
  <1>2. CASE alert[a] = "done"
    <2>1. CASE root'[a] = root[a] /\ \A m \in To(a) : row'[m] = row[m]
      <3>1. Statuses(a, row') = Statuses(a, row)
        BY <2>1, StatusesSame
      <3> QED
        BY <1>1, <1>2, <2>1, <3>1 DEF RootSays, AlertInv, RootKnown, RootSumsUp, Settled
    <2>2. CASE \E h \in Handlers : Commit(h) /\ About(h) = a
      BY <2>2, CommitSumsUp
    <2>3. CASE Restart
      BY <1>1, <1>2, <2>3, RestartSumsUp
    <2> QED
      BY <1>2, <2>1, <2>2, <2>3, DoneIsLeftAlone
  <1>3. CASE alert[a] # "done"
    <2>1. CASE Finish(a)
      BY <1>1, <2>1, FinishSumsUp
    <2>2. CASE Refuse(a) \/ GiveUp(a)
      <3>1. alert[a] \in {"new", "queued"} /\ UNCHANGED row
        BY <2>2 DEF Refuse, GiveUp, table
      <3>2. \A m \in To(a) : row'[m] = None
        BY <3>1 DEF AlertInv, OneMessage, To
      <3>3. Statuses(a, row') = {}
        BY <3>2 DEF Statuses
      <3> QED
        BY <3>3 DEF RootSays
    <2> QED
      BY <1>3, <2>1, <2>2, BecomesDone
  <1> QED
    BY <1>2, <1>3

-----------------------------------------------------------------------------
\* The invariant holds in every state, for any alerts, recipients and threads.
THEOREM AlertInvariant == Spec => []AlertInv
  <1>1. Init => AlertInv
    BY InitInv
  <1>2. AlertInv /\ [Next]_vars => AlertInv'
    BY TypeStep, OneMessageStep, ResultsStep, LoadedStep, UndisturbedStep, HandledStep,
       RootStep DEF AlertInv
  <1> QED
    BY <1>1, <1>2, PTL DEF Spec

\* The table, the dispatcher's results and the copies of webhook threads have
\* their types.
THEOREM AlertTypes == Spec => []AlertTypeOK
  <1>1. AlertInv => AlertTypeOK
    BY DEF AlertInv
  <1> QED
    BY <1>1, AlertInvariant, PTL

\* The provider takes one message at most for a recipient of an alert, whatever
\* times out and however often the process dies.
THEOREM EveryMessageIsSentOnce == Spec => []SentOnce
  <1>1. AlertInv => SentOnce
    BY DEF AlertInv, OneMessage, SentOnce
  <1> QED
    BY <1>1, AlertInvariant, PTL

\* The root row of an alert agrees with the recipients' rows as long as no two
\* transactions about the alert meet and none is lost.
THEOREM RootsSumUp == Spec => []RootSumsUp
  <1>1. AlertInv => RootSumsUp
    BY DEF AlertInv
  <1> QED
    BY <1>1, AlertInvariant, PTL

\* No step takes back what a row tells of its message, except the commit of a
\* thread whose copy of the row is old.
THEOREM ReportsStay == Spec => ReportsAreNotUndone
  <1> DEFINE Later(m) == \/ row'[m].at > row[m].at
                         \/ row'[m].at = row[m].at /\ Rank(row'[m]) >= Rank(row[m])
                         \/ CommitsOldCopy(m)
  <1>1. ASSUME AlertInv, [Next]_vars, NEW m \in Messages, Tells(m), row'[m] # row[m]
        PROVE  Later(m)
    <2>t. /\ handler \in [Handlers -> Threads \cup {Free}]
          /\ row \in [Messages -> Rows \cup {None}]
      BY <1>1 DEF AlertInv, AlertTypeOK
    <2>1. row[m] # None /\ row[m] \in Rows /\ row[m].id /\ row[m].status # "dispatching"
      BY <1>1, <2>t DEF Tells, Reported
    <2>3. PICK h \in Handlers : /\ Commit(h) /\ handler[h].report.msg = m
                              /\ row'[m] = Written(h)
      BY <1>1, <2>1, IdKept
    <2>4. Busy(h) /\ handler'[h] = Free
      BY <2>3, <2>t DEF Commit
    <2>5. CASE handler[h].copy # row[m]
      BY <2>3, <2>4, <2>5 DEF CommitsOldCopy
    <2>6. CASE handler[h].copy = row[m]
      <3> DEFINE u == Updated(row[m], handler[h].report)
      <3>1. handler[h].report \in Reports
        BY <2>4, <2>t DEF Busy, Threads
      <3>2. /\ u \in Rows /\ u.id = row[m].id
            /\ u = row[m] \/ u.at > row[m].at \/ (u.at = row[m].at /\ Rank(u) >= Rank(row[m]))
        BY <2>1, <3>1, UpdatedLater
      <3>3. Written(h) = [row[m] EXCEPT !.status = Column(u.status, row[m].status, row[m].status),
                                        !.at = Column(u.at, row[m].at, row[m].at)]
        BY <2>3, <2>6 DEF Written
      <3>4. Written(h) = [row[m] EXCEPT !.status = u.status, !.at = u.at]
        BY <3>3 DEF Column
      <3>5. Written(h) = u
        BY <2>1, <3>2, <3>4 DEF Rows
      <3> QED
        BY <1>1, <2>3, <3>2, <3>5
    <2> QED
      BY <2>5, <2>6
  <1>2. AlertInv /\ [Next]_vars =>
          [\A m \in Messages : row'[m] # row[m] /\ Tells(m) => Later(m)]_vars
    BY <1>1
  <1> QED
    BY <1>2, AlertInvariant, PTL DEF Spec, ReportsAreNotUndone

-----------------------------------------------------------------------------
(* OpsAlerts implements DeliveryNotices.                                    *)

Shown(m) == IF Tells(m) THEN row[m].status ELSE None

NoticesStep ==
  [Notices!NNext]_<<accepted, [m \in Messages |-> StatusesOf(m)], [m \in Messages |-> Shown(m)]>>

LEMMA NoticesStutter ==
  ASSUME UNCHANGED provider, \A m \in Messages : Shown(m)' = Shown(m)
  PROVE  NoticesStep
  <1>1. \A m \in Messages : StatusesOf(m)' = StatusesOf(m)
    BY DEF provider, StatusesOf
  <1> QED
    BY <1>1 DEF NoticesStep, provider

\* A row without the provider's id shows nothing, and nothing after the step that
\* gives it one.
LEMMA IdComesUnreported ==
  ASSUME AlertInv, [Next]_vars, NEW n \in Messages, row[n] = None \/ ~row[n].id
  PROVE  ~Tells(n)'
  <1> DEFINE Quiet(r) == r = None \/ ~r.id \/ r.status = "dispatching"
  <1> SUFFICES Quiet(row'[n])
    BY DEF Tells, Reported
  <1>t. /\ row \in [Messages -> Rows \cup {None}]
        /\ handler \in [Handlers -> Threads \cup {Free}]
        /\ Quiet(row[n]) /\ None \notin Rows
    BY OpsAlertsAssumption DEF AlertInv, AlertTypeOK
  <1>1. ASSUME NEW m \in Messages, Mark(m) \/ Record(m) PROVE Quiet(row'[n])
    <2>1. NewRow(m).id = FALSE /\ NewRow(m) # None
      <3>1. created[AlertOf(m)] \in Nat
        BY AlertOfMessage DEF AlertInv, AlertTypeOK
      <3>2. NewRow(m) \in Rows
        BY <3>1 DEF NewRow, Rows, RecipientStatuses
      <3> QED
        BY <1>t, <3>2 DEF NewRow
    <2>2. CASE Mark(m)
      BY <1>t, <2>1, <2>2 DEF Mark, SaveRow
    <2>3. CASE Record(m) /\ m = n
      <3> DEFINE r == IF row[m] = None THEN NewRow(m) ELSE row[m]
      <3>1. ~r.id
        BY <2>1, <2>3
      <3>2. r \in Rows
        <4>1. created[AlertOf(m)] \in Nat
          BY AlertOfMessage DEF AlertInv, AlertTypeOK
        <4> QED
          BY <1>t, <4>1 DEF NewRow, Rows, RecipientStatuses
      <3>3. Quiet(Resulting(m))
        <4> HIDE DEF r
        <4>1. Resulting(m) = IF result[m] = "accepted"
                             THEN [r EXCEPT !.status = "dispatching", !.id = TRUE, !.at = Stamp]
                             ELSE [r EXCEPT !.status = result[m]]
          BY DEF Resulting, r
        <4> QED
          BY <3>1, <3>2, <4>1 DEF Rows
      <3> QED
        BY <1>t, <2>3, <3>3 DEF Record, SaveRow
    <2>4. CASE Record(m) /\ m # n
      BY <1>t, <2>4 DEF Record, SaveRow
    <2> QED
      BY <1>1, <2>2, <2>3, <2>4
  <1>2. ASSUME NEW h \in Handlers, Commit(h) PROVE Quiet(row'[n])
    <2>1. handler[h].report.msg # n
      BY <1>2 DEF Commit, AlertInv, Loaded
    <2> QED
      BY <1>t, <1>2, <2>1 DEF Commit
  <1>3. CASE Restart
    BY <1>3, RestartRow DEF AlertInv
  <1>4. CASE UNCHANGED row
    BY <1>t, <1>4
  <1> QED
    BY <1>1, <1>2, <1>3, <1>4
    DEF Next, Emit, Enqueue, RecordQueued, Refuse, Dispatch, Take, GiveUp, Finish, Send, Report,
        Unmatched, Load, Handle, Fail, Tick, vars, table, To

\* A row shows what it did, or the report that a webhook thread has applied to it.
LEMMA ShownStep ==
  ASSUME AlertInv, [Next]_vars, ~Restart, NEW n \in Messages, Shown(n)' # Shown(n)
  PROVE  \E h \in Handlers : /\ Commit(h) /\ handler[h].report.msg = n
                             /\ handler[h].report.status \in StatusesOf(n)
                             /\ Shown(n)' = handler[h].report.status
  <1>t. /\ row \in [Messages -> Rows \cup {None}]
        /\ handler \in [Handlers -> Threads \cup {Free}]
    BY DEF AlertInv, AlertTypeOK
  <1>1. row[n] # None /\ row[n].id
    BY IdComesUnreported DEF Shown, Tells
  <1>2. row[n] \in Rows
    BY <1>1, <1>t
  <1>4. PICK h \in Handlers : /\ Commit(h) /\ handler[h].report.msg = n
                            /\ row'[n] = Written(h)
    <2>1. row'[n] # row[n]
      BY DEF Shown, Tells
    <2> QED
      BY <1>1, <2>1, IdKept
  <1> DEFINE old == handler[h].copy
             e == handler[h].report
             new == Updated(old, e)
  <1>5. e \in Reports /\ e \in reports /\ old \in Rows
    BY <1>t, <1>4 DEF Commit, Busy, Threads, AlertInv, HandledWasMade
  <1>6. new.status = old.status \/ new.status = e.status
    BY <1>5 DEF Updated, Rows
  <1>7. row'[n].status = Column(new.status, old.status, row[n].status)
    BY <1>2, <1>4 DEF Written, Rows
  <1>8. row'[n].status = e.status
    <2>1. row'[n] # None /\ row'[n].id
      BY <1>1, IdKept
    <2>2. row'[n].status # row[n].status
      BY <1>1, <2>1 DEF Shown, Tells
    <2> QED
      BY <1>6, <1>7, <2>2 DEF Column
  <1>9. Shown(n)' = e.status
    <2>1. row'[n] # None /\ row'[n].id
      BY <1>1, IdKept
    <2>2. e.status \in Reported
      BY <1>5 DEF Reports
    <2> QED
      BY <1>8, <2>1, <2>2 DEF Shown, Tells
  <1>10. e.status \in StatusesOf(n)
    BY <1>4, <1>5 DEF StatusesOf
  <1> QED
    BY <1>4, <1>9, <1>10

\* The request that is sent has not been taken before; one that is taken twice
\* would be a second message.
LEMMA SendImplements ==
  ASSUME AlertInv, NEW m \in Messages, Send(m)
  PROVE  NoticesStep
  <1>1. /\ accepted \in [Messages -> Nat] /\ accepted[m] = 0 /\ UNCHANGED <<reports, row>>
    BY DEF Send, At, AlertInv, AlertTypeOK, OneMessage, table
  <1>2. PICK taken \in 0..1 : accepted' = [accepted EXCEPT ![m] = @ + taken]
    BY DEF Send
  <1>3. \A n \in Messages : Shown(n)' = Shown(n) /\ StatusesOf(n)' = StatusesOf(n)
    BY <1>1 DEF Shown, Tells, StatusesOf
  <1>4. CASE taken = 0
    <2>1. accepted' = accepted
      BY <1>1, <1>2, <1>4
    <2> QED
      BY <1>1, <1>3, <2>1, NoticesStutter DEF provider
  <1>5. CASE taken = 1
    <2>1. accepted' = [accepted EXCEPT ![m] = 1]
      BY <1>1, <1>2, <1>5
    <2>2. Notices!Deliver(m)
      BY <1>1, <1>3, <2>1 DEF Notices!Deliver, Shown
    <2> QED
      BY <2>2 DEF NoticesStep, Notices!NNext
  <1> QED
    BY <1>4, <1>5

LEMMA ReportImplements ==
  ASSUME AlertInv, NEW m \in Messages, NEW s \in Reported, Report(m, s)
  PROVE  NoticesStep
  <1>1. /\ UNCHANGED <<accepted, row>>
        /\ reports' = reports \cup {[msg |-> m, status |-> s, at |-> ProviderStamp]}
    BY DEF Report, table
  <1>2. accepted[m] = 1
    BY DEF Report, AlertInv, AlertTypeOK, OneMessage
  <1>3. /\ StatusesOf(m)' = StatusesOf(m) \cup {s}
        /\ \A n \in Messages \ {m} : StatusesOf(n)' = StatusesOf(n)
    <2> DEFINE made == [msg |-> m, status |-> s, at |-> ProviderStamp]
    <2>1. made.msg = m /\ made.status = s /\ reports' = reports \cup {made}
      BY <1>1
    <2> HIDE DEF made
    <2>2. StatusesOf(m)' = StatusesOf(m) \cup {s}
      BY <2>1 DEF StatusesOf
    <2>3. \A n \in Messages \ {m} : StatusesOf(n)' = StatusesOf(n)
      BY <2>1 DEF StatusesOf
    <2> QED
      BY <2>2, <2>3
  <1>4. [n \in Messages |-> StatusesOf(n)]' =
            [[n \in Messages |-> StatusesOf(n)] EXCEPT ![m] = @ \cup {s}]
    BY <1>3
  <1>5. \A n \in Messages : Shown(n)' = Shown(n)
    BY <1>1 DEF Shown, Tells
  <1>6. Notices!Tell(m, s)
    BY <1>1, <1>2, <1>4, <1>5 DEF Notices!Tell, Shown
  <1> QED
    BY <1>6 DEF NoticesStep, Notices!NNext

\* A restarted process gives up messages of which no report is shown.
LEMMA RestartImplements ==
  ASSUME AlertInv, Restart
  PROVE  NoticesStep
  <1>1. ASSUME NEW m \in Messages, Shown(m)' # Shown(m)
        PROVE  Shown(m) = None /\ Shown(m)' = "failed"
    <2>1. \/ row'[m] = row[m]
          \/ row[m].status = "dispatching" /\ row'[m].status \in {"pending", "failed"}
      BY RestartRow DEF AlertInv
    <2>2. row'[m] # row[m]
      BY <1>1 DEF Shown, Tells
    <2> QED
      BY <1>1, <2>1, <2>2 DEF Shown, Tells, Reported
  <1>2. PICK given \in SUBSET Messages : given = {m \in Messages : Shown(m)' # Shown(m)}
    OBVIOUS
  <1>3. \A m \in given : Shown(m) = None
    BY <1>1, <1>2
  <1>4. \A m \in Messages : Shown(m)' = IF m \in given THEN "failed" ELSE Shown(m)
    BY <1>1, <1>2
  <1>5. UNCHANGED provider
    BY DEF Restart
  <1>6. \A m \in Messages : StatusesOf(m)' = StatusesOf(m)
    BY <1>5 DEF StatusesOf, provider
  <1>7. Notices!Abandon(given)
    BY <1>2, <1>3, <1>4, <1>5, <1>6 DEF Notices!Abandon, Shown, provider
  <1>8. Notices!NNext
    BY <1>2, <1>7 DEF Notices!NNext
  <1> QED
    BY <1>8 DEF NoticesStep

\* A row shows another report only by the commit of a webhook thread.
LEMMA ShowImplements ==
  ASSUME AlertInv, [Next]_vars, ~Restart, UNCHANGED provider
  PROVE  NoticesStep
  <1>1. CASE \A m \in Messages : Shown(m)' = Shown(m)
    BY <1>1, NoticesStutter
  <1>2. ASSUME NEW m \in Messages, Shown(m)' # Shown(m) PROVE NoticesStep
    <2>1. PICK h \in Handlers : /\ Commit(h) /\ handler[h].report.msg = m
                              /\ handler[h].report.status \in StatusesOf(m)
                              /\ Shown(m)' = handler[h].report.status
      BY <1>2, ShownStep
    <2>2. PICK s \in Reported : s \in StatusesOf(m) /\ Shown(m)' = s
      BY <2>1 DEF StatusesOf, AlertInv, AlertTypeOK, Reports
    <2>3. \A n \in Messages \ {m} : Shown(n)' = Shown(n)
      BY <2>1 DEF Commit, AlertInv, AlertTypeOK, Shown, Tells
    <2>4. [n \in Messages |-> Shown(n)]' = [[n \in Messages |-> Shown(n)] EXCEPT ![m] = s]
      BY <2>2, <2>3
    <2>5. \A n \in Messages : StatusesOf(n)' = StatusesOf(n)
      BY DEF StatusesOf, provider
    <2>6. Notices!Show(m, s)
      BY <2>2, <2>4, <2>5 DEF Notices!Show, Shown, provider
    <2> QED
      BY <2>6 DEF NoticesStep, Notices!NNext
  <1> QED
    BY <1>1, <1>2

LEMMA NextImplements == AlertInv /\ [Next]_vars => NoticesStep
  <1> SUFFICES ASSUME AlertInv, [Next]_vars PROVE NoticesStep
    OBVIOUS
  <1>0. CASE Restart
    BY <1>0, RestartImplements
  <1>1. CASE ~Restart /\ UNCHANGED provider
    BY <1>1, ShowImplements
  <1>2. CASE ~UNCHANGED provider
    <2>1. \/ \E m \in Messages : Send(m)
          \/ \E m \in Messages, s \in Reported : Report(m, s)
      BY <1>2 DEF Next, Emit, Enqueue, RecordQueued, Refuse, Dispatch, Take, GiveUp, Finish, Mark,
                  Record, Unmatched, Load, Handle, Commit, Fail, Tick, Restart, vars, To, provider
    <2> QED
      BY <2>1, SendImplements, ReportImplements
  <1> QED
    BY <1>0, <1>1, <1>2

LEMMA InitImplements == Init => Notices!NInit
  BY DEF Init, Notices!NInit, Tells, StatusesOf

\* Dispatcher, sender, webhook threads and restarted processes together show of
\* each message what the provider told of it, or that it failed when a restarted
\* process gave it up with nothing shown of it, for any alerts, recipients and
\* threads.
THEOREM NoticesRefinement == Spec => ImplementsNotices
  BY InitImplements, NextImplements, AlertInvariant, PTL
     DEF Spec, ImplementsNotices, Notices!NSpec, NoticesStep, Shown
=============================================================================
