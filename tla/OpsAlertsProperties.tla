------------------------ MODULE OpsAlertsProperties -------------------------
(***************************************************************************)
(* What OpsAlerts promises about messages, their rows and the root row.    *)
(***************************************************************************)
EXTENDS OpsAlerts

Results == {"accepted", "suppressed", "failed"}

Threads == [report : Reports, copy : Rows,
            base : RootStatuses \cup {None}, sum : RootStatuses \cup {None}]

\* Type correctness, with the copies of rows that webhook threads work on.
AlertTypeOK ==
    /\ now \in Nat /\ restarts \in Nat
    /\ alert \in [Alerts -> {"new", "queued", "busy", "done", "lost"}]
    /\ created \in [Alerts -> Nat]
    /\ recording \subseteq Alerts
    /\ stage \in [Messages -> {"due", "sending", "again", "answered", "done"}]
    /\ result \in [Messages -> Results \cup {None}]
    /\ accepted \in [Messages -> Nat]
    /\ reports \subseteq Reports
    /\ root \in [Alerts -> RootStatuses \cup {None}]
    /\ row \in [Messages -> Rows \cup {None}]
    /\ seen \subseteq Reports
    /\ handler \in [Handlers -> Threads \cup {Free}]
    /\ disturbed \subseteq Alerts

\* The provider takes one message at most for a recipient of an alert, although
\* requests are tried again, time out with an unknown outcome, and the process
\* is restarted with rows it left as dispatching.
SentOnce == \A m \in Messages : accepted[m] <= 1

\* The row tells what became of the message it is about: what the provider
\* reported, or that a restarted process gave it up.
Tells(m) == row[m] # None /\ row[m].id /\ row[m].status \in Reported

Rank(r) == DELIVERY_STATUS_PRECEDENCE(r.status)

\* The handler commits a copy of the row that another transaction outdated.
CommitsOldCopy(m) ==
    \E h \in Handlers : /\ Busy(h) /\ handler'[h] = Free
                        /\ handler[h].report.msg = m
                        /\ handler[h].copy # row[m]

\* What a row tells of its message is replaced by a later report only, or by one
\* of the same second that says more, in whatever order and however often the
\* reports come: neither the dispatcher nor a restarted process takes it back,
\* which recovers only what is in dispatch.  A thread that loaded the row before
\* another one wrote it may.
ReportsAreNotUndone ==
    [][\A m \in Messages : row'[m] # row[m] /\ Tells(m) =>
          \/ row'[m].at > row[m].at
          \/ row'[m].at = row[m].at /\ Rank(row'[m]) >= Rank(row[m])
          \/ CommitsOldCopy(m)]_vars

\* What a row tells is a report the provider made of that message, or the
\* failure of a message that a restarted process gave up before any report on it
\* was stored; either is replaced by a report of that message only, and never
\* taken away again: not by a result the dispatcher records late, a transaction
\* that is lost, or the recoveries of a process that finds the row once more; and
\* each message the reports are about was taken once.
Notices == INSTANCE DeliveryNotices WITH
               taken <- accepted,
               told <- [m \in Messages |-> StatusesOf(m)],
               shown <- [m \in Messages |-> IF Tells(m) THEN row[m].status ELSE None]

ImplementsNotices == Notices!NSpec

\* The dispatcher is done with the alert, and no two transactions ever met on it;
\* the sender refused no message (a suppressed recipient among others makes the
\* root "queued").
Settled(a) ==
    /\ alert[a] = "done"
    /\ a \notin disturbed
    /\ Statuses(a, row) # {}
    /\ "suppressed" \notin Statuses(a, row)

\* What the root row says of recipients whose rows have the statuses S.  It may
\* say that one failed when none did but one is pending: a process put the row
\* back, and the next one gave up the root row that still says it is in dispatch.
SumsUp(status, S) ==
    /\ status = "read" <=> S = {"read"}
    /\ status \in {"delivered", "read"} <=> S \subseteq {"delivered", "read"}
    /\ status \in {"dispatched", "delivered", "read"}
          <=> S \subseteq {"dispatched", "delivered", "read"}
    /\ "dispatching" \in S => status \in {"dispatching", "partial_failure"}
    /\ "failed" \in S => status \in {"failed", "partial_failure"}
    /\ status \in {"failed", "partial_failure"} => S \cap {"failed", "pending"} # {}

\* The root row of an alert says of all recipients what their rows say, through
\* reports out of order, duplicates and both recoveries of several restarts (the
\* first of which sums nothing up), unless transactions about the alert met: no
\* handler locks the rows it sums up.
RootSumsUp == \A a \in Alerts : Settled(a) => SumsUp(root[a], Statuses(a, row))

-----------------------------------------------------------------------------
(* The inductive invariant behind them.                                     *)

\* The dispatcher leaves a row alone once it has the provider's id.
OneMessage ==
    \A m \in Messages :
        /\ alert[AlertOf(m)] \in {"new", "queued"}
              => accepted[m] = 0 /\ row[m] = None /\ stage[m] = "due"
        /\ alert[AlertOf(m)] = "busy" /\ stage[m] \in {"due", "sending", "again"}
              => accepted[m] = 0
        /\ alert[AlertOf(m)] = "busy" /\ stage[m] # "done" => row[m] = None \/ ~row[m].id
        /\ accepted[m] <= 1

\* Its result is in the row of each message it is done with.
ResultsKept ==
    \A m \in Messages :
        /\ stage[m] \in {"answered", "done"} => result[m] # None
        /\ alert[AlertOf(m)] = "busy" /\ stage[m] = "done" /\ AlertOf(m) \notin disturbed
              => /\ row[m] # None
                 /\ row[m].status = IF result[m] = "accepted" THEN "dispatching" ELSE result[m]

\* The row a webhook thread works on keeps the provider's id.
Loaded ==
    \A h \in Handlers :
        Busy(h) => row[handler[h].report.msg] # None /\ row[handler[h].report.msg].id

\* A webhook thread that met no other transaction works on what the table holds.
Undisturbed ==
    \A h \in Handlers : Busy(h) /\ About(h) \notin disturbed =>
        /\ alert[About(h)] = "done"
        /\ handler[h].copy = row[handler[h].report.msg]
        /\ handler[h].base = root[About(h)]
        /\ handler[h].sum = Refreshed(About(h), [row EXCEPT ![handler[h].report.msg] =
                                              Updated(handler[h].copy, handler[h].report)])
        /\ \A g \in Handlers : Busy(g) /\ About(g) = About(h) => g = h

\* A webhook thread works on a report the provider made.
HandledWasMade == \A h \in Handlers : Busy(h) => handler[h].report \in reports

RootKnown ==
    \A a \in Alerts :
        alert[a] = "done" /\ a \notin disturbed /\ Statuses(a, row) # {} => root[a] # None

AlertInv ==
    /\ AlertTypeOK /\ OneMessage /\ ResultsKept
    /\ Loaded /\ Undisturbed /\ HandledWasMade
    /\ RootKnown /\ RootSumsUp
=============================================================================
