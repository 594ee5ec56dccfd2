------------------------------- MODULE Billing -------------------------------
(***************************************************************************)
(* Orders, payments and the subscription of one organisation               *)
(* (routers/billing.py, services/billing_manager.py).                      *)
(*                                                                         *)
(* A client checks out, pays at the payment provider, and the subscription *)
(* is activated by the provider's webhook or by the client's manual sync;  *)
(* a failed payment schedules a downgrade, which a status call or the daily*)
(* maintenance applies once it is due.  Calls run concurrently in several  *)
(* sessions.  An action is what a session does between two points at which *)
(* another session can step in: it takes row locks (SELECT ... FOR UPDATE, *)
(* or the write of a row), keeps them until it ends, and shows its writes  *)
(* when it commits.  A session writes the columns whose value differs from *)
(* the one it loaded, and no others.                                       *)
(*                                                                         *)
(* The provider is outside the repository.  It sends an event until it is  *)
(* answered, and may send it again, in any order.  A tick of the clock is  *)
(* a day; no call lasts from one day to the next.  Amounts, currencies,    *)
(* quotas and the audit rows are left out.                                 *)
(*                                                                         *)
(* There is one organisation, and it has its row in subscriptions.  The    *)
(* code allows an organisation without one: an activation then locks no    *)
(* row and adds one, and it is the unique indexes that stop a second.      *)
(***************************************************************************)
EXTENDS Naturals, FiniteSets

CONSTANTS Orders,     \* ids of the provider's orders, in the order of creation
          Calls,      \* sessions that may run at the same time
          None,
          Period,     \* days a payment buys
          Grace,      \* BILLING_GRACE_DAYS
          MaxTime,    \* bound on the clock
          MaxAttempts \* bound on the attempts to pay that fail

VARIABLES now,       \* the day
          addons,    \* the checkout contains add-ons
          prov,      \* the provider's status of each order
          out,       \* events the provider has for the webhook
          order,     \* payment_orders.status of each order, None for no row
          key,       \* payment_orders.idempotency_key
          sub,       \* the row of the organisation in subscriptions
          events,    \* webhook_events: the day each event was stored
          invoices,  \* number of invoices of each order
          call       \* what each session does

external == <<prov, out>>
tables == <<order, key, sub, events, invoices>>
vars == <<now, addons, external, tables, call>>

Statuses == {"created", "attempted", "failed", "paid"}
REUSABLE_ORDER_STATUSES == {"created", "attempted"}
PAID_ORDER_STATUSES == {"paid"}
Paying == {"payment.captured", "order.paid"}
Events == [order : Orders, type : Paying \cup {"payment.failed"}]
Event(o, type) == [order |-> o, type |-> type]
Stored(e) == events[e] # None

ASSUME BillingAssumption == /\ Period \in Nat \ {0}
                            /\ Grace \in Nat \ {0}
                            /\ Orders \subseteq Nat
                            /\ None \notin Nat
                            /\ None \notin Statuses \cup Paying \cup {"payment.failed"}
                            /\ MaxTime \in Nat /\ MaxAttempts \in Nat

\* The zero-cost plan and the plan a payment buys.
FreePlan == "pilot"
PaidPlan == "factory"

Idle == [at |-> "idle", event |-> None, order |-> None, was |-> None,
         got |-> None, key |-> None, sub |-> None, invoiced |-> FALSE]

Init ==
    /\ now = 0
    /\ addons \in BOOLEAN
    /\ prov = [o \in Orders |-> None]
    /\ out = {}
    /\ order = [o \in Orders |-> None]
    /\ key = [o \in Orders |-> None]
    /\ sub = [plan |-> FreePlan, status |-> "trialing", end |-> None,
              grace |-> None, pending |-> None, due |-> None]
    /\ events = [e \in Events |-> None]
    /\ invoices = [o \in Orders |-> 0]
    /\ call = [c \in Calls |-> Idle]

-----------------------------------------------------------------------------
(* The provider and the clock.                                             *)

\* The client pays an order he was given: the provider captures the payment
\* and has two events for it.
Pay(o) ==
    /\ prov[o] \in {"created", "attempted"}
    /\ prov' = [prov EXCEPT ![o] = "paid"]
    /\ out' = out \cup {Event(o, type) : type \in Paying}
    /\ UNCHANGED <<now, addons, tables, call>>

\* An attempt to pay fails.
PayFails(o) ==
    /\ prov[o] = "created"
    /\ Cardinality({e \in out : e.type = "payment.failed"}) < MaxAttempts
    /\ prov' = [prov EXCEPT ![o] = "attempted"]
    /\ out' = out \cup {Event(o, "payment.failed")}
    /\ UNCHANGED <<now, addons, tables, call>>

Tick ==
    /\ now < MaxTime
    /\ \A c \in Calls : call[c] = Idle
    /\ now' = now + 1
    /\ UNCHANGED <<addons, external, tables, call>>

-----------------------------------------------------------------------------
(* Sessions.                                                               *)

At(c, step) == call[c].at = step
Continue(c, r) == call' = [call EXCEPT ![c] = r]
End(c) == Continue(c, Idle)

\* The row locks a session holds until it ends.  A webhook that stores a payment
\* has the order from its read on, one that stores a failure has it when it has
\* changed its status; a session that activates has the subscription.
LocksOrder(c, o) ==
    /\ call[c].order = o /\ call[c].was # None
    /\ \/ call[c].event \in Paying /\ call[c].at \in {"lock sub", "activate", "write order", "mark"}
       \/ At(c, "schedule") /\ call[c].was # "failed"

LocksSub(c) == call[c].at \in {"activate", "write order"}

\* Mutated form: a failed payment is noted in the organisation's row, too, before
\* the subscription is written.
LocksOrgToo(c) == call[c].at \in {"write order", "schedule"} \/ (At(c, "store sub") /\ call[c].got = "downgrade")

\* The row of the organisation repeats the plan: an activation writes it when it
\* has the subscription, and a due downgrade before it writes the subscription,
\* since the rows of a flush go to organizations, payment_orders and
\* subscriptions in this order.  (A row that is the same is not written, and not
\* locked: here it always is.)
LocksOrg(c) == At(c, "write order") \/ (At(c, "store sub") /\ call[c].got = "downgrade")

\* Mutated form: the order is read without its lock.
OrderUnlocked(c, o) == c \in Calls

OrderFree(c, o) == \A d \in Calls \ {c} : ~LocksOrder(d, o)
SubFree(c) == \A d \in Calls \ {c} : ~LocksSub(d)
OrgFree(c) == \A d \in Calls \ {c} : ~LocksOrg(d)

\* Mutated form: every column of the copy is written.
WrittenWhole(row, old, new) == [f \in DOMAIN row |-> new[f]]

\* The row after a session that loaded `old` assigned it `new`.
Written(row, old, new) ==
    [f \in DOMAIN row |-> IF new[f] # old[f] THEN new[f] ELSE row[f]]

\* A session fails, or its process dies: nothing of it is kept.  A webhook that
\* failed was answered with an error, or not at all.
Fail(c) ==
    /\ call[c] # Idle
    /\ End(c)
    /\ UNCHANGED <<now, addons, external, tables>>

-----------------------------------------------------------------------------
(* Checkout: create_order.                                                 *)

\* The row found under the key of the day decides: a paid one is refused, a
\* reusable one is handed out again, after any other the order gets a fresh key.
LookUpKey(c) ==
    /\ call[c] = Idle
    /\ \E o \in Orders : prov[o] = None
    /\ LET found == {o \in Orders : order[o] # None /\ key[o] = now}
       IN  /\ \A o \in found : order[o] \notin PAID_ORDER_STATUSES \cup REUSABLE_ORDER_STATUSES
           /\ Continue(c, [Idle EXCEPT !.at = "create",
                                       !.key = IF found = {} THEN now ELSE None])
    /\ UNCHANGED <<now, addons, external, tables>>

\* Mutated form: the table does not refuse a key it has.
TakenNever(k) == k # k

\* The unique index on the keys.
Taken(k) == k # None /\ \E o \in Orders : order[o] # None /\ key[o] = k

\* The provider's order is answered even when its row is refused, because
\* another session has used the key since it was looked up.
CreateOrder(c) ==
    LET k == call[c].key
    IN  /\ At(c, "create")
        /\ \E o \in Orders :
              /\ prov[o] = None
              /\ \A p \in Orders : prov[p] = None => o <= p
              /\ prov' = [prov EXCEPT ![o] = "created"]
              /\ order' = [order EXCEPT ![o] = IF Taken(k) THEN @ ELSE "created"]
              /\ key' = [key EXCEPT ![o] = IF Taken(k) THEN @ ELSE k]
        /\ End(c)
        /\ UNCHANGED <<now, addons, out, sub, events, invoices>>

-----------------------------------------------------------------------------
(* The webhook stores the event and marks the order in one session.        *)

\* An event that is stored already is answered at once.
ReceiveEvent(c, e) ==
    /\ call[c] = Idle
    /\ e \in out
    /\ ~Stored(e)
    /\ Continue(c, [Idle EXCEPT !.at = "store event", !.event = e.type, !.order = e.order])
    /\ UNCHANGED <<now, addons, external, tables>>

CallEvent(c) == Event(call[c].order, call[c].event)
Storing(c) == call[c].event # None /\ call[c].at # "store event"

\* Mutated form: the event is committed before it is applied.
StoreEventFirst(c) ==
    LET e == CallEvent(c)
        was == order[e.order]
    IN  /\ At(c, "store event")
        /\ ~Stored(e)
        /\ events' = [events EXCEPT ![e] = now]
        /\ Continue(c, [call[c] EXCEPT !.was = was, !.got = "paid", !.sub = sub,
                  !.at = IF e.type \notin Paying THEN "store failed"
                         ELSE IF was \in PAID_ORDER_STATUSES THEN "mark" ELSE "lock sub"])
        /\ UNCHANGED <<now, addons, external, order, key, sub, invoices>>

\* The unique index makes the second of two equal inserts wait for the end of
\* the first session; if the row is there by then, the event is a duplicate.
\* A payment then reads its order under the lock, and is activated unless the
\* order was paid; a failure loads the order and the subscription without one.
StoreEvent(c) ==
    LET e == CallEvent(c)
        was == order[e.order]
    IN  /\ At(c, "store event")
        /\ \A d \in Calls : Storing(d) => CallEvent(d) # e
        /\ \/ Stored(e) /\ End(c)
           \/ /\ ~Stored(e) /\ e.type \in Paying
              /\ OrderFree(c, e.order)
              /\ Continue(c, [call[c] EXCEPT !.was = was, !.got = "paid",
                     !.at = IF was \in PAID_ORDER_STATUSES THEN "mark" ELSE "lock sub"])
           \/ /\ ~Stored(e) /\ e.type \notin Paying
              /\ Continue(c, [call[c] EXCEPT !.at = "store failed", !.was = was, !.sub = sub])
        /\ UNCHANGED <<now, addons, external, tables>>

\* Mutated form: the downgrade is due at once.
ScheduledNow(s) == [s EXCEPT !.pending = FreePlan, !.due = now]

Scheduled(s) == [s EXCEPT !.pending = FreePlan, !.due = now + Grace]

Failing(c) == call[c].was \notin {None, "failed"}

\* payment.failed: whatever the order is by now, its row is written first ...
MarkFailed(c) ==
    /\ At(c, "store failed")
    /\ Failing(c) => OrderFree(c, call[c].order)
    /\ Continue(c, [call[c] EXCEPT !.at = "schedule"])
    /\ UNCHANGED <<now, addons, external, tables>>

\* ... and then the subscription's: the downgrade is due after the days of grace.
CommitFailed(c) ==
    /\ At(c, "schedule")
    /\ SubFree(c)
    /\ order' = [order EXCEPT ![call[c].order] = IF Failing(c) THEN "failed" ELSE @]
    /\ sub' = Written(sub, call[c].sub, Scheduled(call[c].sub))
    /\ events' = [events EXCEPT ![CallEvent(c)] = now]
    /\ End(c)
    /\ UNCHANGED <<now, addons, external, key, invoices>>

-----------------------------------------------------------------------------
(* The manual sync asks the provider, and loads the order without a lock.  *)

SyncLoad(c, o) ==
    /\ call[c] = Idle
    /\ order[o] # None
    /\ Continue(c, [Idle EXCEPT !.at = "fetch", !.order = o, !.was = order[o]])
    /\ UNCHANGED <<now, addons, external, tables>>

\* A status that is the loaded one is not written.
SyncFetch(c) ==
    LET got == prov[call[c].order]
    IN  /\ At(c, "fetch")
        /\ \/ got = call[c].was /\ End(c)
           \/ /\ got # call[c].was
              /\ Continue(c, [call[c] EXCEPT !.got = got,
                     !.at = IF got \in PAID_ORDER_STATUSES THEN "lock sub" ELSE "mark"])
        /\ UNCHANGED <<now, addons, external, tables>>

-----------------------------------------------------------------------------
(* _activate_paid_order, for a webhook or a sync.                          *)

LockSub(c) ==
    /\ At(c, "lock sub")
    /\ SubFree(c)
    /\ Continue(c, [call[c] EXCEPT !.at = "activate", !.sub = sub,
                                   !.invoiced = invoices[call[c].order] > 0])
    /\ UNCHANGED <<now, addons, external, tables>>

\* The idempotency guard: a running period is not bought again, unless the
\* payment has add-ons.
Running(s) == s.status = "active" /\ s.end # None /\ s.end > now /\ ~addons

Activated(s) == [s EXCEPT !.plan = PaidPlan, !.status = "active",
                          !.end = now + Period, !.pending = None, !.due = None]

\* Mutated form: the invoice is recorded without looking for it.
InvoicedAgain(o, has) == [invoices EXCEPT ![o] = @ + 1]

\* An order that has an invoice keeps it.
Invoiced(o, has) == [invoices EXCEPT ![o] = IF has THEN @ ELSE @ + 1]

\* The flush of an activation begins with the organisation's row.
WriteOrg(c) ==
    /\ At(c, "activate")
    /\ ~Running(call[c].sub)
    /\ OrgFree(c)
    /\ Continue(c, [call[c] EXCEPT !.at = "write order"])
    /\ UNCHANGED <<now, addons, external, tables>>

\* The sessions that leave the subscription as it is.
MarksOnly(c) == At(c, "mark") \/ (At(c, "activate") /\ Running(call[c].sub))

\* The end of a webhook or a sync: the order gets its status, whatever it is by
\* now, and the payment its effects.
Commit(c) ==
    LET r == call[c]
    IN  /\ \/ /\ At(c, "write order")
              /\ sub' = Written(sub, r.sub, Activated(r.sub))
              /\ invoices' = Invoiced(r.order, r.invoiced)
           \/ MarksOnly(c) /\ UNCHANGED <<sub, invoices>>
        /\ OrderFree(c, r.order)
        /\ order' = [order EXCEPT ![r.order] = IF @ = None THEN None ELSE r.got]
        /\ events' = IF r.event = None THEN events ELSE [events EXCEPT ![CallEvent(c)] = now]
        /\ End(c)
        /\ UNCHANGED <<now, addons, external, key>>

-----------------------------------------------------------------------------
(* Maintenance of the subscription, by calls that load it without a lock:  *)
(* GET /billing/status and the daily script apply a due downgrade, the     *)
(* startup and every gated request normalise the row, and two calls mark a *)
(* period that has lapsed.                                                 *)

Downgraded(s) ==
    IF s.pending # None /\ s.due # None /\ s.due <= now
    THEN [s EXCEPT !.plan = s.pending, !.status = "active", !.pending = None, !.due = None]
    ELSE s

\* Mutated form: a period that lapsed gives a status of its own.
effective_status_expired(s) ==
    IF s.status = "active" /\ s.end # None /\ s.end <= now THEN "expired" ELSE s.status

get_effective_subscription_status(s) ==
    CASE s.status = "past_due" ->
            IF s.grace # None /\ s.grace <= now THEN "suspended" ELSE "past_due"
      [] s.status = "active" /\ s.end # None /\ s.end <= now ->
            IF (IF s.grace = None THEN s.end + Grace ELSE s.grace) > now
            THEN "past_due" ELSE "suspended"
      [] OTHER -> s.status

\* The end of the grace is set once: it is kept when a later payment buys a new
\* period.
Normalized(s) ==
    LET status == get_effective_subscription_status(s)
    IN  [s EXCEPT !.status = status,
                  !.grace = IF status = "past_due" /\ s.end # None /\ s.end <= now /\ @ = None
                            THEN s.end + Grace ELSE @]

Lapsed(s) ==
    IF s.status = "active" /\ s.end # None /\ s.end < now
    THEN [s EXCEPT !.status = "past_due"] ELSE s

Maintained(s, what) ==
    CASE what = "downgrade" -> Downgraded(s)
      [] what = "normalize" -> Normalized(s)
      [] what = "lapse" -> Lapsed(s)

Tasks == {"downgrade", "normalize", "lapse"}

LoadSub(c, what) ==
    /\ call[c] = Idle
    /\ Maintained(sub, what) # sub
    /\ Continue(c, [Idle EXCEPT !.at = IF what = "downgrade" THEN "store org" ELSE "store sub",
                                !.sub = sub, !.got = what])
    /\ UNCHANGED <<now, addons, external, tables>>

\* A downgrade changes the plan in the organisation's row first.
StoreOrg(c) ==
    /\ At(c, "store org")
    /\ OrgFree(c)
    /\ Continue(c, [call[c] EXCEPT !.at = "store sub"])
    /\ UNCHANGED <<now, addons, external, tables>>

StoreSub(c) ==
    /\ At(c, "store sub")
    /\ SubFree(c)
    /\ sub' = Written(sub, call[c].sub, Maintained(call[c].sub, call[c].got))
    /\ End(c)
    /\ UNCHANGED <<now, addons, external, order, key, events, invoices>>

-----------------------------------------------------------------------------
(* Sessions that wait.                                                     *)

NeedsOrder(c) ==
    \/ At(c, "store event") /\ call[c].event \in Paying /\ ~Stored(CallEvent(c))
    \/ At(c, "store failed") /\ Failing(c)
    \/ At(c, "write order") \/ MarksOnly(c)

NeedsSub(c) == call[c].at \in {"lock sub", "schedule", "store sub"}
NeedsOrg(c) == At(c, "store org") \/ (At(c, "activate") /\ ~Running(call[c].sub))

\* c cannot go on before d ends.
WaitsFor(c, d) ==
    /\ c # d
    /\ \/ At(c, "store event") /\ Storing(d) /\ CallEvent(d) = CallEvent(c)
       \/ NeedsOrder(c) /\ LocksOrder(d, call[c].order)
       \/ NeedsSub(c) /\ LocksSub(d)
       \/ NeedsOrg(c) /\ LocksOrg(d)

\* The database ends one of two sessions that wait for each other.
BreakDeadlock(c, d) ==
    /\ WaitsFor(c, d) /\ WaitsFor(d, c)
    /\ End(c) \/ End(d)
    /\ UNCHANGED <<now, addons, external, tables>>

-----------------------------------------------------------------------------
Session(c) ==
    \/ CreateOrder(c)
    \/ StoreEvent(c) \/ MarkFailed(c) \/ CommitFailed(c)
    \/ SyncFetch(c)
    \/ LockSub(c) \/ WriteOrg(c) \/ Commit(c)
    \/ StoreOrg(c) \/ StoreSub(c)

Next ==
    \/ \E o \in Orders : Pay(o) \/ PayFails(o)
    \/ Tick
    \/ \E c \in Calls : \/ LookUpKey(c)
                        \/ \E e \in Events : ReceiveEvent(c, e)
                        \/ \E o \in Orders : SyncLoad(c, o)
                        \/ \E what \in Tasks : LoadSub(c, what)
                        \/ Session(c)
                        \/ Fail(c)
                        \/ \E d \in Calls : BreakDeadlock(c, d)

Spec == Init /\ [][Next]_vars
=============================================================================
