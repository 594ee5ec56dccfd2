------------------------- MODULE BillingProperties -------------------------
(***************************************************************************)
(* What Billing promises to the organisation that pays.                    *)
(***************************************************************************)
EXTENDS Billing

Days == Nat \cup {None}

SubRows == [plan : {FreePlan, PaidPlan},
            status : {"trialing", "active", "past_due", "suspended"},
            end : Days, grace : Days, pending : {FreePlan, None}, due : Days]

Sessions == [at : {"idle", "create", "store event", "store failed", "schedule", "fetch",
                   "lock sub", "activate", "write order", "mark", "store org", "store sub"},
             event : Paying \cup {"payment.failed", None}, order : Orders \cup {None},
             was : Statuses \cup {None}, got : Statuses \cup Tasks \cup {None},
             key : Days, sub : SubRows \cup {None}, invoiced : BOOLEAN]

\* Type correctness, with the copies of rows that sessions work on.
BillTypeOK ==
    /\ now \in Nat
    /\ addons \in BOOLEAN
    /\ prov \in [Orders -> {"created", "attempted", "paid", None}]
    /\ out \subseteq Events
    /\ order \in [Orders -> Statuses \cup {None}]
    /\ key \in [Orders -> Days]
    /\ sub \in SubRows
    /\ events \in [Events -> Days]
    /\ invoices \in [Orders -> Nat]
    /\ call \in [Calls -> Sessions]

\* An order has one invoice at most, whether two webhooks, a webhook and a sync,
\* or two syncs activate it at the same time.
InvoicedOnce == \A o \in Orders : invoices[o] <= 1

\* Two checkouts under one key of a day leave one row, although both may have
\* found none.
OneOrderPerKey ==
    \A o, p \in Orders :
        order[o] # None /\ order[p] # None /\ key[o] # None /\ key[o] = key[p] => o = p

\* The payments c activates in a step.
Activates(c) == At(c, "write order") /\ Commit(c)

\* A webhook does not activate an order that the table holds as paid by the
\* time of its commit, whichever events of the order are handled at the same
\* time; a sync may, when it loaded the order before.
PaidIsNotActivatedAgain ==
    [][\A c \in Calls :
          Activates(c) /\ call[c].event # None
              => order[call[c].order] \notin PAID_ORDER_STATUSES]_vars

\* A stored event is never applied again, so it is stored by the commit that
\* applies it: the order has its invoice, was paid before, or the subscription
\* still has a period.
StoredIsApplied ==
    [][\A o \in Orders, type \in Paying :
          ~Stored(Event(o, type)) /\ Stored(Event(o, type))' =>
              /\ order'[o] \in {None, "paid"}
              /\ invoices'[o] > 0 \/ order[o] \in PAID_ORDER_STATUSES \/ Running(sub)]_vars

\* A plan that was paid is lost only when a failed payment has been stored for
\* the days of grace, whichever sessions loaded the downgrade before.
GraceBeforeDowngrade ==
    [][sub.plan = PaidPlan /\ sub'.plan = FreePlan =>
          \E o \in Orders : LET e == Event(o, "payment.failed")
                            IN  Stored(e) /\ events[e] + Grace <= now]_vars

\* The plan is bought only with captured orders, for whole periods, with one
\* invoice each, and lost only by the grace: what sessions do at the same time,
\* in any order, looks like purchases and losses made one after another.
CapturedOrders == {o \in Orders : prov[o] = "paid"}
FailureDays == {events[Event(o, "payment.failed")] : o \in Orders} \ {None}

Plans == INSTANCE PaidPlans WITH
             day <- now, captured <- CapturedOrders, failures <- FailureDays,
             plan <- sub.plan, until <- sub.end

ImplementsPaidPlans == Plans!PSpec

Waits(c) == \E d \in Calls : WaitsFor(c, d)

\* A webhook of a payment or of a failure has the order and waits for the
\* subscription, a sync has the subscription and waits for the order.
OrderAgainstSub(c, d) ==
    /\ call[c].at \in {"lock sub", "schedule"} /\ LocksSub(d)
    /\ call[d].event = None /\ LocksOrder(c, call[d].order)

\* A due downgrade has the organisation and waits for the subscription, an
\* activation has the subscription and waits for the organisation.
OrgAgainstSub(c, d) ==
    /\ At(c, "store sub") /\ call[c].got = "downgrade"
    /\ At(d, "activate") /\ ~Running(call[d].sub)

\* Sessions never all wait for one another, except where an activation that has
\* the subscription meets a webhook that has its order, or a downgrade that has
\* the organisation: locks and inserts held in any other way leave a session that
\* can go on.
OnlyTwoDeadlocks ==
    (\E c \in Calls : call[c] # Idle) /\ (\A c \in Calls : call[c] # Idle => Waits(c))
        => \E c, d \in Calls : OrderAgainstSub(c, d) \/ OrgAgainstSub(c, d)

\* A subscription is suspended only after the days of grace that follow the
\* period it is in.
GraceAfterEachPeriod ==
    [][sub'.status = "suspended" /\ sub.status # "suspended" /\ sub.end # None
           => sub.end + Grace <= now]_vars
=============================================================================
