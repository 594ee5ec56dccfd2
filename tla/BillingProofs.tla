---------------------------- MODULE BillingProofs ----------------------------
(***************************************************************************)
(* Proofs about Billing for any orders, sessions and lengths of time.      *)
(***************************************************************************)
EXTENDS BillingProperties, TLAPS

-----------------------------------------------------------------------------
(* The inductive invariant.                                                *)

\* What a session r knows at each of its steps, of the provider's statuses pr and
\* the rows of the orders ro.
Sound(r, pr, ro) ==
    /\ r.at \in {"store event", "store failed", "schedule", "fetch", "lock sub", "activate",
                 "write order", "mark"} => r.order \in Orders
    /\ r.event # None => /\ r.at \in {"store event", "store failed", "schedule", "lock sub",
                                      "activate", "write order", "mark"}
                         /\ pr[r.order] # None
    /\ r.at = "store event" => r.event # None
    /\ r.at \in {"store failed", "schedule"} =>
           /\ r.event = "payment.failed" /\ r.sub \in SubRows
           /\ r.was # None => ro[r.order] # None
    /\ r.at = "fetch" => r.event = None /\ ro[r.order] # None
    /\ r.at \in {"lock sub", "activate", "write order", "mark"} =>
           /\ r.got \in Statuses
           /\ r.event # None => /\ r.event \in Paying /\ r.got = "paid"
                                /\ r.was = "paid" <=> r.at = "mark"
           /\ r.event = None => ro[r.order] # None
           /\ r.at # "mark" => r.got = "paid"
    /\ r.at \in {"store org", "store sub"} => r.sub \in SubRows /\ r.got \in Tasks

Knows == \A c \in Calls : Sound(call[c], prov, order)

\* A session r that has read an order or the subscription under its lock still
\* has the values of the rows: ro of the orders, rs of the subscription, ri the
\* number of invoices.
StoresPayment(r) == r.event \in Paying /\ r.at \in {"lock sub", "activate", "write order", "mark"}

Fresh(r, ro, rs, ri) ==
    /\ StoresPayment(r) => ro[r.order] = r.was
    /\ r.at \in {"activate", "write order"} => r.sub = rs /\ (r.invoiced <=> ri[r.order] > 0)

Locked == \A c \in Calls : Fresh(call[c], order, sub, invoices)

\* No two sessions have the same row.
HasOrder(r) == r.was # None /\ (StoresPayment(r) \/ (r.at = "schedule" /\ r.was # "failed"))

Apart ==
    \A c, d \in Calls :
        c # d => /\ ~(/\ call[c].at \in {"activate", "write order"}
                      /\ call[d].at \in {"activate", "write order"})
                 /\ HasOrder(call[c]) /\ HasOrder(call[d]) => call[c].order # call[d].order

\* The provider has every order that has a row or an event.
Known ==
    /\ \A e \in out : prov[e.order] # None
    /\ \A o \in Orders : order[o] # None => prov[o] # None

BillInv == BillTypeOK /\ Knows /\ Locked /\ Apart /\ Known /\ InvoicedOnce /\ OneOrderPerKey

-----------------------------------------------------------------------------
(* Types of the rows that are written.                                     *)

LEMMA WrittenType ==
    ASSUME NEW row \in SubRows, NEW old \in SubRows, NEW new \in SubRows
    PROVE  Written(row, old, new) \in SubRows
  BY DEF Written, SubRows

LEMMA ScheduledType ==
    ASSUME NEW s \in SubRows, now \in Nat
    PROVE  Scheduled(s) \in SubRows
  <1>1. now + Grace \in Days
    BY BillingAssumption DEF Days
  <1> QED BY <1>1 DEF Scheduled, SubRows

LEMMA ActivatedType ==
    ASSUME NEW s \in SubRows, now \in Nat
    PROVE  Activated(s) \in SubRows
  <1>1. now + Period \in Days /\ None \in Days
    BY BillingAssumption DEF Days
  <1> QED BY <1>1 DEF Activated, SubRows

LEMMA MaintainedType ==
    ASSUME NEW s \in SubRows, NEW what \in Tasks, now \in Nat
    PROVE  Maintained(s, what) \in SubRows
  <1> DEFINE st == get_effective_subscription_status(s)
  <1>1. st \in {"trialing", "active", "past_due", "suspended"}
    BY DEF get_effective_subscription_status, SubRows
  <1>2. Normalized(s) \in SubRows
    <2> DEFINE g == IF st = "past_due" /\ s.end # None /\ s.end <= now /\ s.grace = None
                    THEN s.end + Grace ELSE s.grace
    <2>1. g \in Days
      <3>1. s.end \in Days /\ s.grace \in Days
        BY DEF SubRows
      <3> QED BY <3>1, BillingAssumption DEF Days
    <2>2. Normalized(s) = [s EXCEPT !.status = st, !.grace = g]
      BY DEF Normalized, SubRows
    <2> HIDE DEF st, g
    <2> QED BY <1>1, <2>1, <2>2 DEF SubRows
  <1>3. Downgraded(s) \in SubRows
    <2>1. s.pending # None => s.pending = FreePlan
      BY DEF SubRows
    <2>2. None \in Days
      BY DEF Days
    <2> QED BY <2>1, <2>2 DEF Downgraded, SubRows
  <1>4. Lapsed(s) \in SubRows
    BY DEF Lapsed, SubRows
  <1> QED BY <1>2, <1>3, <1>4 DEF Maintained, Tasks

-----------------------------------------------------------------------------
(* Every step keeps the invariant.                                         *)

\* One session moves, to a row that no other has.
LEMMA StaysApart ==
    ASSUME Apart, NEW c \in Calls, \A d \in Calls \ {c} : call'[d] = call[d],
           call'[c].at \in {"activate", "write order"} =>
               \A d \in Calls \ {c} : call[d].at \notin {"activate", "write order"},
           HasOrder(call'[c]) =>
               \A d \in Calls \ {c} : HasOrder(call[d]) => call[d].order # call'[c].order
    PROVE  Apart'
  <1> SUFFICES ASSUME NEW d \in Calls, NEW e \in Calls, d # e
               PROVE  /\ ~(/\ call'[d].at \in {"activate", "write order"}
                           /\ call'[e].at \in {"activate", "write order"})
                      /\ HasOrder(call'[d]) /\ HasOrder(call'[e])
                             => call'[d].order # call'[e].order
    BY DEF Apart, HasOrder, StoresPayment
  <1>1. CASE d = c
    <2>1. call'[e] = call[e] /\ e \in Calls \ {c}
      BY <1>1
    <2> QED BY <1>1, <2>1
  <1>2. CASE e = c
    <2>1. call'[d] = call[d] /\ d \in Calls \ {c}
      BY <1>2
    <2> QED BY <1>2, <2>1
  <1>3. CASE d # c /\ e # c
    BY <1>3 DEF Apart
  <1> QED BY <1>1, <1>2, <1>3

\* A session that ends without a commit.
LEMMA EndKeeps ==
    ASSUME BillInv, NEW c \in Calls, End(c),
           UNCHANGED <<now, addons, external, tables>>
    PROVE  BillInv'
  <1> USE BillingAssumption DEF external, tables
  <1>1. /\ call'[c] = Idle
        /\ \A d \in Calls \ {c} : call'[d] = call[d]
    BY DEF BillInv, BillTypeOK, End, Continue
  <1>2. BillTypeOK'
    BY DEF BillInv, BillTypeOK, End, Continue, Idle, Sessions, Days
  <1>3. Knows'
    <2>1. Sound(Idle, prov, order)
      BY DEF Sound, Idle
    <2> QED BY <1>1, <2>1 DEF BillInv, Knows
  <1>4. Locked'
    <2>1. Fresh(Idle, order, sub, invoices)
      BY DEF Fresh, Idle, StoresPayment
    <2> QED BY <1>1, <2>1 DEF BillInv, Locked
  <1>5. Apart'
    <2>1. call'[c].at = "idle" /\ ~HasOrder(call'[c])
      BY <1>1 DEF HasOrder, StoresPayment, Idle
    <2> QED BY <1>1, <2>1, StaysApart DEF BillInv
  <1>6. Known' /\ InvoicedOnce' /\ OneOrderPerKey'
    BY DEF BillInv, Known, InvoicedOnce, OneOrderPerKey
  <1> QED BY <1>2, <1>3, <1>4, <1>5, <1>6 DEF BillInv

LEMMA PayKeeps ==
    ASSUME BillInv, NEW o \in Orders, Pay(o) \/ PayFails(o)
    PROVE  BillInv'
  <1> USE BillingAssumption DEF tables
  <1>1. /\ prov' \in [Orders -> {"created", "attempted", "paid", None}]
        /\ prov'[o] # None
        /\ \A p \in Orders \ {o} : prov'[p] = prov[p]
        /\ UNCHANGED <<now, addons, tables, call>>
    BY DEF BillInv, BillTypeOK, Pay, PayFails, Statuses
  <1>2. \A e \in out' : e \in Events /\ (e \in out \/ e.order = o)
    BY DEF BillInv, BillTypeOK, Pay, PayFails, Events, Event, Paying
  <1>3. BillTypeOK'
    BY <1>1, <1>2 DEF BillInv, BillTypeOK
  <1>4. Knows'
    <2> SUFFICES ASSUME NEW c \in Calls PROVE Sound(call[c], prov', order)
      BY <1>1 DEF Knows
    <2>1. /\ Sound(call[c], prov, order)
          /\ \A p \in Orders : prov[p] # None => prov'[p] # None
          /\ call[c].order \in Orders \/ call[c].event = None
      BY <1>1 DEF BillInv, Knows, Sound
    <2> QED BY <2>1 DEF Sound
  <1>5. Locked' /\ Apart'
    BY <1>1 DEF BillInv, Locked, Apart
  <1>6. Known'
    BY <1>1, <1>2 DEF BillInv, BillTypeOK, Known, Events
  <1>7. InvoicedOnce' /\ OneOrderPerKey'
    BY <1>1 DEF BillInv, InvoicedOnce, OneOrderPerKey
  <1> QED BY <1>3, <1>4, <1>5, <1>6, <1>7 DEF BillInv

LEMMA TickKeeps ==
    ASSUME BillInv, Tick
    PROVE  BillInv'
  <1> USE DEF Tick, external, tables
  <1>1. BillTypeOK'
    BY DEF BillInv, BillTypeOK
  <1>2. Knows' /\ Locked' /\ Apart'
    BY DEF BillInv, Knows, Locked, Apart
  <1>3. Known' /\ InvoicedOnce' /\ OneOrderPerKey'
    BY DEF BillInv, Known, InvoicedOnce, OneOrderPerKey
  <1> QED BY <1>1, <1>2, <1>3 DEF BillInv

\* A session that takes a step and writes nothing: its new state has to be sound,
\* fresh and apart.
LEMMA MoveKeeps ==
    ASSUME BillInv, NEW c \in Calls, NEW r \in Sessions, Continue(c, r),
           UNCHANGED <<now, addons, external, tables>>,
           Sound(r, prov, order), Fresh(r, order, sub, invoices),
           r.at \in {"activate", "write order"} =>
               \A d \in Calls \ {c} : call[d].at \notin {"activate", "write order"},
           HasOrder(r) => \A d \in Calls \ {c} : HasOrder(call[d]) => call[d].order # r.order
    PROVE  BillInv'
  <1> USE DEF external, tables
  <1>1. /\ call' \in [Calls -> Sessions] /\ call'[c] = r
        /\ \A d \in Calls \ {c} : call'[d] = call[d]
    BY DEF BillInv, BillTypeOK, Continue
  <1>2. BillTypeOK'
    BY <1>1 DEF BillInv, BillTypeOK
  <1>3. Knows' /\ Locked'
    BY <1>1 DEF BillInv, Knows, Locked
  <1>4. Apart'
    BY <1>1, StaysApart DEF BillInv
  <1>5. Known' /\ InvoicedOnce' /\ OneOrderPerKey'
    BY DEF BillInv, Known, InvoicedOnce, OneOrderPerKey
  <1> QED BY <1>2, <1>3, <1>4, <1>5 DEF BillInv

LEMMA CreateOrderKeeps ==
    ASSUME BillInv, NEW c \in Calls, CreateOrder(c)
    PROVE  BillInv'
  <1> USE BillingAssumption DEF external, tables
  <1> DEFINE k == call[c].key
  <1>1. PICK o \in Orders :
            /\ prov[o] = None
            /\ prov' = [prov EXCEPT ![o] = "created"]
            /\ order' = [order EXCEPT ![o] = IF Taken(k) THEN @ ELSE "created"]
            /\ key' = [key EXCEPT ![o] = IF Taken(k) THEN @ ELSE k]
    BY DEF CreateOrder
  <1>2. /\ End(c) /\ UNCHANGED <<now, addons, out, sub, events, invoices>>
        /\ k \in Days /\ order[o] = None
        /\ call'[c] = Idle
        /\ \A d \in Calls \ {c} : call'[d] = call[d]
    <2>1. End(c) /\ UNCHANGED <<now, addons, out, sub, events, invoices>>
      BY DEF CreateOrder
    <2>2. call \in [Calls -> Sessions]
      BY DEF BillInv, BillTypeOK
    <2>3. k \in Days
      BY <2>2 DEF Sessions
    <2>4. order[o] = None
      BY <1>1 DEF BillInv, Known
    <2> QED BY <2>1, <2>2, <2>3, <2>4 DEF End, Continue
  <1> HIDE DEF k
  <1>3. /\ prov'[o] # None
        /\ \A p \in Orders \ {o} : prov'[p] = prov[p] /\ order'[p] = order[p] /\ key'[p] = key[p]
        /\ \A p \in Orders : order[p] # None => order'[p] = order[p]
    <2>1. /\ prov \in [Orders -> {"created", "attempted", "paid", None}]
          /\ order \in [Orders -> Statuses \cup {None}] /\ key \in [Orders -> Days]
      BY DEF BillInv, BillTypeOK
    <2>2. prov'[o] = "created" /\ "created" # None
      BY <1>1, <2>1 DEF Statuses
    <2> QED BY <1>1, <1>2, <2>1, <2>2
  <1>4. BillTypeOK'
    <2>1. call' \in [Calls -> Sessions]
      BY <1>2 DEF BillInv, BillTypeOK, End, Continue, Idle, Sessions, Days
    <2>2. prov' \in [Orders -> {"created", "attempted", "paid", None}]
      BY <1>1 DEF BillInv, BillTypeOK
    <2>3. order' \in [Orders -> Statuses \cup {None}] /\ key' \in [Orders -> Days]
      BY <1>1, <1>2 DEF BillInv, BillTypeOK, Statuses
    <2> QED BY <1>2, <2>1, <2>2, <2>3 DEF BillInv, BillTypeOK
  <1>5. Knows'
    <2>1. Sound(Idle, prov', order')
      BY DEF Sound, Idle
    <2> SUFFICES ASSUME NEW d \in Calls \ {c} PROVE Sound(call[d], prov', order')
      BY <1>2, <2>1 DEF Knows
    <2>2. Sound(call[d], prov, order)
      BY DEF BillInv, Knows
    <2>3. \A p \in Orders : prov[p] # None => prov'[p] # None
      BY <1>1, <1>3
    <2> QED BY <1>3, <2>2, <2>3 DEF Sound
  <1>6. Locked'
    <2>1. Fresh(Idle, order', sub', invoices')
      BY DEF Fresh, Idle, StoresPayment
    <2> SUFFICES ASSUME NEW d \in Calls \ {c} PROVE Fresh(call[d], order', sub, invoices)
      BY <1>2, <2>1 DEF Locked
    <2>2. Sound(call[d], prov, order) /\ Fresh(call[d], order, sub, invoices)
      BY DEF BillInv, Knows, Locked
    <2>3. StoresPayment(call[d]) => call[d].order \in Orders /\ call[d].order # o
      BY <1>1, <2>2 DEF Sound, StoresPayment, Paying
    <2> QED BY <1>3, <2>2, <2>3 DEF Fresh
  <1>7. Apart'
    <2>1. call'[c].at = "idle" /\ ~HasOrder(call'[c])
      BY <1>2 DEF HasOrder, StoresPayment, Idle
    <2> QED BY <1>2, <2>1, StaysApart DEF BillInv
  <1>8. Known'
    BY <1>1, <1>2, <1>3 DEF BillInv, BillTypeOK, Known, Events
  <1>9. InvoicedOnce'
    BY <1>2 DEF BillInv, InvoicedOnce
  <1>10. OneOrderPerKey'
    <2>1. CASE Taken(k)
      <3>1. order' = order /\ key' = key
        BY <1>1, <2>1 DEF BillInv, BillTypeOK
      <3> QED BY <3>1 DEF BillInv, OneOrderPerKey
    <2>2. CASE ~Taken(k)
      <3>1. key'[o] = k /\ (k # None => \A p \in Orders : order[p] # None => key[p] # k)
        BY <1>1, <2>2 DEF BillInv, BillTypeOK, Taken
      <3> QED BY <1>3, <3>1 DEF BillInv, OneOrderPerKey
    <2> QED BY <2>1, <2>2
  <1> QED BY <1>4, <1>5, <1>6, <1>7, <1>8, <1>9, <1>10 DEF BillInv

\* A session that begins, with no lock.
LEMMA OpenKeeps ==
    ASSUME BillInv, NEW c \in Calls,
           \/ LookUpKey(c)
           \/ \E e \in Events : ReceiveEvent(c, e)
           \/ \E o \in Orders : SyncLoad(c, o)
           \/ \E what \in Tasks : LoadSub(c, what)
    PROVE  BillInv'
  <1> USE BillingAssumption
  <1>1. Idle \in Sessions
    BY DEF Idle, Sessions, Days
  <1>2. CASE LookUpKey(c)
    <2>1. PICK k \in Days : Continue(c, [Idle EXCEPT !.at = "create", !.key = k])
      BY <1>2 DEF LookUpKey, BillInv, BillTypeOK, Days
    <2> DEFINE r == [Idle EXCEPT !.at = "create", !.key = k]
    <2>2. r \in Sessions /\ r.at = "create" /\ r.event = None
      BY <1>1 DEF Idle, Sessions
    <2>3. Sound(r, prov, order) /\ Fresh(r, order, sub, invoices) /\ ~HasOrder(r)
      BY <2>2 DEF Sound, Fresh, HasOrder, StoresPayment
    <2>4. UNCHANGED <<now, addons, external, tables>>
      BY <1>2 DEF LookUpKey
    <2> HIDE DEF r
    <2> QED BY <2>1, <2>2, <2>3, <2>4, MoveKeeps DEF r
  <1>3. ASSUME NEW e \in Events, ReceiveEvent(c, e) PROVE BillInv'
    <2> DEFINE r == [Idle EXCEPT !.at = "store event", !.event = e.type, !.order = e.order]
    <2>1. e.order \in Orders /\ e.type \in Paying \cup {"payment.failed"} /\ prov[e.order] # None
      BY <1>3 DEF ReceiveEvent, BillInv, Known, Events
    <2>2. /\ r \in Sessions /\ r.at = "store event"
          /\ r.event = e.type /\ r.order = e.order
      BY <1>1, <2>1 DEF Idle, Sessions
    <2>3. Sound(r, prov, order) /\ Fresh(r, order, sub, invoices) /\ ~HasOrder(r)
      BY <2>1, <2>2 DEF Sound, Fresh, HasOrder, StoresPayment
    <2>4. Continue(c, r) /\ UNCHANGED <<now, addons, external, tables>>
      BY <1>3 DEF ReceiveEvent
    <2> HIDE DEF r
    <2> QED BY <2>2, <2>3, <2>4, MoveKeeps
  <1>4. ASSUME NEW o \in Orders, SyncLoad(c, o) PROVE BillInv'
    <2> DEFINE r == [Idle EXCEPT !.at = "fetch", !.order = o, !.was = order[o]]
    <2>1. order[o] \in Statuses \cup {None} /\ order[o] # None
      BY <1>4 DEF SyncLoad, BillInv, BillTypeOK
    <2>2. r \in Sessions /\ r.at = "fetch" /\ r.event = None /\ r.order = o
      BY <1>1, <2>1 DEF Idle, Sessions
    <2>3. Sound(r, prov, order) /\ Fresh(r, order, sub, invoices) /\ ~HasOrder(r)
      BY <2>1, <2>2 DEF Sound, Fresh, HasOrder, StoresPayment, Paying
    <2>4. Continue(c, r) /\ UNCHANGED <<now, addons, external, tables>>
      BY <1>4 DEF SyncLoad
    <2> HIDE DEF r
    <2> QED BY <2>2, <2>3, <2>4, MoveKeeps
  <1>5. ASSUME NEW what \in Tasks, LoadSub(c, what) PROVE BillInv'
    <2> DEFINE r == [Idle EXCEPT !.at = IF what = "downgrade" THEN "store org" ELSE "store sub",
                                 !.sub = sub, !.got = what]
    <2>1. sub \in SubRows
      BY DEF BillInv, BillTypeOK
    <2>2. /\ r \in Sessions /\ r.at \in {"store org", "store sub"} /\ r.event = None
          /\ r.sub = sub /\ r.got = what
      BY <1>1, <2>1 DEF Idle, Sessions
    <2>3. Sound(r, prov, order) /\ Fresh(r, order, sub, invoices) /\ ~HasOrder(r)
      BY <2>1, <2>2 DEF Sound, Fresh, HasOrder, StoresPayment, Paying
    <2>4. Continue(c, r) /\ UNCHANGED <<now, addons, external, tables>>
      BY <1>5 DEF LoadSub
    <2> HIDE DEF r
    <2> QED BY <2>2, <2>3, <2>4, MoveKeeps
  <1> QED BY <1>2, <1>3, <1>4, <1>5

LEMMA SyncFetchKeeps ==
    ASSUME BillInv, NEW c \in Calls, SyncFetch(c)
    PROVE  BillInv'
  <1> DEFINE got == prov[call[c].order]
             r == [call[c] EXCEPT !.got = got, !.at = IF got = "paid" THEN "lock sub" ELSE "mark"]
  <1> USE BillingAssumption
  <1>1. UNCHANGED <<now, addons, external, tables>>
    BY DEF SyncFetch, BillInv, BillTypeOK
  <1>2. CASE End(c)
    BY <1>1, <1>2, EndKeeps
  <1>3. CASE ~End(c)
    <2>1. call[c] \in Sessions /\ call[c].at = "fetch" /\ Sound(call[c], prov, order)
      BY DEF SyncFetch, At, BillInv, BillTypeOK, Knows
    <2>2. call[c].order \in Orders /\ call[c].event = None /\ order[call[c].order] # None
      BY <2>1 DEF Sound
    <2>3. got \in Statuses
      BY <2>2 DEF BillInv, BillTypeOK, Known, Statuses
    <2>4. /\ r \in Sessions /\ r.event = None /\ r.order = call[c].order /\ r.got = got
          /\ r.at \in {"lock sub", "mark"} /\ (r.at = "lock sub" => got = "paid")
      BY <2>1, <2>2, <2>3 DEF Sessions
    <2>5. Sound(r, prov, order) /\ Fresh(r, order, sub, invoices) /\ ~HasOrder(r)
      BY <2>2, <2>3, <2>4 DEF Sound, Fresh, HasOrder, StoresPayment, Paying
    <2>6. Continue(c, r) /\ r.at \notin {"activate", "write order"}
      BY <1>3, <2>4 DEF SyncFetch, PAID_ORDER_STATUSES
    <2> HIDE DEF r
    <2> QED BY <1>1, <2>4, <2>5, <2>6, MoveKeeps
  <1> QED BY <1>2, <1>3

\* The subscription is read as it is locked.
LEMMA LockSubKeeps ==
    ASSUME BillInv, NEW c \in Calls, LockSub(c)
    PROVE  BillInv'
  <1> DEFINE r == [call[c] EXCEPT !.at = "activate", !.sub = sub,
                                  !.invoiced = invoices[call[c].order] > 0]
  <1> USE BillingAssumption
  <1>1. Continue(c, r) /\ UNCHANGED <<now, addons, external, tables>>
    BY DEF LockSub
  <1>2. /\ call[c].at = "lock sub" /\ call[c] \in Sessions
        /\ Sound(call[c], prov, order) /\ Fresh(call[c], order, sub, invoices)
        /\ sub \in SubRows
        /\ \A d \in Calls \ {c} : call[d].at \notin {"activate", "write order"}
    BY DEF LockSub, At, BillInv, BillTypeOK, Knows, Locked, SubFree, LocksSub
  <1>3. /\ r \in Sessions /\ r.at = "activate" /\ r.event = call[c].event
        /\ r.order = call[c].order /\ r.was = call[c].was /\ r.got = call[c].got
        /\ r.sub = sub /\ (r.invoiced <=> invoices[r.order] > 0)
    <2>1. (invoices[call[c].order] > 0) \in BOOLEAN
      OBVIOUS
    <2> HIDE DEF SubRows
    <2> QED BY <1>2, <2>1 DEF Sessions
  <1> HIDE DEF r
  <1>4. Sound(r, prov, order)
    BY <1>2, <1>3 DEF Sound
  <1>5. Fresh(r, order, sub, invoices) /\ (HasOrder(r) => HasOrder(call[c]))
    BY <1>2, <1>3 DEF Fresh, HasOrder, StoresPayment
  <1>6. HasOrder(r) => \A d \in Calls \ {c} : HasOrder(call[d]) => call[d].order # r.order
    BY <1>3, <1>5 DEF BillInv, Apart
  <1> QED BY <1>1, <1>2, <1>3, <1>4, <1>5, <1>6, MoveKeeps

\* A session that has written a row and goes on to the next one: it is another
\* step of the same session.
WritesRow(c) == MarkFailed(c) \/ WriteOrg(c) \/ StoreOrg(c)

GoesOn(r, s) ==
    /\ \/ r.at = "store failed" /\ s.at = "schedule"
       \/ r.at = "activate" /\ s.at = "write order"
       \/ r.at = "store org" /\ s.at = "store sub"
    /\ s.event = r.event /\ s.order = r.order /\ s.was = r.was /\ s.got = r.got
    /\ s.sub = r.sub /\ s.invoiced = r.invoiced

LEMMA NextRow ==
    ASSUME BillInv, NEW c \in Calls, WritesRow(c)
    PROVE  /\ UNCHANGED <<now, addons, external, tables>>
           /\ \E s \in Sessions : Continue(c, s) /\ GoesOn(call[c], s)
  <1>1. UNCHANGED <<now, addons, external, tables>>
    BY DEF WritesRow, MarkFailed, WriteOrg, StoreOrg
  <1>2. call[c] \in Sessions
    BY DEF BillInv, BillTypeOK
  <1>3. ASSUME NEW next \in {"schedule", "write order", "store sub"},
               Continue(c, [call[c] EXCEPT !.at = next]),
               \/ call[c].at = "store failed" /\ next = "schedule"
               \/ call[c].at = "activate" /\ next = "write order"
               \/ call[c].at = "store org" /\ next = "store sub"
        PROVE  \E s \in Sessions : Continue(c, s) /\ GoesOn(call[c], s)
    <2> DEFINE s == [call[c] EXCEPT !.at = next]
    <2>1. s \in Sessions /\ s.at = next
      BY <1>2 DEF Sessions
    <2>2. GoesOn(call[c], s)
      BY <1>2, <1>3, <2>1 DEF GoesOn, Sessions
    <2> QED BY <1>3, <2>1, <2>2
  <1> QED BY <1>1, <1>3 DEF WritesRow, MarkFailed, WriteOrg, StoreOrg, At

\* A failure has its order when it has changed the row.
LEMMA WritesRowKeeps ==
    ASSUME BillInv, NEW c \in Calls, WritesRow(c)
    PROVE  BillInv'
  <1> USE BillingAssumption
  <1>1. PICK r \in Sessions : Continue(c, r) /\ GoesOn(call[c], r)
    BY NextRow
  <1>2. UNCHANGED <<now, addons, external, tables>>
    BY NextRow
  <1>3. Sound(call[c], prov, order) /\ Fresh(call[c], order, sub, invoices)
    BY DEF BillInv, Knows, Locked
  <1>4. Sound(r, prov, order) /\ Fresh(r, order, sub, invoices)
    <2>1. Sound(r, prov, order)
      BY <1>1, <1>3 DEF Sound, GoesOn
    <2>2. Fresh(r, order, sub, invoices)
      BY <1>1, <1>3 DEF Fresh, StoresPayment, GoesOn
    <2> QED BY <2>1, <2>2
  <1>5. r.at \in {"activate", "write order"} =>
            \A d \in Calls \ {c} : call[d].at \notin {"activate", "write order"}
    BY <1>1 DEF GoesOn, BillInv, Apart
  <1>6. HasOrder(r) => \A d \in Calls \ {c} : HasOrder(call[d]) => call[d].order # r.order
    <2>1. CASE r.at = "schedule"
      <3>1. Failing(c) => OrderFree(c, call[c].order)
        BY <1>1, <2>1 DEF GoesOn, WritesRow, MarkFailed, WriteOrg, StoreOrg, At
      <3>2. HasOrder(r) => Failing(c)
        BY <1>1, <2>1 DEF GoesOn, HasOrder, StoresPayment, Failing
      <3>3. OrderFree(c, call[c].order) =>
                \A d \in Calls \ {c} : HasOrder(call[d]) => call[d].order # r.order
        BY <1>1 DEF GoesOn, OrderFree, LocksOrder, HasOrder, StoresPayment, At
      <3> QED BY <3>1, <3>2, <3>3
    <2>2. CASE r.at # "schedule"
      <3>1. HasOrder(r) => HasOrder(call[c])
        BY <1>1, <2>2 DEF GoesOn, HasOrder, StoresPayment
      <3> QED BY <1>1, <3>1 DEF GoesOn, BillInv, Apart
    <2> QED BY <2>1, <2>2
  <1> QED BY <1>1, <1>2, <1>4, <1>5, <1>6, MoveKeeps

\* A payment reads its order as it is locked, a failure reads without a lock.
LEMMA StoreEventKeeps ==
    ASSUME BillInv, NEW c \in Calls, StoreEvent(c)
    PROVE  BillInv'
  <1> DEFINE o == call[c].order
  <1> USE BillingAssumption
  <1>1. UNCHANGED <<now, addons, external, tables>>
    BY DEF StoreEvent, BillInv, BillTypeOK
  <1>2. call[c] \in Sessions /\ call[c].at = "store event" /\ Sound(call[c], prov, order)
    BY DEF StoreEvent, At, BillInv, BillTypeOK, Knows
  <1>3. /\ o \in Orders /\ call[c].event # None /\ prov[o] # None
        /\ order[o] \in Statuses \cup {None} /\ sub \in SubRows
    BY <1>2 DEF Sound, BillInv, BillTypeOK
  <1>4. CASE End(c)
    BY <1>1, <1>4, EndKeeps
  <1>5. CASE ~End(c) /\ call[c].event \in Paying
    <2> DEFINE r == [call[c] EXCEPT !.was = order[o], !.got = "paid",
                                    !.at = IF order[o] = "paid" THEN "mark" ELSE "lock sub"]
    <2>1. OrderFree(c, o) /\ Continue(c, r)
      BY <1>5 DEF StoreEvent, CallEvent, Event, PAID_ORDER_STATUSES
    <2>2. /\ r \in Sessions /\ r.at \in {"lock sub", "mark"} /\ (r.at = "mark" <=> r.was = "paid")
          /\ r.event = call[c].event /\ r.order = o /\ r.was = order[o] /\ r.got = "paid"
      BY <1>2, <1>3 DEF Sessions, Statuses
    <2> HIDE DEF r
    <2>3. Sound(r, prov, order) /\ Fresh(r, order, sub, invoices) 
      BY <1>3, <1>5, <2>2 DEF Sound, Fresh, Statuses
    <2>4. /\ r.at \notin {"activate", "write order"}
          /\ \A d \in Calls \ {c} : HasOrder(call[d]) => call[d].order # r.order
      BY <2>1, <2>2 DEF OrderFree, LocksOrder, HasOrder, StoresPayment, At
    <2> QED BY <1>1, <2>1, <2>2, <2>3, <2>4, MoveKeeps
  <1>6. CASE ~End(c) /\ call[c].event \notin Paying
    <2> DEFINE r == [call[c] EXCEPT !.at = "store failed", !.was = order[o], !.sub = sub]
    <2>1. Continue(c, r)
      BY <1>6 DEF StoreEvent, CallEvent, Event
    <2>2. /\ r \in Sessions /\ r.at = "store failed" /\ r.event = "payment.failed"
          /\ r.order = o /\ r.was = order[o] /\ r.sub = sub
      BY <1>2, <1>3, <1>6 DEF Sessions
    <2> HIDE DEF r
    <2>3. Sound(r, prov, order) /\ Fresh(r, order, sub, invoices)
          /\ ~HasOrder(r) /\ r.at \notin {"activate", "write order"}
      BY <1>3, <1>6, <2>2 DEF Sound, Fresh, HasOrder, StoresPayment
    <2> QED BY <1>1, <2>1, <2>2, <2>3, MoveKeeps
  <1> QED BY <1>4, <1>5, <1>6

\* A session that ends with a commit: no other session has read, under its lock,
\* what it writes.
LEMMA CommitKeeps ==
    ASSUME BillInv, NEW c \in Calls, End(c),
           UNCHANGED <<now, addons, prov, out, key>>,
           order' \in [Orders -> Statuses \cup {None}],
           \A o \in Orders : order'[o] # None <=> order[o] # None,
           sub' \in SubRows,
           events' \in [Events -> Days],
           invoices' \in [Orders -> Nat],
           \A o \in Orders : invoices'[o] <= 1,
           \A d \in Calls \ {c} : Fresh(call[d], order', sub', invoices')
    PROVE  BillInv'
  <1> USE BillingAssumption
  <1>1. /\ Idle \in Sessions /\ call'[c] = Idle
        /\ call' \in [Calls -> Sessions]
        /\ \A d \in Calls \ {c} : call'[d] = call[d]
    <2>1. Idle \in Sessions
      BY DEF Idle, Sessions, Days
    <2> QED BY <2>1 DEF BillInv, BillTypeOK, End, Continue
  <1>2. BillTypeOK'
    BY <1>1 DEF BillInv, BillTypeOK
  <1>3. Knows'
    <2>1. Sound(Idle, prov', order')
      BY DEF Sound, Idle
    <2> SUFFICES ASSUME NEW d \in Calls \ {c} PROVE Sound(call[d], prov, order')
      BY <1>1, <2>1 DEF Knows
    <2>2. Sound(call[d], prov, order)
      BY DEF BillInv, Knows
    <2> QED BY <2>2 DEF Sound
  <1>4. Locked'
    <2>1. Fresh(Idle, order', sub', invoices')
      BY DEF Fresh, Idle, StoresPayment
    <2> QED BY <1>1, <2>1 DEF Locked
  <1>5. Apart'
    <2>1. call'[c].at = "idle" /\ ~HasOrder(call'[c])
      BY <1>1 DEF HasOrder, StoresPayment, Idle
    <2> QED BY <1>1, <2>1, StaysApart DEF BillInv
  <1>6. Known' /\ InvoicedOnce' /\ OneOrderPerKey'
    BY DEF BillInv, Known, InvoicedOnce, OneOrderPerKey
  <1> QED BY <1>2, <1>3, <1>4, <1>5, <1>6 DEF BillInv

\* A payment of another session has the order only if the order has no row.
LEMMA OthersHaveNoRow ==
    ASSUME BillInv, NEW c \in Calls, NEW o \in Orders, OrderFree(c, o),
           NEW d \in Calls \ {c}, StoresPayment(call[d]), call[d].order = o
    PROVE  call[d].was = None /\ order[o] = None
  <1>1. call[d].was = None
    BY DEF OrderFree, LocksOrder, StoresPayment, At
  <1>2. order[o] = call[d].was
    BY DEF BillInv, Locked, Fresh
  <1> QED BY <1>1, <1>2

LEMMA CommitFailedKeeps ==
    ASSUME BillInv, NEW c \in Calls, CommitFailed(c)
    PROVE  BillInv'
  <1> USE BillingAssumption
  <1> DEFINE o == call[c].order
  <1>1. /\ call[c].at = "schedule" /\ Sound(call[c], prov, order)
        /\ SubFree(c) /\ End(c)
        /\ UNCHANGED <<now, addons, prov, out, key, invoices>>
    BY DEF CommitFailed, At, BillInv, Knows, external
  <1>2. o \in Orders /\ call[c].sub \in SubRows /\ (call[c].was # None => order[o] # None)
    BY <1>1 DEF Sound
  <1>3. /\ order' \in [Orders -> Statuses \cup {None}]
        /\ \A p \in Orders : order'[p] # None <=> order[p] # None
        /\ \A p \in Orders \ {o} : order'[p] = order[p]
        /\ ~Failing(c) => order'[o] = order[o]
    <2>1. order' = [order EXCEPT ![o] = IF Failing(c) THEN "failed" ELSE @]
      BY DEF CommitFailed
    <2>2. Failing(c) => order[o] # None
      BY <1>2 DEF Failing
    <2> QED BY <1>2, <2>1, <2>2 DEF BillInv, BillTypeOK, Statuses
  <1>4. sub' \in SubRows
    <2>1. sub \in SubRows /\ now \in Nat
      BY DEF BillInv, BillTypeOK
    <2>2. Scheduled(call[c].sub) \in SubRows
      BY <1>2, <2>1, ScheduledType
    <2> QED BY <1>2, <2>1, <2>2, WrittenType DEF CommitFailed
  <1>5. events' \in [Events -> Days] /\ invoices' \in [Orders -> Nat]
        /\ \A p \in Orders : invoices'[p] <= 1
    BY <1>1 DEF CommitFailed, BillInv, BillTypeOK, InvoicedOnce, Days
  <1>6. ASSUME NEW d \in Calls \ {c} PROVE Fresh(call[d], order', sub', invoices')
    <2>1. Fresh(call[d], order, sub, invoices) /\ Sound(call[d], prov, order)
      BY DEF BillInv, Locked, Knows
    <2>2. call[d].at \notin {"activate", "write order"}
      BY <1>1 DEF SubFree, LocksSub
    <2>3. StoresPayment(call[d]) => order'[call[d].order] = call[d].was
      <3>1. StoresPayment(call[d]) => call[d].order \in Orders
        BY <2>1 DEF Sound, StoresPayment
      <3>2. CASE call[d].order = o
        <4>1. Failing(c) => HasOrder(call[c]) /\ order[o] # None
          BY <1>1, <1>2 DEF Failing, HasOrder
        <4>2. Failing(c) => ~HasOrder(call[d])
          BY <3>2, <4>1 DEF BillInv, Apart
        <4>3. StoresPayment(call[d]) => ~Failing(c)
          BY <2>1, <3>2, <4>1, <4>2 DEF Fresh, HasOrder
        <4> QED BY <1>3, <2>1, <3>2, <4>3 DEF Fresh
      <3>3. CASE call[d].order # o
        BY <1>3, <2>1, <3>1, <3>3 DEF Fresh
      <3> QED BY <3>2, <3>3
    <2> QED BY <2>2, <2>3 DEF Fresh
  <1> QED BY <1>1, <1>3, <1>4, <1>5, <1>6, CommitKeeps

LEMMA StoreSubKeeps ==
    ASSUME BillInv, NEW c \in Calls, StoreSub(c)
    PROVE  BillInv'
  <1> USE BillingAssumption
  <1>1. /\ call[c].at = "store sub" /\ Sound(call[c], prov, order) /\ SubFree(c) /\ End(c)
        /\ UNCHANGED <<now, addons, prov, out, key, order, events, invoices>>
    BY DEF StoreSub, At, BillInv, Knows, external
  <1>2. /\ order' \in [Orders -> Statuses \cup {None}]
        /\ \A o \in Orders : order'[o] # None <=> order[o] # None
        /\ events' \in [Events -> Days] /\ invoices' \in [Orders -> Nat]
        /\ \A o \in Orders : invoices'[o] <= 1
    BY <1>1 DEF BillInv, BillTypeOK, InvoicedOnce
  <1>3. sub' \in SubRows
    <2>1. sub \in SubRows /\ now \in Nat /\ call[c].sub \in SubRows /\ call[c].got \in Tasks
      BY <1>1 DEF BillInv, BillTypeOK, Sound
    <2>2. Maintained(call[c].sub, call[c].got) \in SubRows
      BY <2>1, MaintainedType
    <2> QED BY <2>1, <2>2, WrittenType DEF StoreSub
  <1>4. ASSUME NEW d \in Calls \ {c} PROVE Fresh(call[d], order', sub', invoices')
    <2>1. Fresh(call[d], order, sub, invoices) /\ call[d].at \notin {"activate", "write order"}
      BY <1>1 DEF BillInv, Locked, SubFree, LocksSub
    <2> QED BY <1>1, <2>1 DEF Fresh
  <1> QED BY <1>1, <1>2, <1>3, <1>4, CommitKeeps

\* The commit of a payment has the subscription and, when the order has a row, the
\* order: what it read of them is still there.
LEMMA CommitPaymentKeeps ==
    ASSUME BillInv, NEW c \in Calls, Commit(c)
    PROVE  BillInv'
  <1> USE BillingAssumption
  <1> DEFINE o == call[c].order
  <1>1. /\ call[c].at \in {"activate", "write order", "mark"} /\ OrderFree(c, o) /\ End(c)
        /\ Sound(call[c], prov, order) /\ Fresh(call[c], order, sub, invoices)
        /\ UNCHANGED <<now, addons, prov, out, key>>
    BY DEF Commit, MarksOnly, At, BillInv, Knows, Locked, external
  <1>2. o \in Orders /\ call[c].got \in Statuses
    BY <1>1 DEF Sound
  <1>3. /\ order' \in [Orders -> Statuses \cup {None}]
        /\ \A p \in Orders : order'[p] # None <=> order[p] # None
        /\ \A p \in Orders \ {o} : order'[p] = order[p]
    <2>1. order' = [order EXCEPT ![o] = IF @ = None THEN None ELSE call[c].got]
      BY DEF Commit
    <2> QED BY <1>2, <2>1 DEF BillInv, BillTypeOK, Statuses
  <1>4. events' \in [Events -> Days]
    BY DEF Commit, BillInv, BillTypeOK, Days
  <1>5. /\ sub' \in SubRows /\ invoices' \in [Orders -> Nat]
        /\ \A p \in Orders : invoices'[p] <= 1
    <2>1. /\ sub \in SubRows /\ now \in Nat /\ invoices \in [Orders -> Nat]
          /\ \A p \in Orders : invoices[p] <= 1
      BY DEF BillInv, BillTypeOK, InvoicedOnce
    <2>2. CASE UNCHANGED <<sub, invoices>>
      BY <2>1, <2>2
    <2>3. CASE call[c].at = "write order" /\ sub' = Written(sub, call[c].sub, Activated(call[c].sub))
               /\ invoices' = Invoiced(o, call[c].invoiced)
      <3>1. call[c].sub \in SubRows /\ (call[c].invoiced <=> invoices[o] > 0)
        BY <1>1, <2>1, <2>3 DEF Fresh
      <3>2. sub' \in SubRows
        BY <2>1, <2>3, <3>1, WrittenType, ActivatedType
      <3>3. invoices' = [invoices EXCEPT ![o] = IF call[c].invoiced THEN @ ELSE @ + 1]
        BY <2>3 DEF Invoiced
      <3>4. \A p \in Orders : invoices'[p] \in Nat /\ invoices'[p] <= 1
        <4>1. invoices[o] \in Nat /\ invoices[o] <= 1 /\ (~call[c].invoiced => invoices[o] = 0)
          <5>1. ~call[c].invoiced => ~(invoices[o] > 0)
            BY <3>1, Zenon
          <5>2. invoices[o] \in Nat /\ invoices[o] <= 1
            BY <1>2, <2>1
          <5>3. ~(invoices[o] > 0) => invoices[o] = 0
            BY <5>2
          <5> QED BY <5>1, <5>2, <5>3, Zenon
        <4>2. \A p \in Orders : invoices'[p] = IF p = o /\ ~call[c].invoiced
                                               THEN invoices[o] + 1 ELSE invoices[p]
          BY <1>2, <2>1, <3>3
        <4> QED BY <2>1, <4>1, <4>2
      <3>5. invoices' \in [Orders -> Nat]
        BY <1>2, <2>1, <3>3, <3>4
      <3> QED BY <3>2, <3>4, <3>5
    <2> QED BY <2>2, <2>3 DEF Commit, At
  <1>6. ASSUME NEW d \in Calls \ {c} PROVE Fresh(call[d], order', sub', invoices')
    <2>1. Fresh(call[d], order, sub, invoices) /\ Sound(call[d], prov, order)
      BY DEF BillInv, Locked, Knows
    <2>2. StoresPayment(call[d]) => order'[call[d].order] = call[d].was
      <3>1. StoresPayment(call[d]) => call[d].order \in Orders
        BY <2>1 DEF Sound, StoresPayment
      <3>2. CASE call[d].order = o
        <4>1. StoresPayment(call[d]) => call[d].was = None /\ order[o] = None
          BY <1>1, <1>2, <3>2, OthersHaveNoRow
        <4> QED BY <1>2, <1>3, <3>2, <4>1
      <3>3. CASE call[d].order # o
        BY <1>3, <2>1, <3>1, <3>3 DEF Fresh
      <3> QED BY <3>2, <3>3
    <2>3. call[d].at \in {"activate", "write order"} => UNCHANGED <<sub, invoices>>
      BY <1>1 DEF BillInv, Apart, Commit, At
    <2> QED BY <2>1, <2>2, <2>3 DEF Fresh
  <1> QED BY <1>1, <1>3, <1>4, <1>5, <1>6, CommitKeeps

-----------------------------------------------------------------------------
(* The invariant of the specification.                                     *)

LEMMA InitBill == Init => BillInv
  <1> SUFFICES ASSUME Init PROVE BillInv
    OBVIOUS
  <1> USE BillingAssumption DEF Init
  <1>1. BillTypeOK
    <2>1. Idle \in Sessions
      BY DEF Idle, Sessions, Days
    <2>2. sub \in SubRows
      BY DEF SubRows, Days
    <2> QED BY <2>1, <2>2 DEF BillTypeOK, Days
  <1>2. Knows /\ Locked /\ Apart
    <2>1. Sound(Idle, prov, order) /\ Fresh(Idle, order, sub, invoices)
          /\ Idle.at = "idle" /\ ~HasOrder(Idle)
      BY DEF Sound, Fresh, Idle, HasOrder, StoresPayment
    <2> QED BY <2>1 DEF Knows, Locked, Apart
  <1>3. Known /\ InvoicedOnce /\ OneOrderPerKey
    BY DEF Known, InvoicedOnce, OneOrderPerKey
  <1> QED BY <1>1, <1>2, <1>3 DEF BillInv

LEMMA NextBill == BillInv /\ [Next]_vars => BillInv'
  <1> SUFFICES ASSUME BillInv, [Next]_vars PROVE BillInv'
    OBVIOUS
  <1>1. CASE UNCHANGED vars
    <2> USE <1>1 DEF vars, external, tables
    <2>1. BillTypeOK'
      BY DEF BillInv, BillTypeOK
    <2>2. Knows' /\ Locked' /\ Apart'
      BY DEF BillInv, Knows, Locked, Apart
    <2>3. Known' /\ InvoicedOnce' /\ OneOrderPerKey'
      BY DEF BillInv, Known, InvoicedOnce, OneOrderPerKey
    <2> QED BY <2>1, <2>2, <2>3 DEF BillInv
  <1>2. ASSUME NEW o \in Orders, Pay(o) \/ PayFails(o) PROVE BillInv'
    BY <1>2, PayKeeps
  <1>3. CASE Tick
    BY <1>3, TickKeeps
  <1>4. ASSUME NEW c \in Calls,
               \/ LookUpKey(c)
               \/ \E e \in Events : ReceiveEvent(c, e)
               \/ \E o \in Orders : SyncLoad(c, o)
               \/ \E what \in Tasks : LoadSub(c, what)
        PROVE  BillInv'
    BY <1>4, OpenKeeps
  <1>5. ASSUME NEW c \in Calls, Session(c) PROVE BillInv'
    BY <1>5, CreateOrderKeeps, StoreEventKeeps, CommitFailedKeeps, SyncFetchKeeps, LockSubKeeps,
       CommitPaymentKeeps, StoreSubKeeps, WritesRowKeeps DEF Session, WritesRow
  <1>6. ASSUME NEW c \in Calls, Fail(c) PROVE BillInv'
    <2>1. End(c) /\ UNCHANGED <<now, addons, external, tables>>
      BY <1>6 DEF Fail, BillInv, BillTypeOK
    <2> QED BY <2>1, EndKeeps
  <1>7. ASSUME NEW c \in Calls, NEW d \in Calls, BreakDeadlock(c, d) PROVE BillInv'
    <2>1. (End(c) \/ End(d)) /\ UNCHANGED <<now, addons, external, tables>>
      BY <1>7 DEF BreakDeadlock, BillInv, BillTypeOK
    <2> QED BY <2>1, EndKeeps
  <1>8. ASSUME NEW c \in Calls,
               \/ LookUpKey(c)
               \/ \E e \in Events : ReceiveEvent(c, e)
               \/ \E o \in Orders : SyncLoad(c, o)
               \/ \E what \in Tasks : LoadSub(c, what)
               \/ Session(c)
               \/ Fail(c)
               \/ \E d \in Calls : BreakDeadlock(c, d)
        PROVE  BillInv'
    <2>1. CASE \/ LookUpKey(c)
               \/ \E e \in Events : ReceiveEvent(c, e)
               \/ \E o \in Orders : SyncLoad(c, o)
               \/ \E what \in Tasks : LoadSub(c, what)
      BY <2>1, <1>4, Zenon
    <2>2. CASE Session(c) \/ Fail(c)
      BY <2>2, <1>5, <1>6
    <2>3. CASE \E d \in Calls : BreakDeadlock(c, d)
      BY <2>3, <1>7
    <2> QED BY <1>8, <2>1, <2>2, <2>3
  <1> QED BY <1>1, <1>2, <1>3, <1>8 DEF Next

\* The inductive invariant holds in every state.
THEOREM BillingIsInvariant == Spec => []BillInv
  BY InitBill, NextBill, PTL DEF Spec

\* Rows, events and the copies that sessions work on keep their types, for any
\* orders, sessions and lengths of time.
THEOREM BillingIsTyped == Spec => []BillTypeOK
  BY BillingIsInvariant, PTL DEF BillInv

\* No interleaving of webhooks and syncs gives an order two invoices.
THEOREM OrdersAreInvoicedOnce == Spec => []InvoicedOnce
  BY BillingIsInvariant, PTL DEF BillInv

\* No interleaving of checkouts leaves two rows under one key of a day.
THEOREM KeysAreUnique == Spec => []OneOrderPerKey
  BY BillingIsInvariant, PTL DEF BillInv

-----------------------------------------------------------------------------
(* What a step may not do.                                                 *)

LEMMA PaidStep ==
    ASSUME BillInv, NEW c \in Calls, Activates(c), call[c].event # None
    PROVE  order[call[c].order] \notin PAID_ORDER_STATUSES
  <1>1. call[c].at = "write order" /\ Sound(call[c], prov, order) /\ Fresh(call[c], order, sub, invoices)
    BY DEF Activates, At, BillInv, Knows, Locked
  <1>2. call[c].was # "paid" /\ call[c].event \in Paying
    BY <1>1 DEF Sound
  <1> QED BY <1>1, <1>2 DEF Fresh, StoresPayment, PAID_ORDER_STATUSES

\* A webhook never activates an order that the table holds as paid.
THEOREM PaymentsAreActivatedOnce == Spec => PaidIsNotActivatedAgain
  <1>1. BillInv /\ [Next]_vars =>
            [\A c \in Calls : Activates(c) /\ call[c].event # None
                 => order[call[c].order] \notin PAID_ORDER_STATUSES]_vars
    BY PaidStep
  <1> QED BY <1>1, BillingIsInvariant, PTL DEF Spec, PaidIsNotActivatedAgain

\* An event of a payment is stored by the commit of its webhook.
LEMMA StoredByCommit ==
    ASSUME BillInv, [Next]_vars, NEW o \in Orders, NEW type \in Paying,
           events[Event(o, type)] = None, events'[Event(o, type)] # None
    PROVE  \E c \in Calls : Commit(c) /\ call[c].event = type /\ call[c].order = o
  <1> DEFINE e == Event(o, type)
  <1>1. events' # events
    OBVIOUS
  <1>2. e \in Events /\ events \in [Events -> Days]
    BY DEF Event, Events, BillInv, BillTypeOK
  <1>3. PICK c \in Calls : CommitFailed(c) \/ Commit(c)
    <2> USE <1>1 DEF external, tables
    <2>1. ~UNCHANGED vars
      BY DEF vars
    <2>2. ASSUME NEW p \in Orders, Pay(p) \/ PayFails(p) PROVE FALSE
      BY <2>2 DEF Pay, PayFails
    <2>3. CASE Tick
      BY <2>3 DEF Tick
    <2>4. ASSUME NEW c \in Calls,
                 \/ LookUpKey(c)
                 \/ \E f \in Events : ReceiveEvent(c, f)
                 \/ \E p \in Orders : SyncLoad(c, p)
                 \/ \E what \in Tasks : LoadSub(c, what)
          PROVE  FALSE
      BY <2>4 DEF LookUpKey, ReceiveEvent, SyncLoad, LoadSub
    <2>5. ASSUME NEW c \in Calls, Session(c) PROVE CommitFailed(c) \/ Commit(c)
      BY <2>5 DEF Session, CreateOrder, StoreEvent, SyncFetch, LockSub, StoreSub, MarkFailed,
                    WriteOrg, StoreOrg
    <2>6. ASSUME NEW c \in Calls, Fail(c) PROVE FALSE
      BY <2>6 DEF Fail
    <2>7. ASSUME NEW c \in Calls, NEW d \in Calls, BreakDeadlock(c, d) PROVE FALSE
      BY <2>7 DEF BreakDeadlock
    <2>8. ASSUME NEW c \in Calls,
                 \/ LookUpKey(c)
                 \/ \E f \in Events : ReceiveEvent(c, f)
                 \/ \E p \in Orders : SyncLoad(c, p)
                 \/ \E what \in Tasks : LoadSub(c, what)
                 \/ Session(c)
                 \/ Fail(c)
                 \/ \E d \in Calls : BreakDeadlock(c, d)
          PROVE  CommitFailed(c) \/ Commit(c)
      <3>1. CASE \/ LookUpKey(c)
                 \/ \E f \in Events : ReceiveEvent(c, f)
                 \/ \E p \in Orders : SyncLoad(c, p)
                 \/ \E what \in Tasks : LoadSub(c, what)
        BY <3>1, <2>4, Zenon
      <3>2. CASE Session(c) \/ Fail(c)
        BY <3>2, <2>5, <2>6
      <3>3. CASE \E d \in Calls : BreakDeadlock(c, d)
        BY <3>3, <2>7
      <3> QED BY <2>8, <3>1, <3>2, <3>3
    <2> QED BY <2>1, <2>2, <2>3, <2>8 DEF Next
  <1>4. CallEvent(c) = e
    BY <1>2, <1>3 DEF CommitFailed, Commit
  <1>5. call[c].order = o /\ call[c].event = type
    BY <1>4 DEF CallEvent, Event
  <1>6. ~CommitFailed(c)
    BY <1>5 DEF CommitFailed, At, BillInv, Knows, Sound, Paying
  <1> QED BY <1>3, <1>5, <1>6

LEMMA StoredStep ==
    ASSUME BillInv, NEW c \in Calls, Commit(c), call[c].event \in Paying
    PROVE  LET o == call[c].order
           IN  /\ order'[o] \in {None, "paid"}
               /\ invoices'[o] > 0 \/ order[o] \in PAID_ORDER_STATUSES \/ Running(sub)
  <1> DEFINE o == call[c].order
  <1>1. /\ call[c].at \in {"activate", "write order", "mark"}
        /\ Sound(call[c], prov, order) /\ Fresh(call[c], order, sub, invoices)
        /\ order \in [Orders -> Statuses \cup {None}] /\ invoices \in [Orders -> Nat]
    BY DEF Commit, MarksOnly, At, BillInv, BillTypeOK, Knows, Locked
  <1>2. o \in Orders /\ call[c].got = "paid" /\ (call[c].at = "mark" => call[c].was = "paid")
    BY <1>1, BillingAssumption DEF Sound, Paying
  <1>3. order'[o] \in {None, "paid"}
    BY <1>1, <1>2 DEF Commit
  <1>4. CASE call[c].at = "mark"
    BY <1>1, <1>2, <1>3, <1>4 DEF Fresh, StoresPayment, PAID_ORDER_STATUSES
  <1>5. CASE call[c].at = "activate"
    BY <1>1, <1>3, <1>5 DEF Commit, MarksOnly, At, Fresh
  <1>6. CASE call[c].at = "write order"
    <2>1. invoices' = Invoiced(o, call[c].invoiced) /\ (call[c].invoiced <=> invoices[o] > 0)
      BY <1>1, <1>6 DEF Commit, MarksOnly, At, Fresh
    <2>2. CASE call[c].invoiced
      <3>1. invoices' = [invoices EXCEPT ![o] = invoices[o]] /\ invoices[o] > 0
        BY <2>1, <2>2 DEF Invoiced
      <3> QED BY <1>1, <1>2, <1>3, <3>1
    <2>3. CASE ~call[c].invoiced
      <3>1. invoices' = [invoices EXCEPT ![o] = invoices[o] + 1]
        BY <2>1, <2>3 DEF Invoiced
      <3>2. invoices[o] \in Nat /\ invoices'[o] = invoices[o] + 1
        BY <1>1, <1>2, <3>1
      <3>3. invoices'[o] > 0
        BY <3>2
      <3> QED BY <1>3, <3>3
    <2> QED BY <2>2, <2>3
  <1> QED BY <1>1, <1>4, <1>5, <1>6

\* A payment whose event is stored has been applied by then: the provider, which
\* does not send the event again, has nothing left to do.
THEOREM StoredPaymentsAreApplied == Spec => StoredIsApplied
  <1>1. ASSUME BillInv, [Next]_vars, NEW o \in Orders, NEW type \in Paying,
               ~Stored(Event(o, type)), Stored(Event(o, type))'
        PROVE  /\ order'[o] \in {None, "paid"}
               /\ invoices'[o] > 0 \/ order[o] \in PAID_ORDER_STATUSES \/ Running(sub)
    <2>1. events[Event(o, type)] = None /\ events'[Event(o, type)] # None
      BY <1>1 DEF Stored, Event
    <2>2. PICK c \in Calls : Commit(c) /\ call[c].event = type /\ call[c].order = o
      BY <1>1, <2>1, StoredByCommit
    <2> QED BY <1>1, <2>2, StoredStep
  <1>2. BillInv /\ [Next]_vars =>
            [\A o \in Orders, type \in Paying :
                ~Stored(Event(o, type)) /\ Stored(Event(o, type))' =>
                    /\ order'[o] \in {None, "paid"}
                    /\ invoices'[o] > 0 \/ order[o] \in PAID_ORDER_STATUSES \/ Running(sub)]_vars
    BY <1>1
  <1> QED BY <1>2, BillingIsInvariant, PTL DEF Spec, StoredIsApplied

-----------------------------------------------------------------------------
(* A paid plan is lost only after the days of grace.                       *)

\* A failed payment has been stored for the days of grace by day t, as the events
\* ev were stored.
Deferred(t, ev) ==
    \E o \in Orders : /\ ev[Event(o, "payment.failed")] # None
                      /\ ev[Event(o, "payment.failed")] + Grace <= t

\* Whatever the row or a copy of it says is due has been deferred, and an event is
\* stored by one session only, so that its day is never put off or brought forward.
DueIsDeferred ==
    /\ sub.due # None => Deferred(sub.due, events)
    /\ \A c \in Calls : call[c].at \in {"store failed", "schedule", "store org", "store sub"}
           => (call[c].sub.due # None => Deferred(call[c].sub.due, events))

StoredByOne ==
    /\ \A c \in Calls : Storing(c) => ~Stored(CallEvent(c))
    /\ \A c, d \in Calls : c # d /\ Storing(c) /\ Storing(d) => CallEvent(c) # CallEvent(d)

GraceInv == BillInv /\ DueIsDeferred /\ StoredByOne

LEMMA DeferredStays ==
    ASSUME NEW t, Deferred(t, events), NEW ev,
           \A e \in Events : events[e] # None => ev[e] = events[e]
    PROVE  Deferred(t, ev)
  <1>1. \A o \in Orders : Event(o, "payment.failed") \in Events
    BY DEF Event, Events
  <1> QED BY <1>1 DEF Deferred

\* One session moves; no event that was stored changes, nor one that another
\* session stores.
LEMMA GraceStep ==
    ASSUME GraceInv, NEW c \in Calls,
           \A d \in Calls \ {c} : call'[d] = call[d],
           \A e \in Events : events[e] # None => events'[e] = events[e],
           \A d \in Calls \ {c} :
               Storing(d) => events'[CallEvent(d)] = events[CallEvent(d)],
           sub'.due # None => Deferred(sub'.due, events'),
           call'[c].at \in {"store failed", "schedule", "store org", "store sub"} =>
               (call'[c].sub.due # None => Deferred(call'[c].sub.due, events')),
           Storing(c)' => /\ ~Stored(CallEvent(c))'
                          /\ \A d \in Calls \ {c} : Storing(d) => CallEvent(d) # CallEvent(c)'
    PROVE  DueIsDeferred' /\ StoredByOne'
  <1>1. ASSUME NEW d \in Calls, call'[d].at \in {"store failed", "schedule", "store org", "store sub"},
               call'[d].sub.due # None
        PROVE  Deferred(call'[d].sub.due, events')
    <2>1. CASE d # c
      <3>1. call'[d] = call[d] /\ Deferred(call[d].sub.due, events)
        BY <1>1, <2>1 DEF GraceInv, DueIsDeferred
      <3> QED BY <3>1, DeferredStays
    <2> QED BY <1>1, <2>1
  <1>2. DueIsDeferred'
    BY <1>1 DEF DueIsDeferred
  <1>3. ASSUME NEW d \in Calls, Storing(d)' PROVE ~Stored(CallEvent(d))'
    <2>1. CASE d # c
      <3>1. call'[d] = call[d] /\ d \in Calls \ {c}
        BY <2>1
      <3>2. Storing(d) /\ CallEvent(d)' = CallEvent(d)
        BY <1>3, <3>1 DEF Storing, CallEvent
      <3>3. events[CallEvent(d)] = None
        BY <3>2 DEF GraceInv, StoredByOne, Stored
      <3> QED BY <3>1, <3>2, <3>3 DEF Stored
    <2> QED BY <1>3, <2>1
  <1>4. ASSUME NEW d \in Calls, NEW e \in Calls, d # e, Storing(d)', Storing(e)'
        PROVE  CallEvent(d)' # CallEvent(e)'
    <2>1. \A f \in Calls \ {c} : (Storing(f)' <=> Storing(f)) /\ CallEvent(f)' = CallEvent(f)
      BY DEF Storing, CallEvent
    <2>2. CASE d = c
      <3>1. e \in Calls \ {c} /\ Storing(e) /\ CallEvent(e)' = CallEvent(e)
        BY <1>4, <2>1, <2>2
      <3> QED BY <1>4, <2>2, <3>1
    <2>3. CASE e = c
      <3>1. d \in Calls \ {c} /\ Storing(d) /\ CallEvent(d)' = CallEvent(d)
        BY <1>4, <2>1, <2>3
      <3> QED BY <1>4, <2>3, <3>1
    <2>4. CASE d # c /\ e # c
      <3>1. Storing(d) /\ Storing(e) /\ CallEvent(d)' = CallEvent(d) /\ CallEvent(e)' = CallEvent(e)
        BY <1>4, <2>1, <2>4
      <3> QED BY <1>4, <3>1 DEF GraceInv, StoredByOne
    <2> QED BY <2>2, <2>3, <2>4
  <1>5. StoredByOne'
    BY <1>3, <1>4 DEF StoredByOne
  <1> QED BY <1>2, <1>5

\* A session takes a step, to r, and writes neither the subscription nor an event.
LEMMA GraceMove ==
    ASSUME GraceInv, NEW c \in Calls, NEW r, Continue(c, r), UNCHANGED <<sub, events>>,
           r.at \in {"store failed", "schedule", "store org", "store sub"} => r.sub = sub,
           r.event # None /\ r.at # "store event" =>
               /\ ~Stored(Event(r.order, r.event))
               /\ \A d \in Calls \ {c} : Storing(d) => CallEvent(d) # Event(r.order, r.event)
    PROVE  DueIsDeferred' /\ StoredByOne'
  <1>1. call'[c] = r /\ \A d \in Calls \ {c} : call'[d] = call[d]
    BY DEF Continue, GraceInv, BillInv, BillTypeOK
  <1>2. sub.due # None => Deferred(sub.due, events)
    BY DEF GraceInv, DueIsDeferred
  <1>3. Storing(c)' => /\ ~Stored(CallEvent(c))'
                       /\ \A d \in Calls \ {c} : Storing(d) => CallEvent(d) # CallEvent(c)'
    BY <1>1 DEF Storing, CallEvent, Stored, Event
  <1>4. sub'.due # None => Deferred(sub'.due, events')
    BY <1>2
  <1>5. call'[c].at \in {"store failed", "schedule", "store org", "store sub"} =>
            (call'[c].sub.due # None => Deferred(call'[c].sub.due, events'))
    BY <1>1, <1>2
  <1> QED BY <1>1, <1>3, <1>4, <1>5, GraceStep

\* A copy of the row is carried on to the session's next step.
LEMMA GraceWritesRow ==
    ASSUME GraceInv, NEW c \in Calls, WritesRow(c)
    PROVE  DueIsDeferred' /\ StoredByOne'
  <1>1. PICK r \in Sessions : Continue(c, r) /\ GoesOn(call[c], r)
    BY NextRow DEF GraceInv
  <1>2. UNCHANGED <<sub, events>>
    BY NextRow DEF GraceInv, tables
  <1>3. call'[c] = r /\ \A d \in Calls \ {c} : call'[d] = call[d]
    BY <1>1 DEF Continue, GraceInv, BillInv, BillTypeOK
  <1>4. sub'.due # None => Deferred(sub'.due, events')
    BY <1>2 DEF GraceInv, DueIsDeferred
  <1>5. r.at \in {"store failed", "schedule", "store org", "store sub"} =>
            (r.sub.due # None => Deferred(r.sub.due, events'))
    BY <1>1, <1>2 DEF GoesOn, GraceInv, DueIsDeferred
  <1>6. Storing(c)' => /\ ~Stored(CallEvent(c))'
                       /\ \A d \in Calls \ {c} : Storing(d) => CallEvent(d) # CallEvent(c)'
    <2>1. (Storing(c)' <=> Storing(c)) /\ CallEvent(c)' = CallEvent(c)
      BY <1>1, <1>3 DEF GoesOn, Storing, CallEvent
    <2> QED BY <1>2, <2>1 DEF GraceInv, StoredByOne, Stored
  <1> QED BY <1>2, <1>3, <1>4, <1>5, <1>6, GraceStep

LEMMA GraceEnd ==
    ASSUME GraceInv, NEW c \in Calls, End(c), UNCHANGED <<sub, events>>
    PROVE  DueIsDeferred' /\ StoredByOne'
  <1>1. Idle.at \notin {"store failed", "schedule", "store org", "store sub"} /\ Idle.event = None
    BY DEF Idle
  <1>2. Continue(c, Idle)
    BY DEF End
  <1> QED BY <1>1, <1>2, GraceMove

LEMMA GraceOpen ==
    ASSUME GraceInv, NEW c \in Calls,
           \/ LookUpKey(c)
           \/ \E e \in Events : ReceiveEvent(c, e)
           \/ \E o \in Orders : SyncLoad(c, o)
           \/ \E what \in Tasks : LoadSub(c, what)
    PROVE  DueIsDeferred' /\ StoredByOne'
  <1> USE DEF tables, Idle
  <1>1. CASE LookUpKey(c)
    <2>1. PICK k : Continue(c, [Idle EXCEPT !.at = "create", !.key = k])
      BY <1>1 DEF LookUpKey
    <2> QED BY <1>1, <2>1, GraceMove DEF LookUpKey
  <1>2. ASSUME NEW e \in Events, ReceiveEvent(c, e) PROVE DueIsDeferred' /\ StoredByOne'
    BY <1>2, GraceMove DEF ReceiveEvent
  <1>3. ASSUME NEW o \in Orders, SyncLoad(c, o) PROVE DueIsDeferred' /\ StoredByOne'
    BY <1>3, GraceMove DEF SyncLoad
  <1>4. ASSUME NEW what \in Tasks, LoadSub(c, what) PROVE DueIsDeferred' /\ StoredByOne'
    BY <1>4, GraceMove DEF LoadSub
  <1> QED BY <1>1, <1>2, <1>3, <1>4

LEMMA GraceStoreEvent ==
    ASSUME GraceInv, NEW c \in Calls, StoreEvent(c)
    PROVE  DueIsDeferred' /\ StoredByOne'
  <1> DEFINE e == CallEvent(c)
  <1>1. UNCHANGED <<sub, events>> /\ \A d \in Calls : Storing(d) => CallEvent(d) # e
    BY DEF StoreEvent, tables
  <1>2. call[c] \in Sessions /\ e = Event(call[c].order, call[c].event)
    BY DEF GraceInv, BillInv, BillTypeOK, CallEvent
  <1>3. CASE End(c)
    BY <1>1, <1>3, GraceEnd
  <1>4. ASSUME NEW r, Continue(c, r), ~Stored(e), r.event = call[c].event, r.order = call[c].order,
               r.at \in {"store failed", "schedule", "store org", "store sub"} => r.sub = sub
        PROVE  DueIsDeferred' /\ StoredByOne'
    <2>1. /\ ~Stored(Event(r.order, r.event))
          /\ \A d \in Calls \ {c} : Storing(d) => CallEvent(d) # Event(r.order, r.event)
      BY <1>1, <1>2, <1>4
    <2> QED BY <1>1, <1>4, <2>1, GraceMove
  <1>5. CASE ~End(c) /\ call[c].event \in Paying
    <2> DEFINE was == order[call[c].order]
               r == [call[c] EXCEPT !.was = was, !.got = "paid",
                        !.at = IF was \in PAID_ORDER_STATUSES THEN "mark" ELSE "lock sub"]
    <2>1. Continue(c, r) /\ ~Stored(e)
      BY <1>5 DEF StoreEvent, CallEvent, Event
    <2>2. r.event = call[c].event /\ r.order = call[c].order /\ r.at \in {"mark", "lock sub"}
      BY <1>2 DEF Sessions
    <2> HIDE DEF r
    <2> QED BY <2>1, <2>2, <1>4
  <1>6. CASE ~End(c) /\ call[c].event \notin Paying
    <2> DEFINE r == [call[c] EXCEPT !.at = "store failed", !.was = order[call[c].order], !.sub = sub]
    <2>1. Continue(c, r) /\ ~Stored(e)
      BY <1>6 DEF StoreEvent, CallEvent, Event
    <2>2. r.event = call[c].event /\ r.order = call[c].order /\ r.sub = sub
      BY <1>2 DEF Sessions
    <2> HIDE DEF r
    <2> QED BY <2>1, <2>2, <1>4
  <1> QED BY <1>3, <1>5, <1>6

LEMMA GraceSyncFetch ==
    ASSUME GraceInv, NEW c \in Calls, SyncFetch(c)
    PROVE  DueIsDeferred' /\ StoredByOne'
  <1>1. UNCHANGED <<sub, events>> /\ call[c] \in Sessions /\ call[c].event = None
    BY DEF SyncFetch, tables, At, GraceInv, BillInv, BillTypeOK, Knows, Sound
  <1>2. CASE End(c)
    BY <1>1, <1>2, GraceEnd
  <1>3. CASE ~End(c)
    <2> DEFINE got == prov[call[c].order]
               r == [call[c] EXCEPT !.got = got,
                        !.at = IF got \in PAID_ORDER_STATUSES THEN "lock sub" ELSE "mark"]
    <2>1. Continue(c, r)
      BY <1>3 DEF SyncFetch
    <2>2. r.event = None /\ r.at \in {"lock sub", "mark"}
      BY <1>1 DEF Sessions
    <2> HIDE DEF r
    <2> QED BY <1>1, <2>1, <2>2, GraceMove
  <1> QED BY <1>2, <1>3

LEMMA GraceLockSub ==
    ASSUME GraceInv, NEW c \in Calls, LockSub(c)
    PROVE  DueIsDeferred' /\ StoredByOne'
  <1> DEFINE r == [call[c] EXCEPT !.at = "activate", !.sub = sub,
                                  !.invoiced = invoices[call[c].order] > 0]
  <1>1. Continue(c, r) /\ UNCHANGED <<sub, events>> /\ call[c].at = "lock sub" /\ call[c] \in Sessions
    BY DEF LockSub, tables, At, GraceInv, BillInv, BillTypeOK
  <1>2. r.event = call[c].event /\ r.order = call[c].order /\ r.at = "activate"
    BY <1>1 DEF Sessions
  <1>3. r.event # None =>
            /\ ~Stored(Event(r.order, r.event))
            /\ \A d \in Calls \ {c} : Storing(d) => CallEvent(d) # Event(r.order, r.event)
    <2>1. r.event # None => Storing(c)
      BY <1>1, <1>2 DEF Storing
    <2>2. CallEvent(c) = Event(r.order, r.event)
      BY <1>2 DEF CallEvent
    <2> HIDE DEF r
    <2> QED BY <2>1, <2>2 DEF GraceInv, StoredByOne
  <1> HIDE DEF r
  <1> QED BY <1>1, <1>2, <1>3, GraceMove

LEMMA WrittenDue ==
    ASSUME NEW row \in SubRows, NEW old, NEW new
    PROVE  /\ Written(row, old, new).due = IF new.due # old.due THEN new.due ELSE row.due
           /\ Written(row, old, new).plan = IF new.plan # old.plan THEN new.plan ELSE row.plan
  BY DEF Written, SubRows

\* A session ends with a commit that stores its event, if it has one.
LEMMA GraceCommit ==
    ASSUME GraceInv, NEW c \in Calls, End(c),
           \/ UNCHANGED events
           \/ Storing(c) /\ events' = [events EXCEPT ![CallEvent(c)] = now],
           sub'.due # None => sub'.due = sub.due \/ Deferred(sub'.due, events')
    PROVE  DueIsDeferred' /\ StoredByOne'
  <1>1. call'[c] = Idle /\ \A d \in Calls \ {c} : call'[d] = call[d]
    BY DEF End, Continue, GraceInv, BillInv, BillTypeOK
  <1>2. \A e \in Events : events[e] # None => events'[e] = events[e]
    BY DEF GraceInv, BillInv, BillTypeOK, StoredByOne, Stored
  <1>3. \A d \in Calls \ {c} : Storing(d) => events'[CallEvent(d)] = events[CallEvent(d)]
    <2> SUFFICES ASSUME NEW d \in Calls \ {c}, Storing(d)
                 PROVE  events'[CallEvent(d)] = events[CallEvent(d)]
      OBVIOUS
    <2>1. CallEvent(d) \in Events
      BY DEF GraceInv, BillInv, BillTypeOK, Knows, Sound, Storing, CallEvent, Event, Events, Sessions
    <2> QED BY <2>1 DEF GraceInv, StoredByOne, BillInv, BillTypeOK
  <1>4. sub'.due # None => Deferred(sub'.due, events')
    <2>1. sub.due # None => Deferred(sub.due, events')
      BY <1>2, DeferredStays DEF GraceInv, DueIsDeferred
    <2> QED BY <2>1
  <1>5. call'[c].at = "idle" /\ call'[c].event = None
    BY <1>1 DEF Idle
  <1>6. call'[c].at \notin {"store failed", "schedule", "store org", "store sub"} /\ ~Storing(c)'
    BY <1>5 DEF Storing
  <1> QED BY <1>1, <1>2, <1>3, <1>4, <1>6, GraceStep

LEMMA GraceCommitFailed ==
    ASSUME GraceInv, NEW c \in Calls, CommitFailed(c)
    PROVE  DueIsDeferred' /\ StoredByOne'
  <1> DEFINE o == call[c].order
  <1>1. /\ call[c].at = "schedule" /\ Sound(call[c], prov, order) /\ End(c)
        /\ events' = [events EXCEPT ![CallEvent(c)] = now]
        /\ sub' = Written(sub, call[c].sub, Scheduled(call[c].sub))
        /\ events \in [Events -> Days] /\ now \in Nat /\ sub \in SubRows
    BY DEF CommitFailed, At, GraceInv, BillInv, BillTypeOK, Knows
  <1>2. /\ o \in Orders /\ call[c].event = "payment.failed" /\ call[c].sub \in SubRows
        /\ Storing(c) /\ CallEvent(c) = Event(o, "payment.failed")
    BY <1>1, BillingAssumption DEF Sound, Storing, CallEvent
  <1>3. Deferred(now + Grace, events')
    <2>1. Event(o, "payment.failed") \in Events
      BY <1>2 DEF Event, Events
    <2>2. events'[Event(o, "payment.failed")] = now
      BY <1>1, <1>2, <2>1
    <2>3. now # None /\ now + Grace \in Nat
      <3>1. now \in Nat /\ Grace \in Nat /\ None \notin Nat
        BY <1>1, BillingAssumption
      <3> QED BY <3>1
    <2> QED BY <1>2, <2>2, <2>3 DEF Deferred
  <1>4. sub'.due = now + Grace \/ sub'.due = sub.due
    <2>1. Scheduled(call[c].sub).due = now + Grace
      BY <1>2 DEF Scheduled, SubRows
    <2> DEFINE new == Scheduled(call[c].sub)
    <2> HIDE DEF new
    <2>2. Written(sub, call[c].sub, new).due =
              IF new.due # call[c].sub.due THEN new.due ELSE sub.due
      <3>1. sub \in SubRows
        BY <1>1
      <3> QED BY <3>1, WrittenDue
    <2>3. sub' = Written(sub, call[c].sub, new)
      BY <1>1 DEF new
    <2> QED BY <2>1, <2>2, <2>3 DEF new
  <1> QED BY <1>1, <1>2, <1>3, <1>4, GraceCommit

LEMMA GraceCommitPayment ==
    ASSUME GraceInv, NEW c \in Calls, Commit(c)
    PROVE  DueIsDeferred' /\ StoredByOne'
  <1>1. /\ call[c].at \in {"activate", "write order", "mark"} /\ End(c) /\ sub \in SubRows
        /\ Fresh(call[c], order, sub, invoices)
    BY DEF Commit, MarksOnly, At, GraceInv, BillInv, BillTypeOK, Locked
  <1>2. \/ UNCHANGED events
        \/ Storing(c) /\ events' = [events EXCEPT ![CallEvent(c)] = now]
    BY <1>1 DEF Commit, Storing
  <1>3. sub'.due = sub.due \/ sub'.due = None
    <2>1. CASE UNCHANGED sub
      BY <2>1
    <2>2. CASE call[c].at = "write order" /\ sub' = Written(sub, call[c].sub, Activated(call[c].sub))
      <3> DEFINE new == Activated(sub)
      <3>1. call[c].sub = sub /\ new.due = None
        BY <1>1, <2>2 DEF Fresh, Activated, SubRows
      <3>2. sub' = Written(sub, sub, new)
        BY <2>2, <3>1
      <3> HIDE DEF new
      <3>3. sub \in SubRows
        BY <1>1
      <3>4. Written(sub, sub, new).due = IF new.due # sub.due THEN new.due ELSE sub.due
        BY <3>3, WrittenDue
      <3> QED BY <3>1, <3>2, <3>4
    <2> QED BY <2>1, <2>2 DEF Commit, At
  <1> QED BY <1>1, <1>2, <1>3, GraceCommit

LEMMA GraceStoreSub ==
    ASSUME GraceInv, NEW c \in Calls, StoreSub(c)
    PROVE  DueIsDeferred' /\ StoredByOne'
  <1>1. /\ End(c) /\ UNCHANGED events /\ sub \in SubRows
        /\ call[c].sub \in SubRows /\ call[c].got \in Tasks
        /\ sub' = Written(sub, call[c].sub, Maintained(call[c].sub, call[c].got))
    BY DEF StoreSub, At, GraceInv, BillInv, BillTypeOK, Knows, Sound
  <1>2. Maintained(call[c].sub, call[c].got).due \in {call[c].sub.due, None}
    BY <1>1 DEF Maintained, Tasks, Downgraded, Normalized, Lapsed, SubRows
  <1>3. sub'.due = sub.due \/ sub'.due = None
    BY <1>1, <1>2, WrittenDue
  <1> QED BY <1>1, <1>3, GraceCommit

LEMMA NextGrace == GraceInv /\ [Next]_vars => GraceInv'
  <1> SUFFICES ASSUME GraceInv, [Next]_vars PROVE DueIsDeferred' /\ StoredByOne'
    BY NextBill DEF GraceInv
  <1>1. CASE UNCHANGED <<sub, events, call>>
    BY <1>1 DEF GraceInv, DueIsDeferred, StoredByOne, At, Storing, Stored, CallEvent
  <1>2. ASSUME NEW o \in Orders, Pay(o) \/ PayFails(o) PROVE DueIsDeferred' /\ StoredByOne'
    BY <1>1, <1>2 DEF Pay, PayFails, tables
  <1>3. CASE Tick
    BY <1>1, <1>3 DEF Tick, tables
  <1>4. ASSUME NEW c \in Calls,
               \/ LookUpKey(c)
               \/ \E e \in Events : ReceiveEvent(c, e)
               \/ \E o \in Orders : SyncLoad(c, o)
               \/ \E what \in Tasks : LoadSub(c, what)
        PROVE  DueIsDeferred' /\ StoredByOne'
    BY <1>4, GraceOpen
  <1>5. ASSUME NEW c \in Calls, CreateOrder(c) PROVE DueIsDeferred' /\ StoredByOne'
    BY <1>5, GraceEnd DEF CreateOrder
  <1>6. ASSUME NEW c \in Calls, Session(c) PROVE DueIsDeferred' /\ StoredByOne'
    BY <1>5, <1>6, GraceStoreEvent, GraceCommitFailed, GraceSyncFetch, GraceLockSub,
       GraceCommitPayment, GraceStoreSub, GraceWritesRow DEF Session, WritesRow
  <1>7. ASSUME NEW c \in Calls, Fail(c) PROVE DueIsDeferred' /\ StoredByOne'
    BY <1>7, GraceEnd DEF Fail, tables
  <1>8. ASSUME NEW c \in Calls, NEW d \in Calls, BreakDeadlock(c, d)
        PROVE  DueIsDeferred' /\ StoredByOne'
    BY <1>8, GraceEnd DEF BreakDeadlock, tables
  <1>9. ASSUME NEW c \in Calls,
               \/ LookUpKey(c)
               \/ \E e \in Events : ReceiveEvent(c, e)
               \/ \E o \in Orders : SyncLoad(c, o)
               \/ \E what \in Tasks : LoadSub(c, what)
               \/ Session(c)
               \/ Fail(c)
               \/ \E d \in Calls : BreakDeadlock(c, d)
        PROVE  DueIsDeferred' /\ StoredByOne'
    <2>1. CASE \/ LookUpKey(c)
               \/ \E e \in Events : ReceiveEvent(c, e)
               \/ \E o \in Orders : SyncLoad(c, o)
               \/ \E what \in Tasks : LoadSub(c, what)
      BY <2>1, <1>4, Zenon
    <2>2. CASE Session(c) \/ Fail(c)
      BY <2>2, <1>6, <1>7
    <2>3. CASE \E d \in Calls : BreakDeadlock(c, d)
      BY <2>3, <1>8
    <2> QED BY <1>9, <2>1, <2>2, <2>3
  <1>10. CASE UNCHANGED vars
    BY <1>1, <1>10 DEF vars, tables
  <1> QED BY <1>2, <1>3, <1>9, <1>10 DEF Next

LEMMA InitGrace == Init => GraceInv
  <1> SUFFICES ASSUME Init PROVE DueIsDeferred /\ StoredByOne
    BY InitBill DEF GraceInv
  <1> QED BY DEF Init, DueIsDeferred, StoredByOne, At, Storing, Idle

\* The invariant with the days of the stored events holds in every state.
THEOREM GraceIsInvariant == Spec => []GraceInv
  BY InitGrace, NextGrace, PTL DEF Spec

\* Only a due downgrade takes the paid plan away.
LEMMA PlanIsLostByDowngrade ==
    ASSUME GraceInv, [Next]_vars, sub.plan = PaidPlan, sub'.plan = FreePlan
    PROVE  \E c \in Calls : /\ At(c, "store sub") /\ call[c].sub \in SubRows
                            /\ call[c].sub.due # None /\ call[c].sub.due <= now
  <1> USE DEF external, tables, FreePlan, PaidPlan
  <1>1. sub' # sub /\ sub \in SubRows
    BY DEF GraceInv, BillInv, BillTypeOK
  <1>2. ~UNCHANGED vars
    BY <1>1 DEF vars
  <1>3. ASSUME NEW c \in Calls, Session(c) PROVE StoreSub(c)
    <2>1. CommitFailed(c) \/ Commit(c) \/ StoreSub(c)
      BY <1>1, <1>3 DEF Session, CreateOrder, StoreEvent, SyncFetch, LockSub, MarkFailed,
                               WriteOrg, StoreOrg
    <2>2. ~CommitFailed(c)
      <3> SUFFICES ASSUME CommitFailed(c) PROVE FALSE
        OBVIOUS
      <3>1. call[c].sub \in SubRows
        BY DEF CommitFailed, At, GraceInv, BillInv, Knows, Sound
      <3>2. Scheduled(call[c].sub).plan = call[c].sub.plan
        BY <3>1 DEF Scheduled, SubRows
      <3>3. sub' = Written(sub, call[c].sub, Scheduled(call[c].sub))
        BY DEF CommitFailed
      <3> QED BY <1>1, <3>2, <3>3, WrittenDue
    <2>3. ~Commit(c)
      <3> SUFFICES ASSUME Commit(c) PROVE FALSE
        OBVIOUS
      <3>1. call[c].at = "write order" /\ sub' = Written(sub, call[c].sub, Activated(call[c].sub))
        BY <1>1 DEF Commit, At
      <3>2. call[c].sub = sub
        BY <3>1 DEF GraceInv, BillInv, Locked, Fresh
      <3> DEFINE new == Activated(sub)
      <3>3. new.plan = PaidPlan /\ sub' = Written(sub, sub, new)
        BY <1>1, <3>1, <3>2 DEF Activated, SubRows
      <3> HIDE DEF new
      <3>4. Written(sub, sub, new).plan = IF new.plan # sub.plan THEN new.plan ELSE sub.plan
        BY <1>1, WrittenDue
      <3> QED BY <1>1, <3>3, <3>4
    <2> QED BY <2>1, <2>2, <2>3
  <1>4. PICK c \in Calls : StoreSub(c)
    <2>1. ASSUME NEW o \in Orders, Pay(o) \/ PayFails(o) PROVE FALSE
      BY <1>1, <2>1 DEF Pay, PayFails
    <2>2. CASE Tick
      BY <1>1, <2>2 DEF Tick
    <2>3. ASSUME NEW c \in Calls,
                 \/ LookUpKey(c)
                 \/ \E e \in Events : ReceiveEvent(c, e)
                 \/ \E o \in Orders : SyncLoad(c, o)
                 \/ \E what \in Tasks : LoadSub(c, what)
          PROVE  FALSE
      BY <1>1, <2>3 DEF LookUpKey, ReceiveEvent, SyncLoad, LoadSub
    <2>4. ASSUME NEW c \in Calls, Fail(c) PROVE FALSE
      BY <1>1, <2>4 DEF Fail
    <2>5. ASSUME NEW c \in Calls, NEW d \in Calls, BreakDeadlock(c, d) PROVE FALSE
      BY <1>1, <2>5 DEF BreakDeadlock
    <2>6. ASSUME NEW c \in Calls,
                 \/ LookUpKey(c)
                 \/ \E e \in Events : ReceiveEvent(c, e)
                 \/ \E o \in Orders : SyncLoad(c, o)
                 \/ \E what \in Tasks : LoadSub(c, what)
                 \/ Session(c)
                 \/ Fail(c)
                 \/ \E d \in Calls : BreakDeadlock(c, d)
          PROVE  StoreSub(c)
      <3>1. CASE \/ LookUpKey(c)
                 \/ \E e \in Events : ReceiveEvent(c, e)
                 \/ \E o \in Orders : SyncLoad(c, o)
                 \/ \E what \in Tasks : LoadSub(c, what)
        BY <3>1, <2>3, Zenon
      <3>2. CASE Session(c) \/ Fail(c)
        BY <3>2, <1>3, <2>4
      <3>3. CASE \E d \in Calls : BreakDeadlock(c, d)
        BY <3>3, <2>5
      <3> QED BY <2>6, <3>1, <3>2, <3>3
    <2> QED BY <1>2, <2>1, <2>2, <2>6 DEF Next
  <1> DEFINE old == call[c].sub
             new == Maintained(old, call[c].got)
  <1>5. /\ At(c, "store sub") /\ old \in SubRows /\ call[c].got \in Tasks
        /\ sub' = Written(sub, old, new)
    BY <1>4 DEF StoreSub, At, GraceInv, BillInv, Knows, Sound
  <1>6. new.plan # old.plan
    <2> HIDE DEF new, old
    <2>1. Written(sub, old, new).plan = IF new.plan # old.plan THEN new.plan ELSE sub.plan
      BY <1>1, WrittenDue
    <2> QED BY <1>5, <2>1
  <1>7. Normalized(old).plan = old.plan /\ Lapsed(old).plan = old.plan
    BY <1>5 DEF Normalized, Lapsed, SubRows
  <1>8. Downgraded(old).plan # old.plan
    BY <1>5, <1>6, <1>7 DEF Maintained, Tasks
  <1>9. old.due # None /\ old.due <= now
    BY <1>8 DEF Downgraded
  <1> QED BY <1>5, <1>9

\* It takes the plan away after the grace of a failure that was stored.
LEMMA PlanIsLostAfterGrace ==
    ASSUME GraceInv, [Next]_vars, sub.plan = PaidPlan, sub'.plan = FreePlan
    PROVE  \E o \in Orders : LET e == Event(o, "payment.failed")
                             IN  Stored(e) /\ events[e] + Grace <= now
  <1>1. PICK c \in Calls : /\ At(c, "store sub") /\ call[c].sub \in SubRows
                           /\ call[c].sub.due # None /\ call[c].sub.due <= now
    BY PlanIsLostByDowngrade
  <1>2. Deferred(call[c].sub.due, events)
    BY <1>1 DEF GraceInv, DueIsDeferred, At
  <1>3. PICK o \in Orders : /\ events[Event(o, "payment.failed")] # None
                            /\ events[Event(o, "payment.failed")] + Grace <= call[c].sub.due
    BY <1>2 DEF Deferred
  <1>4. /\ events[Event(o, "payment.failed")] \in Nat /\ call[c].sub.due \in Nat
        /\ now \in Nat /\ Grace \in Nat
    <2>1. Event(o, "payment.failed") \in Events
      BY DEF Event, Events
    <2> QED BY <1>1, <1>3, <2>1, BillingAssumption
            DEF GraceInv, BillInv, BillTypeOK, SubRows, Days
  <1>5. events[Event(o, "payment.failed")] + Grace <= now
    <2>1. \A a, b, d, g \in Nat : a + g <= b /\ b <= d => a + g <= d
      OBVIOUS
    <2> QED BY <1>1, <1>3, <1>4, <2>1
  <1> QED BY <1>3, <1>5 DEF Stored

\* Whatever the downgrades, payments and failures that sessions have loaded, the
\* paid plan is not lost before a failed payment is Grace days old.
THEOREM PaidPlanHasItsGrace == Spec => GraceBeforeDowngrade
  <1>1. GraceInv /\ [Next]_vars =>
            [sub.plan = PaidPlan /\ sub'.plan = FreePlan =>
                \E o \in Orders : LET e == Event(o, "payment.failed")
                                  IN  Stored(e) /\ events[e] + Grace <= now]_vars
    BY PlanIsLostAfterGrace
  <1> QED BY <1>1, GraceIsInvariant, PTL DEF Spec, GraceBeforeDowngrade

-----------------------------------------------------------------------------
(* Sessions never all wait for one another.                                *)

\* Two sessions have no order in common.
LEMMA OneLocker ==
    ASSUME BillInv, NEW o, NEW c \in Calls, NEW d \in Calls, LocksOrder(c, o), LocksOrder(d, o)
    PROVE  c = d
  BY DEF BillInv, Apart, LocksOrder, HasOrder, StoresPayment, At

\* A webhook that only marks the order it has does not wait.
LEMMA MarkingGoesOn ==
    ASSUME BillInv, NEW o, NEW c \in Calls, At(c, "mark"), LocksOrder(c, o)
    PROVE  ~Waits(c)
  <1>1. ASSUME NEW d \in Calls, WaitsFor(c, d) PROVE FALSE
    <2>1. c # d /\ LocksOrder(d, call[c].order) /\ call[c].order = o
      BY <1>1 DEF WaitsFor, At, NeedsSub, NeedsOrg, LocksOrder
    <2> QED BY <2>1, OneLocker
  <1> QED BY <1>1 DEF Waits

\* A session that has the subscription waits for a session that has its order or
\* the organisation, and that waits for the subscription.
LEMMA ActivationWaits ==
    ASSUME BillInv, NEW c \in Calls, LocksSub(c), Waits(c),
           \A d \in Calls : call[d] # Idle => Waits(d)
    PROVE  \E d \in Calls : OrderAgainstSub(d, c) \/ OrgAgainstSub(d, c)
  <1>1. PICK d \in Calls : WaitsFor(c, d)
    BY DEF Waits
  <1>2. c # d /\ call[d].at \notin {"activate", "write order"}
    BY <1>1 DEF WaitsFor, LocksSub, BillInv, Apart
  <1>3. CASE LocksOrder(d, call[c].order)
    <2>1. call[d].order = call[c].order /\ HasOrder(call[d])
      BY <1>3 DEF LocksOrder, HasOrder, StoresPayment, At
    <2>2. call[d].at # "mark"
      <3> SUFFICES ASSUME call[d].at = "mark" PROVE FALSE
        OBVIOUS
      <3>1. call[d] # Idle
        BY DEF Idle
      <3> QED BY <1>3, <3>1, MarkingGoesOn DEF At
    <2>3. call[d].at \in {"lock sub", "schedule"}
      BY <1>2, <1>3, <2>2 DEF LocksOrder, At
    <2>4. order[call[c].order] # None
      BY <2>1, <2>3 DEF HasOrder, StoresPayment, BillInv, Knows, Locked, Sound, Fresh
    <2>5. call[c].event = None
      <3> SUFFICES ASSUME call[c].event # None PROVE FALSE
        OBVIOUS
      <3>1. StoresPayment(call[c])
        BY DEF BillInv, Knows, Sound, StoresPayment, LocksSub
      <3>2. HasOrder(call[c])
        BY <2>4, <3>1 DEF BillInv, Locked, Fresh, HasOrder
      <3> QED BY <1>2, <2>1, <3>2 DEF BillInv, Apart
    <2> QED BY <1>3, <2>3, <2>5 DEF OrderAgainstSub
  <1>4. CASE NeedsOrg(c) /\ LocksOrg(d)
    <2>1. At(c, "activate") /\ ~Running(call[c].sub)
      BY <1>4 DEF NeedsOrg, LocksSub, At
    <2>2. At(d, "store sub") /\ call[d].got = "downgrade"
      BY <1>2, <1>4 DEF LocksOrg, At
    <2> QED BY <2>1, <2>2 DEF OrgAgainstSub
  <1> QED BY <1>1, <1>3, <1>4 DEF WaitsFor, LocksSub, NeedsSub, At

\* Without one that has the subscription somebody can go on: those that wait for
\* the subscription first, then those with an order, then those that wait for one.
LEMMA SomebodyGoesOn ==
    ASSUME BillInv, \A c \in Calls : ~LocksSub(c), NEW c \in Calls, Waits(c)
    PROVE  \E d \in Calls : call[d] # Idle /\ ~Waits(d)
  <1> SUFFICES ASSUME \A d \in Calls : call[d] # Idle => Waits(d)
               PROVE  FALSE
    OBVIOUS
  <1>0. Idle.at = "idle"
    BY DEF Idle
  <1>1. \A d \in Calls : call[d].at \notin {"lock sub", "schedule", "store sub"}
    <2> SUFFICES ASSUME NEW d \in Calls, call[d].at \in {"lock sub", "schedule", "store sub"}
                 PROVE  FALSE
      OBVIOUS
    <2>1. Waits(d)
      BY <1>0
    <2>2. PICK e \in Calls : WaitsFor(d, e)
      BY <2>1 DEF Waits
    <2> QED BY <2>2 DEF WaitsFor, NeedsOrder, NeedsOrg, MarksOnly, At
  <1>2. \A d \in Calls : call[d].at \notin {"activate", "write order"}
    BY DEF LocksSub
  <1>3. \A d \in Calls, o \in Orders : ~LocksOrder(d, o)
    <2> SUFFICES ASSUME NEW d \in Calls, NEW o \in Orders, LocksOrder(d, o) PROVE FALSE
      OBVIOUS
    <2>1. call[d].at = "mark"
      BY <1>1, <1>2 DEF LocksOrder, At
    <2>2. Waits(d)
      BY <1>0, <2>1
    <2> QED BY <2>1, <2>2, MarkingGoesOn DEF At
  <1>4. \A d \in Calls : ~LocksOrg(d)
    BY <1>1, <1>2 DEF LocksOrg, At
  <1>5. \A d \in Calls : call[d].at \notin {"mark", "store failed", "store org"}
    <2> SUFFICES ASSUME NEW d \in Calls, call[d].at \in {"mark", "store failed", "store org"}
                 PROVE  FALSE
      OBVIOUS
    <2>1. Waits(d)
      BY <1>0
    <2>2. PICK e \in Calls : WaitsFor(d, e)
      BY <2>1 DEF Waits
    <2>3. call[d].at # "store org" => call[d].order \in Orders
      BY DEF BillInv, Knows, Sound
    <2> QED BY <1>3, <1>4, <2>2, <2>3
            DEF WaitsFor, NeedsOrder, NeedsSub, NeedsOrg, MarksOnly, At
  <1>6. \A d \in Calls : ~Storing(d)
    BY <1>1, <1>2, <1>5 DEF Storing, BillInv, Knows, Sound
  <1>7. PICK d \in Calls : WaitsFor(c, d)
    BY DEF Waits
  <1>8. call[c].at = "store event"
    BY <1>1, <1>2, <1>5, <1>7 DEF WaitsFor, NeedsOrder, NeedsSub, NeedsOrg, MarksOnly, At
  <1>9. call[c].order \in Orders
    BY <1>8 DEF BillInv, Knows, Sound
  <1> QED BY <1>3, <1>6, <1>7, <1>8, <1>9 DEF WaitsFor, NeedsSub, NeedsOrg, At

\* The database has no deadlock to break but those of an activation with a webhook
\* that has its order, or with a downgrade, for any number of sessions.
THEOREM DeadlocksAreOfTwoKinds == Spec => []OnlyTwoDeadlocks
  <1>1. BillInv => OnlyTwoDeadlocks
    <2> SUFFICES ASSUME BillInv, NEW c \in Calls, call[c] # Idle,
                        \A d \in Calls : call[d] # Idle => Waits(d)
                 PROVE  \E d, e \in Calls : OrderAgainstSub(d, e) \/ OrgAgainstSub(d, e)
      BY DEF OnlyTwoDeadlocks
    <2>1. PICK d \in Calls : LocksSub(d)
      BY SomebodyGoesOn
    <2>2. Idle.at = "idle"
      BY DEF Idle
    <2>3. call[d] # Idle
      BY <2>1, <2>2 DEF LocksSub
    <2> QED BY <2>1, <2>3, ActivationWaits
  <1> QED BY <1>1, BillingIsInvariant, PTL

-----------------------------------------------------------------------------
(* The plans that are bought are paid for.                                 *)

\* Webhooks and syncs that activate an order have it from the provider, which has
\* captured its payment by then and for good.
PaysForCaptured ==
    /\ \A e \in out : e.type \in Paying => prov[e.order] = "paid"
    /\ \A c \in Calls :
          call[c].event \in Paying \/ call[c].at \in {"lock sub", "activate", "write order"}
              => prov[call[c].order] = "paid"

PlanInv == GraceInv /\ PaysForCaptured

\* One session moves, to r, and the provider forgets no payment.
LEMMA CapturedMove ==
    ASSUME PlanInv, NEW c \in Calls, NEW r, Continue(c, r), UNCHANGED out,
           \A o \in Orders : prov[o] = "paid" => prov'[o] = "paid",
           r.event \in Paying \/ r.at \in {"lock sub", "activate", "write order"} => prov'[r.order] = "paid"
    PROVE  PaysForCaptured'
  <1>1. call'[c] = r /\ \A d \in Calls \ {c} : call'[d] = call[d]
    BY DEF Continue, PlanInv, GraceInv, BillInv, BillTypeOK
  <1>2. \A e \in out' : e.type \in Paying => prov'[e.order] = "paid"
    BY DEF PlanInv, PaysForCaptured, GraceInv, BillInv, BillTypeOK, Events
  <1>3. ASSUME NEW d \in Calls \ {c},
               call[d].event \in Paying \/ call[d].at \in {"lock sub", "activate", "write order"}
        PROVE  prov'[call[d].order] = "paid"
    <2>1. call[d].order \in Orders
      BY <1>3, BillingAssumption DEF PlanInv, GraceInv, BillInv, Knows, Sound, Paying
    <2> QED BY <1>3, <2>1 DEF PlanInv, PaysForCaptured
  <1> QED BY <1>1, <1>2, <1>3 DEF PaysForCaptured

LEMMA CapturedEnd ==
    ASSUME PlanInv, NEW c \in Calls, End(c), UNCHANGED out,
           \A o \in Orders : prov[o] = "paid" => prov'[o] = "paid"
    PROVE  PaysForCaptured'
  <1>1. Idle.event \notin Paying /\ Idle.at = "idle"
    BY BillingAssumption DEF Idle
  <1> QED BY <1>1, CapturedMove DEF End

LEMMA CapturedPay ==
    ASSUME PlanInv, NEW o \in Orders, Pay(o) \/ PayFails(o)
    PROVE  PaysForCaptured'
  <1>1. /\ prov \in [Orders -> {"created", "attempted", "paid", None}] /\ call' = call
        /\ \A e \in out : e.order \in Orders
    BY DEF Pay, PayFails, PlanInv, GraceInv, BillInv, BillTypeOK, Events
  <1>2. \A p \in Orders : prov[p] = "paid" => prov'[p] = "paid"
    BY <1>1 DEF Pay, PayFails
  <1>3. ASSUME NEW e \in out', e.type \in Paying PROVE prov'[e.order] = "paid"
    <2>1. CASE e \in out
      BY <1>1, <1>2, <1>3, <2>1 DEF PlanInv, PaysForCaptured
    <2>2. CASE e \notin out
      BY <1>1, <1>3, <2>2 DEF Pay, PayFails, Event, Paying
    <2> QED BY <2>1, <2>2
  <1>4. ASSUME NEW c \in Calls,
               call[c].event \in Paying \/ call[c].at \in {"lock sub", "activate", "write order"}
        PROVE  prov'[call[c].order] = "paid"
    <2>1. call[c].order \in Orders
      BY <1>4, BillingAssumption DEF PlanInv, GraceInv, BillInv, Knows, Sound, Paying
    <2> QED BY <1>2, <1>4, <2>1 DEF PlanInv, PaysForCaptured
  <1> QED BY <1>1, <1>3, <1>4 DEF PaysForCaptured

LEMMA CapturedOpen ==
    ASSUME PlanInv, NEW c \in Calls,
           \/ LookUpKey(c)
           \/ \E e \in Events : ReceiveEvent(c, e)
           \/ \E o \in Orders : SyncLoad(c, o)
           \/ \E what \in Tasks : LoadSub(c, what)
    PROVE  PaysForCaptured'
  <1> USE BillingAssumption DEF external, Idle, Paying
  <1>1. CASE LookUpKey(c)
    <2>1. PICK k : Continue(c, [Idle EXCEPT !.at = "create", !.key = k])
      BY <1>1 DEF LookUpKey
    <2> QED BY <1>1, <2>1, CapturedMove DEF LookUpKey
  <1>2. ASSUME NEW e \in Events, ReceiveEvent(c, e) PROVE PaysForCaptured'
    <2>1. e.type \in Paying => prov[e.order] = "paid"
      BY <1>2 DEF ReceiveEvent, PlanInv, PaysForCaptured
    <2> QED BY <1>2, <2>1, CapturedMove DEF ReceiveEvent
  <1>3. ASSUME NEW o \in Orders, SyncLoad(c, o) PROVE PaysForCaptured'
    BY <1>3, CapturedMove DEF SyncLoad
  <1>4. ASSUME NEW what \in Tasks, LoadSub(c, what) PROVE PaysForCaptured'
    BY <1>4, CapturedMove DEF LoadSub
  <1> QED BY <1>1, <1>2, <1>3, <1>4

LEMMA CapturedSession ==
    ASSUME PlanInv, NEW c \in Calls, Session(c)
    PROVE  PaysForCaptured'
  <1> USE BillingAssumption DEF external
  <1>1. call[c] \in Sessions /\ Sound(call[c], prov, order)
    BY DEF PlanInv, GraceInv, BillInv, BillTypeOK, Knows
  <1>2. CASE CreateOrder(c)
    <2>1. \A o \in Orders : prov[o] = "paid" => prov'[o] = "paid"
      BY <1>2 DEF CreateOrder, PlanInv, GraceInv, BillInv, BillTypeOK, Statuses
    <2> QED BY <1>2, <2>1, CapturedEnd DEF CreateOrder
  <1>3. CASE CommitFailed(c) \/ Commit(c) \/ StoreSub(c)
    BY <1>3, CapturedEnd DEF CommitFailed, Commit, StoreSub
  <1>4. CASE StoreEvent(c)
    <2>1. CASE End(c)
      BY <1>4, <2>1, CapturedEnd DEF StoreEvent
    <2>2. ASSUME NEW r, Continue(c, r), r.event = call[c].event, r.order = call[c].order,
                 r.at \in {"lock sub", "activate", "write order"} => call[c].event \in Paying
          PROVE  PaysForCaptured'
      <3>1. r.event \in Paying \/ r.at \in {"lock sub", "activate", "write order"} => prov[r.order] = "paid"
        BY <2>2 DEF PlanInv, PaysForCaptured
      <3> QED BY <1>4, <2>2, <3>1, CapturedMove DEF StoreEvent
    <2>3. CASE ~End(c) /\ call[c].event \in Paying
      <3> DEFINE was == order[call[c].order]
                 r == [call[c] EXCEPT !.was = was, !.got = "paid",
                          !.at = IF was \in PAID_ORDER_STATUSES THEN "mark" ELSE "lock sub"]
      <3>1. Continue(c, r)
        BY <1>4, <2>3 DEF StoreEvent, CallEvent, Event
      <3>2. r.event = call[c].event /\ r.order = call[c].order
        BY <1>1 DEF Sessions
      <3> HIDE DEF r
      <3> QED BY <2>2, <2>3, <3>1, <3>2
    <2>4. CASE ~End(c) /\ call[c].event \notin Paying
      <3> DEFINE r == [call[c] EXCEPT !.at = "store failed", !.was = order[call[c].order], !.sub = sub]
      <3>1. Continue(c, r)
        BY <1>4, <2>4 DEF StoreEvent, CallEvent, Event
      <3>2. r.event = call[c].event /\ r.order = call[c].order /\ r.at = "store failed"
        BY <1>1 DEF Sessions
      <3> HIDE DEF r
      <3> QED BY <2>2, <3>1, <3>2
    <2> QED BY <2>1, <2>3, <2>4
  <1>5. CASE SyncFetch(c)
    <2>1. call[c].event = None
      BY <1>1, <1>5 DEF SyncFetch, At, Sound
    <2>2. CASE End(c)
      BY <1>5, <2>2, CapturedEnd DEF SyncFetch
    <2>3. CASE ~End(c)
      <3> DEFINE got == prov[call[c].order]
                 r == [call[c] EXCEPT !.got = got,
                          !.at = IF got \in PAID_ORDER_STATUSES THEN "lock sub" ELSE "mark"]
      <3>1. Continue(c, r)
        BY <1>5, <2>3 DEF SyncFetch
      <3>2. /\ r.event \notin Paying
            /\ r.at \in {"lock sub", "activate", "write order"} => prov[r.order] = "paid"
        BY <1>1, <2>1 DEF Sessions, PAID_ORDER_STATUSES
      <3> HIDE DEF r
      <3> QED BY <1>5, <3>1, <3>2, CapturedMove DEF SyncFetch
    <2> QED BY <2>2, <2>3
  <1>6. CASE LockSub(c)
    <2> DEFINE r == [call[c] EXCEPT !.at = "activate", !.sub = sub,
                                    !.invoiced = invoices[call[c].order] > 0]
    <2>1. Continue(c, r) /\ call[c].at = "lock sub"
      BY <1>6 DEF LockSub, At
    <2>2. r.order = call[c].order
      BY <1>1 DEF Sessions
    <2>3. prov[r.order] = "paid"
      BY <2>1, <2>2 DEF PlanInv, PaysForCaptured
    <2> HIDE DEF r
    <2> QED BY <1>6, <2>1, <2>3, CapturedMove DEF LockSub
  <1>7. CASE WritesRow(c)
    <2>1. PICK r \in Sessions : Continue(c, r) /\ GoesOn(call[c], r)
      BY <1>7, NextRow DEF PlanInv, GraceInv
    <2>2. UNCHANGED <<prov, out>>
      BY <1>7, NextRow DEF PlanInv, GraceInv
    <2>3. r.event \in Paying \/ r.at \in {"lock sub", "activate", "write order"} => prov[r.order] = "paid"
      BY <2>1 DEF GoesOn, PlanInv, PaysForCaptured
    <2> QED BY <2>1, <2>2, <2>3, CapturedMove
  <1> QED BY <1>2, <1>3, <1>4, <1>5, <1>6, <1>7 DEF Session, WritesRow

LEMMA NextPlan == PlanInv /\ [Next]_vars => PlanInv'
  <1> SUFFICES ASSUME PlanInv, [Next]_vars PROVE PaysForCaptured'
    BY NextGrace DEF PlanInv
  <1> USE DEF external
  <1>1. CASE UNCHANGED <<external, call>>
    BY <1>1 DEF PlanInv, PaysForCaptured
  <1>2. ASSUME NEW c \in Calls,
               \/ LookUpKey(c)
               \/ \E e \in Events : ReceiveEvent(c, e)
               \/ \E o \in Orders : SyncLoad(c, o)
               \/ \E what \in Tasks : LoadSub(c, what)
               \/ Session(c)
               \/ Fail(c)
               \/ \E d \in Calls : BreakDeadlock(c, d)
        PROVE  PaysForCaptured'
    <2>1. CASE \/ LookUpKey(c)
               \/ \E e \in Events : ReceiveEvent(c, e)
               \/ \E o \in Orders : SyncLoad(c, o)
               \/ \E what \in Tasks : LoadSub(c, what)
      BY <2>1, CapturedOpen, Zenon
    <2>2. CASE Session(c)
      BY <2>2, CapturedSession
    <2>3. CASE Fail(c)
      BY <2>3, CapturedEnd DEF Fail
    <2>4. CASE \E d \in Calls : BreakDeadlock(c, d)
      BY <2>4, CapturedEnd DEF BreakDeadlock
    <2> QED BY <1>2, <2>1, <2>2, <2>3, <2>4
  <1> QED BY <1>1, <1>2, CapturedPay DEF Next, Tick, vars

LEMMA InitPlan == Init => PlanInv
  <1> SUFFICES ASSUME Init PROVE PaysForCaptured
    BY InitGrace DEF PlanInv
  <1> QED BY BillingAssumption DEF Init, PaysForCaptured, Idle, Paying

\* Nothing is activated that was not captured, in any state.
THEOREM PlansArePaidFor == Spec => []PlanInv
  BY InitPlan, NextPlan, PTL DEF Spec

-----------------------------------------------------------------------------
(* Billing implements PaidPlans.                                           *)

PlansStep == [Plans!PNext]_<<now, CapturedOrders, invoices, FailureDays, sub.plan, sub.end>>

LEMMA PlansStutter ==
    ASSUME UNCHANGED <<now, invoices, sub>>, CapturedOrders' = CapturedOrders,
           FailureDays' = FailureDays
    PROVE  PlansStep
  BY DEF PlansStep

LEMMA SameFailures ==
    ASSUME \A e \in Events : e.type = "payment.failed" => events'[e] = events[e]
    PROVE  FailureDays' = FailureDays
  BY DEF FailureDays, Event, Events

\* A session writes the end of a period, and the plan, that it changed.
LEMMA WrittenEnd ==
    ASSUME NEW row \in SubRows, NEW old, NEW new
    PROVE  Written(row, old, new).end = IF new.end # old.end THEN new.end ELSE row.end
  BY DEF Written, SubRows

LEMMA PayImplements ==
    ASSUME PlanInv, NEW o \in Orders, Pay(o) \/ PayFails(o)
    PROVE  PlansStep
  <1>1. /\ prov \in [Orders -> {"created", "attempted", "paid", None}]
        /\ UNCHANGED <<now, invoices, sub, events>>
    BY DEF Pay, PayFails, tables, PlanInv, GraceInv, BillInv, BillTypeOK
  <1>2. FailureDays' = FailureDays
    BY <1>1, SameFailures
  <1>3. CASE Pay(o)
    <2>1. o \notin CapturedOrders /\ CapturedOrders' = CapturedOrders \cup {o}
      BY <1>1, <1>3 DEF Pay, CapturedOrders
    <2> QED BY <1>1, <1>2, <2>1 DEF PlansStep, Plans!PNext, Plans!Capture
  <1>4. CASE PayFails(o)
    <2>1. CapturedOrders' = CapturedOrders
      BY <1>1, <1>4 DEF PayFails, CapturedOrders
    <2> QED BY <1>1, <1>2, <2>1, PlansStutter
  <1> QED BY <1>3, <1>4

LEMMA CreateOrderImplements ==
    ASSUME PlanInv, NEW c \in Calls, CreateOrder(c)
    PROVE  PlansStep
  <1>1. prov \in [Orders -> {"created", "attempted", "paid", None}] /\ None # "paid"
    BY BillingAssumption DEF Statuses, PlanInv, GraceInv, BillInv, BillTypeOK
  <1>2. CapturedOrders' = CapturedOrders
    BY <1>1 DEF CreateOrder, CapturedOrders
  <1>3. UNCHANGED <<now, invoices, sub, events>>
    BY DEF CreateOrder
  <1> QED BY <1>2, <1>3, SameFailures, PlansStutter

\* A failed payment is stored with the day, and takes nothing away.
LEMMA CommitFailedImplements ==
    ASSUME PlanInv, NEW c \in Calls, CommitFailed(c)
    PROVE  PlansStep
  <1> DEFINE e == CallEvent(c)
  <1>1. /\ UNCHANGED <<now, prov, invoices>>
        /\ events' = [events EXCEPT ![e] = now]
        /\ sub' = Written(sub, call[c].sub, Scheduled(call[c].sub))
        /\ call[c].sub \in SubRows /\ sub \in SubRows /\ now \in Nat /\ events \in [Events -> Days]
    BY DEF CommitFailed, external, At, PlanInv, GraceInv, BillInv, BillTypeOK, Knows, Sound
  <1>2. e \in Events /\ e.type = "payment.failed"
    BY DEF CommitFailed, At, PlanInv, GraceInv, BillInv, Knows, Sound, CallEvent, Event, Events
  <1>3. ~Stored(e)
    <2>1. Storing(c)
      BY BillingAssumption DEF CommitFailed, At, PlanInv, GraceInv, BillInv, Knows, Sound, Storing
    <2> QED BY <2>1 DEF PlanInv, GraceInv, StoredByOne
  <1>4. FailureDays' = FailureDays \cup {now}
    <2>1. events'[e] = now /\ now # None /\ \A f \in Events \ {e} : events'[f] = events[f]
      BY <1>1, <1>2, BillingAssumption
    <2>2. \A f \in Events : Stored(f)' <=> Stored(f) \/ f = e
      BY <1>3, <2>1 DEF Stored
    <2>3. e = Event(e.order, "payment.failed") /\ e.order \in Orders
      BY <1>2 DEF Event, Events
    <2>4. \A o \in Orders : Event(o, "payment.failed") \in Events
      BY DEF Event, Events
    <2> QED BY <1>3, <2>1, <2>2, <2>3, <2>4 DEF FailureDays, Stored
  <1>5. sub'.plan = sub.plan /\ sub'.end = sub.end
    <2> DEFINE new == Scheduled(call[c].sub)
    <2>1. new.plan = call[c].sub.plan /\ new.end = call[c].sub.end
      BY <1>1 DEF Scheduled, SubRows
    <2> HIDE DEF new
    <2> QED BY <1>1, <2>1, WrittenDue, WrittenEnd DEF new
  <1>6. CapturedOrders' = CapturedOrders
    BY <1>1 DEF CapturedOrders
  <1> QED BY <1>1, <1>4, <1>5, <1>6 DEF PlansStep, Plans!PNext, Plans!StoreFailure

\* A payment buys a period and has one invoice, or finds that it was applied.
LEMMA CommitImplements ==
    ASSUME PlanInv, NEW c \in Calls, Commit(c)
    PROVE  PlansStep
  <1> DEFINE o == call[c].order
  <1>1. /\ UNCHANGED <<now, prov>>
        /\ call[c].at \in {"activate", "write order", "mark"}
        /\ Sound(call[c], prov, order) /\ Fresh(call[c], order, sub, invoices)
        /\ sub \in SubRows /\ now \in Nat /\ events \in [Events -> Days]
        /\ invoices \in [Orders -> Nat] /\ \A p \in Orders : invoices[p] <= 1
    BY DEF Commit, MarksOnly, external, At, PlanInv, GraceInv, BillInv, BillTypeOK, Knows, Locked, InvoicedOnce
  <1>2. o \in Orders /\ call[c].event \in Paying \cup {None}
    BY <1>1 DEF Sound
  <1>3. FailureDays' = FailureDays
    <2>1. call[c].event # None => CallEvent(c).type # "payment.failed"
      BY <1>2 DEF CallEvent, Event, Paying
    <2>2. \A e \in Events : e.type = "payment.failed" => events'[e] = events[e]
      BY <1>1, <2>1 DEF Commit
    <2> QED BY <2>2, SameFailures
  <1>4. CapturedOrders' = CapturedOrders
    BY <1>1 DEF CapturedOrders
  <1>5. CASE UNCHANGED <<sub, invoices>>
    BY <1>1, <1>3, <1>4, <1>5, PlansStutter
  <1>6. CASE /\ call[c].at = "write order"
             /\ sub' = Written(sub, call[c].sub, Activated(call[c].sub))
             /\ invoices' = Invoiced(o, call[c].invoiced)
    <2>1. o \in CapturedOrders
      BY <1>2, <1>6 DEF PlanInv, PaysForCaptured, CapturedOrders
    <2>2. call[c].sub = sub /\ (call[c].invoiced <=> invoices[o] > 0)
      BY <1>1, <1>6 DEF Fresh
    <2>3. sub'.plan = PaidPlan /\ sub'.end = now + Period
      <3> DEFINE new == Activated(sub)
      <3>1. new.plan = PaidPlan /\ new.end = now + Period
        BY <1>1 DEF Activated, SubRows
      <3> HIDE DEF new
      <3>2. sub' = Written(sub, sub, new)
        BY <1>6, <2>2 DEF new
      <3>3. sub \in SubRows
        BY <1>1
      <3>4. Written(sub, sub, new).plan = IF new.plan # sub.plan THEN new.plan ELSE sub.plan
        BY <3>3, WrittenDue
      <3>5. Written(sub, sub, new).end = IF new.end # sub.end THEN new.end ELSE sub.end
        BY <3>3, WrittenEnd
      <3> QED BY <3>1, <3>2, <3>4, <3>5
    <2>4. invoices' = [invoices EXCEPT ![o] = 1]
      <3>1. invoices[o] \in Nat /\ invoices[o] <= 1
        BY <1>1, <1>2
      <3>2. CASE call[c].invoiced
        <4>1. invoices[o] = 1
          BY <2>2, <3>1, <3>2
        <4> QED BY <1>6, <3>2, <4>1 DEF Invoiced
      <3>3. CASE ~call[c].invoiced
        <4>1. ~(invoices[o] > 0)
          BY <2>2, <3>3, Zenon
        <4>2. invoices[o] + 1 = 1
          BY <3>1, <4>1
        <4>3. invoices' = [invoices EXCEPT ![o] = invoices[o] + 1]
          BY <1>6, <3>3 DEF Invoiced
        <4> QED BY <4>2, <4>3, Zenon
      <3> QED BY <3>2, <3>3
    <2> QED BY <1>1, <1>2, <1>3, <1>4, <2>1, <2>3, <2>4 DEF PlansStep, Plans!PNext, Plans!Buy
  <1> QED BY <1>5, <1>6 DEF Commit, At

\* Maintenance keeps the end of the period, and takes a plan after its grace.
LEMMA StoreSubImplements ==
    ASSUME PlanInv, NEW c \in Calls, StoreSub(c)
    PROVE  PlansStep
  <1> DEFINE old == call[c].sub
             new == Maintained(old, call[c].got)
  <1>1. /\ UNCHANGED <<now, prov, events, invoices>>
        /\ sub' = Written(sub, old, new)
        /\ sub \in SubRows /\ old \in SubRows /\ call[c].got \in Tasks /\ now \in Nat
    BY DEF StoreSub, external, At, PlanInv, GraceInv, BillInv, BillTypeOK, Knows, Sound
  <1>2. new \in SubRows /\ new.end = old.end
    <2>1. new.end = old.end
      BY <1>1 DEF Maintained, Tasks, Downgraded, Normalized, Lapsed, SubRows
    <2> QED BY <1>1, <2>1, MaintainedType
  <1>3. /\ CapturedOrders' = CapturedOrders
        /\ FailureDays' = FailureDays
    BY <1>1, SameFailures DEF CapturedOrders
  <1> HIDE DEF new, old
  <1>4. sub'.end = sub.end
    BY <1>1, <1>2, WrittenEnd
  <1>5. sub' \in SubRows
    BY <1>1, <1>2, WrittenType
  <1>6. CASE sub'.plan = sub.plan
    BY <1>1, <1>3, <1>4, <1>6 DEF PlansStep
  <1>7. CASE sub.plan = PaidPlan /\ sub'.plan = FreePlan
    <2>1. [Next]_vars /\ GraceInv
      BY DEF Next, Session, PlanInv
    <2>2. PICK o \in Orders : LET e == Event(o, "payment.failed")
                              IN  Stored(e) /\ events[e] + Grace <= now
      BY <1>7, <2>1, PlanIsLostAfterGrace
    <2>3. events[Event(o, "payment.failed")] \in FailureDays
      BY <2>2 DEF FailureDays, Stored
    <2> QED BY <1>1, <1>3, <1>4, <1>7, <2>2, <2>3 DEF PlansStep, Plans!PNext, Plans!Lose
  <1>8. CASE sub.plan = FreePlan /\ sub'.plan = PaidPlan
    <2>1. new.plan # old.plan /\ new.plan = PaidPlan
      BY <1>1, <1>8, WrittenDue DEF FreePlan, PaidPlan
    <2>2. new.plan \in {old.plan, FreePlan}
      BY <1>1 DEF new, Maintained, Tasks, Downgraded, Normalized, Lapsed, SubRows
    <2> QED BY <2>1, <2>2 DEF FreePlan, PaidPlan
  <1> QED BY <1>1, <1>5, <1>6, <1>7, <1>8 DEF SubRows

LEMMA NextImplements == PlanInv /\ [Next]_vars => PlansStep
  <1> SUFFICES ASSUME PlanInv, [Next]_vars PROVE PlansStep
    OBVIOUS
  <1> USE DEF external, tables
  <1>1. CASE UNCHANGED <<now, external, tables>>
    BY <1>1, SameFailures, PlansStutter DEF CapturedOrders
  <1>2. CASE Tick
    <2>1. CapturedOrders' = CapturedOrders /\ FailureDays' = FailureDays
      BY <1>2, SameFailures DEF Tick, CapturedOrders
    <2> QED BY <1>2, <2>1 DEF Tick, PlansStep, Plans!PNext, Plans!Dawn
  <1>3. ASSUME NEW c \in Calls, Session(c) PROVE PlansStep
    BY <1>1, <1>3, CreateOrderImplements, CommitFailedImplements, CommitImplements,
       StoreSubImplements
       DEF Session, StoreEvent, SyncFetch, LockSub, MarkFailed, WriteOrg, StoreOrg
  <1>4. ASSUME NEW c \in Calls,
               \/ LookUpKey(c)
               \/ \E e \in Events : ReceiveEvent(c, e)
               \/ \E o \in Orders : SyncLoad(c, o)
               \/ \E what \in Tasks : LoadSub(c, what)
               \/ Session(c)
               \/ Fail(c)
               \/ \E d \in Calls : BreakDeadlock(c, d)
        PROVE  PlansStep
    BY <1>1, <1>3, <1>4 DEF LookUpKey, ReceiveEvent, SyncLoad, LoadSub, Fail, BreakDeadlock
  <1> QED BY <1>1, <1>2, <1>4, PayImplements DEF Next, vars

LEMMA InitImplements == Init => Plans!PInit
  BY BillingAssumption DEF Init, Plans!PInit, CapturedOrders, FailureDays,
                               Statuses, Event, Events

\* Whatever sessions do at the same time, the plan is bought and lost as if one
\* captured payment, or one failure after its grace, were applied after another.
THEOREM PlansRefinement == Spec => ImplementsPaidPlans
  BY InitImplements, NextImplements, PlansArePaidFor, PTL
     DEF Spec, ImplementsPaidPlans, Plans!PSpec, PlansStep
=============================================================================
