------------------------------ MODULE Webhooks ------------------------------
(***************************************************************************)
(* Checkout and Stripe webhooks (internal/billing/{checkout,billing,       *)
(* webhooks}.go) over the Postgres store.  A webhook handler is a          *)
(* goroutine; every store call is one step of it, so handlers, checkouts   *)
(* and Stripe interleave between calls.  A store call may fail and the     *)
(* process may die between two of them.                                    *)
(*                                                                         *)
(* Stripe is external: it keeps the true subscriptions, logs one event per *)
(* change, posts an event until it is answered 200, and may post it twice. *)
(***************************************************************************)
EXTENDS Naturals, Sequences, FiniteSets, FiniteSetsExt

CONSTANTS Orgs, Customers, Subs, Checkouts, Handlers,
          Tagged,       \* subscriptions whose metadata carries org_id
          PricePlans,   \* what a price maps to: a paid plan's code, or None if it is not configured
          MaxEvents,    \* bound on Stripe's log
          MaxTrouble,   \* bound on failing store calls, process deaths and redeliveries
          MayFail,      \* store calls fail and processes die
          InOrder,      \* Stripe posts one event at a time, and the oldest unanswered one first
          SingleSub,    \* an org has at most one live subscription
          None

ASSUME WebhooksAssumption ==
  /\ Tagged \subseteq Subs
  /\ {MaxEvents, MaxTrouble} \subseteq Nat
  /\ {MayFail, InOrder, SingleSub} \subseteq BOOLEAN
  /\ None \notin Orgs \cup Customers \cup Subs
  /\ "free" \notin PricePlans

VARIABLES
  orgPlan, orgCust,   \* orgs.plan, orgs.stripe_customer_id
  row,                \* subscriptions: one row per org, or NoRow
  processed,          \* billing_events
  co,                 \* checkout requests
  h,                  \* webhook handlers
  sub, log, acked,    \* Stripe: subscriptions, events, events answered 200
  applied, broken,    \* history: events whose handler returned nil, events whose
                      \* handler began and returned an error or died
  trouble

dbVars == <<orgPlan, orgCust, row, processed>>
stripeVars == <<sub, log>>
histVars == <<acked, applied, broken>>
vars == <<dbVars, co, h, stripeVars, histVars, trouble>>

Statuses == {"active", "past_due", "unpaid", "canceled"}
Live(s) == sub[s].status \in {"active", "past_due", "unpaid"}
NoRow == [sub |-> None, cust |-> None, plan |-> None, status |-> None]
Idle == [pc |-> "idle", ev |-> 0, org |-> None, row |-> NoRow]

Init ==
  /\ orgPlan = [o \in Orgs |-> "free"]
  /\ orgCust = [o \in Orgs |-> None]
  /\ row = [o \in Orgs |-> NoRow]
  /\ processed = {}
  /\ co = [k \in Checkouts |-> [pc |-> "idle", org |-> None, cust |-> None]]
  /\ h = [w \in Handlers |-> Idle]
  /\ sub = [s \in Subs |-> [status |-> None, plan |-> None, org |-> None, cust |-> None]]
  /\ log = <<>>
  /\ acked = {} /\ applied = {} /\ broken = {}
  /\ trouble = 0

-----------------------------------------------------------------------------
(* HandleCheckout and resolveCustomer: two requests of one org may both    *)
(* find it without a customer.                                             *)

CheckoutUnchanged == UNCHANGED <<orgPlan, row, processed, h, stripeVars, histVars, trouble>>

\* resolveCustomer: GetOrg, and the early return when a customer is known.
CheckoutStart(k, o) ==
  /\ co[k].pc = "idle"
  /\ co' = [co EXCEPT ![k] = [pc |-> IF orgCust[o] = None THEN "create" ELSE "session",
                              org |-> o, cust |-> orgCust[o]]]
  /\ UNCHANGED orgCust /\ CheckoutUnchanged

\* stripe.CreateCustomer gives a customer nobody has.
CreateCustomer(k) ==
  /\ co[k].pc = "create"
  /\ \E c \in Customers :
       /\ \A j \in Checkouts : co[j].cust # c
       /\ co' = [co EXCEPT ![k].pc = "save", ![k].cust = c]
  /\ UNCHANGED orgCust /\ CheckoutUnchanged

SaveCustomer(k) ==
  /\ co[k].pc = "save"
  /\ orgCust' = [orgCust EXCEPT ![co[k].org] = co[k].cust]
  /\ co' = [co EXCEPT ![k].pc = "session"]
  /\ CheckoutUnchanged

-----------------------------------------------------------------------------
(* Stripe.                                                                 *)

Event(type, s, st, p) ==
  [type |-> type, sub |-> s, org |-> sub'[s].org, cust |-> sub'[s].cust, status |-> st, plan |-> p]

\* A subscription changes and the events that tell of it are logged.
Emit(s, types, st, p) ==
  /\ Len(log) + Len(types) <= MaxEvents
  /\ sub' = [sub EXCEPT ![s].status = st, ![s].plan = p]
  /\ log' = log \o [i \in DOMAIN types |-> Event(types[i], s, st, p)]
  /\ UNCHANGED <<dbVars, co, h, histVars, trouble>>

\* The customer completes the Checkout page.
Subscribe(s, k, p) ==
  /\ co[k].pc = "session" /\ sub[s].status = None /\ Len(log) + 2 <= MaxEvents
  /\ SingleSub => \A x \in Subs : sub[x].org = co[k].org => ~Live(x)
  /\ sub' = [sub EXCEPT ![s] = [status |-> "active", plan |-> p, org |-> co[k].org, cust |-> co[k].cust]]
  /\ co' = [co EXCEPT ![k].pc = "used"]
  /\ log' = log \o <<Event("checkout", s, "active", p), Event("upsert", s, "active", p)>>
  /\ UNCHANGED <<dbVars, h, histVars, trouble>>

StripeStep(s) ==
  \/ \E p \in PricePlans : Live(s) /\ p # sub[s].plan /\ Emit(s, <<"upsert">>, sub[s].status, p)
  \/ sub[s].status = "active" /\ Emit(s, <<"failed", "upsert">>, "past_due", sub[s].plan)
  \/ sub[s].status = "past_due" /\ Emit(s, <<"upsert">>, "unpaid", sub[s].plan)
  \/ sub[s].status \in {"past_due", "unpaid"} /\ Emit(s, <<"paid", "upsert">>, "active", sub[s].plan)
  \/ sub[s].status = "active" /\ Emit(s, <<"paid">>, "active", sub[s].plan)
  \/ Live(s) /\ Emit(s, <<"deleted">>, "canceled", sub[s].plan)

-----------------------------------------------------------------------------
(* HandleWebhook, one store call per step.                                 *)

ev(w) == log[h[w].ev]
HandlerUnchanged == UNCHANGED <<co, stripeVars>>

\* dispatch returned nil: 200.
Finish(w) ==
  /\ h' = [h EXCEPT ![w] = Idle]
  /\ acked' = acked \cup {h[w].ev} /\ applied' = applied \cup {h[w].ev}
  /\ UNCHANGED <<broken, trouble>>

\* dispatch returned an error: 500.
Refuse(w) ==
  /\ h' = [h EXCEPT ![w] = Idle]
  /\ broken' = broken \cup {h[w].ev}
  /\ UNCHANGED <<acked, applied, trouble>>

GoTo(w, pc, o, r) ==
  /\ h' = [h EXCEPT ![w].pc = pc, ![w].org = o, ![w].row = r]
  /\ UNCHANGED <<histVars, trouble>>

Deliver(w, i) ==
  /\ h[w].pc = "idle"
  /\ InOrder => 1..(i - 1) \subseteq acked /\ \A x \in Handlers : h[x].pc = "idle"
  /\ LET again == i \in acked \/ \E x \in Handlers : h[x].ev = i
     IN (again => trouble < MaxTrouble) /\ trouble' = IF again THEN trouble + 1 ELSE trouble
  /\ h' = [h EXCEPT ![w] = [Idle EXCEPT !.pc = "mark", !.ev = i]]
  /\ UNCHANGED <<dbVars, co, stripeVars, histVars>>

\* INSERT ... ON CONFLICT DO NOTHING, and which event is new.
\* Faulty: a high-water mark, so an event that arrives after a newer one is no news.
MarkEventHighWater(i, done) == done \cup 1..i
MarkEventProcessed(i, done) == done \cup {i}

dispatch(type) ==
  CASE type = "checkout"            -> "setcust"
    [] type \in {"upsert", "deleted"} -> "resolve"
    [] type \in {"paid", "failed"}    -> "find"

\* duplicate_ignored: 200.
Duplicate(w) ==
  /\ h' = [h EXCEPT ![w] = Idle]
  /\ acked' = acked \cup {h[w].ev}
  /\ UNCHANGED <<applied, broken>>

Mark(w) ==
  /\ h[w].pc = "mark"
  /\ processed' = MarkEventProcessed(h[w].ev, processed)
  /\ IF h[w].ev \in processed
     THEN Duplicate(w)
     ELSE h' = [h EXCEPT ![w].pc = dispatch(ev(w).type)] /\ UNCHANGED histVars
  /\ UNCHANGED <<orgPlan, orgCust, row, trouble>> /\ HandlerUnchanged

onCheckoutCompleted(w) ==
  /\ h[w].pc = "setcust"
  /\ orgCust' = [orgCust EXCEPT ![ev(w).org] = ev(w).cust]
  /\ Finish(w)
  /\ UNCHANGED <<orgPlan, row, processed>> /\ HandlerUnchanged

\* Faulty: an org without a customer matches any.
OrgsOfAnyCustomer(c) == {o \in Orgs : orgCust[o] \in {c, None}}
OrgsOfCustomer(c) == {o \in Orgs : orgCust[o] = c}

\* resolveOrgID: the metadata, or else the customer; not found is an error.
resolveOrgID(w) ==
  LET next == IF ev(w).type = "deleted" THEN "plan" ELSE "org"
  IN /\ h[w].pc = "resolve"
     /\ \/ ev(w).sub \in Tagged /\ GoTo(w, next, ev(w).org, NoRow)
        \/ /\ ev(w).sub \notin Tagged
           /\ \/ \E o \in OrgsOfCustomer(ev(w).cust) : GoTo(w, next, o, NoRow)
              \/ OrgsOfCustomer(ev(w).cust) = {} /\ Refuse(w)
     /\ UNCHANGED dbVars /\ HandlerUnchanged

Upserted(w) == [sub |-> ev(w).sub, cust |-> ev(w).cust, plan |-> ev(w).plan, status |-> ev(w).status]

\* onSubscriptionUpsert keeps the org's customer in step: GetOrg, whose error only
\* skips the link,
GetOrg(w) ==
  /\ h[w].pc = "org"
  /\ \/ /\ orgCust[h[w].org] # ev(w).cust
        /\ GoTo(w, "link", h[w].org, Upserted(w))
     \/ /\ orgCust[h[w].org] = ev(w).cust
        /\ GoTo(w, "upsert", h[w].org, Upserted(w))
  /\ UNCHANGED dbVars /\ HandlerUnchanged

GetOrgFails(w) ==
  /\ h[w].pc = "org" /\ MayFail /\ trouble < MaxTrouble
  /\ trouble' = trouble + 1
  /\ h' = [h EXCEPT ![w].pc = "upsert", ![w].row = Upserted(w)]
  /\ UNCHANGED <<dbVars, histVars>> /\ HandlerUnchanged

\* and the write when the customer differs from the one just read.
SetOrgStripeCustomer(w) ==
  /\ h[w].pc = "link"
  /\ orgCust' = [orgCust EXCEPT ![h[w].org] = ev(w).cust]
  /\ GoTo(w, "upsert", h[w].org, h[w].row)
  /\ UNCHANGED <<orgPlan, row, processed>> /\ HandlerUnchanged

\* Faulty: past_due loses the plan at once.
derivePlanNoGrace(status, plan) == IF status = "active" THEN plan ELSE "free"
\* Faulty: an unconfigured price is stored as it is.
derivePlanUnmapped(status, plan) == IF plan = None THEN "" ELSE plan
derivePlan(status, plan) ==
  CASE status = "active"                 -> plan
    [] status \in {"canceled", "unpaid"} -> "free"
    [] OTHER                             -> None

\* The plan a handler writes to orgs.plan, None for no write.
Target(w) ==
  CASE ev(w).type = "deleted" -> "free"
    [] ev(w).type = "upsert"  -> derivePlan(h[w].row.status, h[w].row.plan)
    [] ev(w).type = "paid"    -> h[w].row.plan
    [] ev(w).type = "failed"  -> None

UpsertSubscription(w) ==
  /\ h[w].pc = "upsert"
  /\ row' = [row EXCEPT ![h[w].org] = h[w].row]
  /\ IF Target(w) = None THEN Finish(w) ELSE GoTo(w, "plan", h[w].org, h[w].row)
  /\ UNCHANGED <<orgPlan, orgCust, processed>> /\ HandlerUnchanged

UpdateOrgPlan(w) ==
  /\ h[w].pc = "plan"
  /\ orgPlan' = [orgPlan EXCEPT ![h[w].org] = Target(w)]
  /\ IF ev(w).type = "deleted" THEN GoTo(w, "drop", h[w].org, NoRow) ELSE Finish(w)
  /\ UNCHANGED <<orgCust, row, processed>> /\ HandlerUnchanged

\* The row that names the subscription; none is ErrNotFound, which is ignored.
WithoutSub(s) == [o \in Orgs |-> IF row[o].sub = s THEN NoRow ELSE row[o]]

DeleteSubscription(w) ==
  /\ h[w].pc = "drop"
  /\ row' = WithoutSub(ev(w).sub)
  /\ Finish(w)
  /\ UNCHANGED <<orgPlan, orgCust, processed>> /\ HandlerUnchanged

\* onInvoicePaid, onInvoicePaymentFailed: an unknown customer is ignored.
GetOrgByStripeCustomer(w) ==
  /\ h[w].pc = "find"
  /\ \/ \E o \in OrgsOfCustomer(ev(w).cust) : GoTo(w, "row", o, NoRow)
     \/ OrgsOfCustomer(ev(w).cust) = {} /\ Finish(w)
  /\ UNCHANGED dbVars /\ HandlerUnchanged

\* What the handler will write back is the row as read here.
GetSubscriptionForOrg(w) ==
  LET r == row[h[w].org]
      past == [r EXCEPT !.status = "past_due"]
      paid == [r EXCEPT !.status = "active"]
  IN /\ h[w].pc = "row"
     /\ CASE r = NoRow                -> Finish(w)
          [] r # NoRow /\ ev(w).type = "failed" -> GoTo(w, "upsert", h[w].org, past)
          [] r # NoRow /\ ev(w).type = "paid" /\ r.status \in {"past_due", "unpaid"} ->
               GoTo(w, "upsert", h[w].org, paid)
          [] OTHER -> IF r.plan = None THEN Finish(w) ELSE GoTo(w, "plan", h[w].org, r)
     /\ UNCHANGED dbVars /\ HandlerUnchanged

\* A store call fails (500), or the process dies, between two steps.
Fault(w) ==
  /\ h[w].pc # "idle" /\ MayFail /\ trouble < MaxTrouble
  /\ trouble' = trouble + 1
  /\ h' = [h EXCEPT ![w] = Idle]
  /\ broken' = IF h[w].pc = "mark" THEN broken ELSE broken \cup {h[w].ev}
  /\ UNCHANGED <<dbVars, acked, applied>> /\ HandlerUnchanged

HandlerStep(w) ==
  \/ Mark(w) \/ onCheckoutCompleted(w) \/ resolveOrgID(w) \/ GetOrg(w) \/ SetOrgStripeCustomer(w)
  \/ UpsertSubscription(w) \/ UpdateOrgPlan(w) \/ DeleteSubscription(w)
  \/ GetOrgByStripeCustomer(w) \/ GetSubscriptionForOrg(w)

Next ==
  \/ \E k \in Checkouts :
       (\E o \in Orgs : CheckoutStart(k, o)) \/ CreateCustomer(k) \/ SaveCustomer(k)
  \/ \E s \in Subs : StripeStep(s) \/ \E k \in Checkouts, p \in PricePlans : Subscribe(s, k, p)
  \/ \E w \in Handlers :
       HandlerStep(w) \/ GetOrgFails(w) \/ Fault(w) \/ \E i \in DOMAIN log : Deliver(w, i)

Spec == Init /\ [][Next]_vars

-----------------------------------------------------------------------------
Rows == [sub : Subs \cup {None}, cust : Customers \cup {None}, plan : PricePlans \cup {None},
         status : Statuses \cup {None}]

\* Every table and every handler of HandleWebhook stays within its type; a price
\* that is not configured never reaches orgs.plan.
TypeOK ==
  /\ orgPlan \in [Orgs -> (PricePlans \ {None}) \cup {"free"}]
  /\ orgCust \in [Orgs -> Customers \cup {None}]
  /\ row \in [Orgs -> Rows]
  /\ processed \subseteq DOMAIN log
  /\ acked \subseteq DOMAIN log
  /\ h \in [Handlers -> [pc : {"idle", "mark", "setcust", "resolve", "org", "link", "upsert", "plan",
                               "drop", "find", "row"},
                         ev : 0..Len(log), org : Orgs \cup {None}, row : Rows]]
  /\ \A s \in Subs : sub[s].status \in Statuses \cup {None} /\ sub[s].org \in Orgs \cup {None}

\* What an org holds, it bought: a row is an upsert event of one of that org's own
\* subscriptions, its subscription, customer and plan together, and a paid plan is
\* the plan of such an event, whichever handlers interleave and whichever way the
\* org was found (resolveOrgID, GetOrgByStripeCustomer, GetSubscriptionForOrg).
Bought(o) == {log[i] : i \in {j \in processed : log[j].type = "upsert" /\ log[j].org = o}}
PlanBought ==
  \A o \in Orgs :
    /\ row[o] # NoRow => \E e \in Bought(o) :
         row[o].sub = e.sub /\ row[o].cust = e.cust /\ row[o].plan = e.plan
    /\ orgPlan[o] # "free" => \E e \in Bought(o) : orgPlan[o] = e.plan

Quiet == acked = DOMAIN log /\ \A w \in Handlers : h[w].pc = "idle"
LiveSubs(o) == {s \in Subs : sub[s].org = o /\ Live(s)}

\* The plan of a subscription when it was last active.
PaidPlan(s) == log[Max({i \in DOMAIN log : log[i].sub = s /\ log[i].status = "active"})].plan

\* The row and orgs.plan mirror the org's one Stripe subscription once every
\* event has been answered: active has its plan, past_due keeps the plan it had
\* when last active even if the price has changed since, unpaid and deleted fall
\* back to Free, and no row outlives its subscription (derivePlan).
MirrorsStripe ==
  Quiet => \A o \in Orgs :
    /\ LiveSubs(o) = {} /\ None \notin PricePlans => row[o] = NoRow /\ orgPlan[o] = "free"
    /\ \A s \in LiveSubs(o) : None \notin {sub[s].plan, PaidPlan(s)} =>
         /\ row[o] = [sub |-> s, cust |-> sub[s].cust, plan |-> sub[s].plan, status |-> sub[s].status]
         /\ orgPlan[o] = IF sub[s].status = "unpaid" THEN "free" ELSE PaidPlan(s)

\* An event is answered 200 only when its handler is at work on it, has applied it
\* or has failed over it: duplicates, and events that overtake one another, make
\* the dedupe drop no other event (HandleWebhook, MarkEventProcessed).
AnsweredAccounted ==
  \A i \in acked :
    i \in applied \cup broken \/ \E w \in Handlers : h[w].ev = i /\ h[w].pc # "mark"

-----------------------------------------------------------------------------
(* Statements of the repository that the code does not keep: TLC refutes   *)
(* each of them.                                                           *)

\* An event that was answered 200 has been applied: "Return 500 so Stripe
\* retries transient failures" (HandleWebhook).
AnsweredMeansApplied == acked \subseteq applied

\* An org that pays keeps a paid plan, also when it changed plans by a second
\* checkout and the first subscription has ended (HandleCheckout).
PayingOrgKeepsPlan ==
  Quiet => \A o \in Orgs : (\E s \in LiveSubs(o) : sub[s].status = "active") => orgPlan[o] # "free"
=============================================================================
