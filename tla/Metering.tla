------------------------------ MODULE Metering ------------------------------
(***************************************************************************)
(* Metered billing (internal/billing/metering.go) over the Postgres store: *)
(* usage records are rolled up into metered_usage rows, one per org,       *)
(* metric and month, and the rows are pushed to Stripe's meters.  Every    *)
(* API replica runs its own RunMeteringLoop; every store or Stripe call is *)
(* one step.  Stripe is external: it drops an identifier it has accepted   *)
(* within its deduplication period, and takes it for new afterwards.       *)
(***************************************************************************)
EXTENDS Integers, FiniteSets, FiniteSetsExt

CONSTANTS Orgs, Metrics, Loops,
          Wired,          \* metrics with a configured Stripe meter
          Linked,         \* orgs that have a Stripe customer from the start
          Limit,          \* rows a flush reads, 500 in the code
          DedupPeriod,    \* clock ticks Stripe remembers an identifier for
          TicksPerMonth,  \* clock ticks in a calendar month
          MaxTime, MaxUsage, MaxFaults

ASSUME MeteringAssumption ==
  /\ Wired \subseteq Metrics /\ Linked \subseteq Orgs
  /\ {Limit, TicksPerMonth, MaxTime} \subseteq Nat \ {0} /\ DedupPeriod \in Nat
  /\ {MaxUsage, MaxFaults} \subseteq Nat

monthStart(t) == t \div TicksPerMonth
Months == 0..monthStart(MaxTime)
Keys == Orgs \X Metrics \X Months
NoRow == [id |-> 0, qty |-> 0, reported |-> FALSE]
Start == [pc |-> "idle", start |-> 0, orgs |-> {}, org |-> {}, qty |-> [x \in Metrics |-> 0],
          keys |-> {}, pushed |-> {}]

VARIABLES
  now,
  payg, cust,     \* orgs on the Pay-as-you-go plan, orgs with a customer
  usage,          \* usage_records, summed by org, metric and month of window_end
  rows,           \* metered_usage, NoRow where there is none
  loop,           \* the metering loops
  seen, charged,  \* Stripe: identifiers accepted and when, quantity charged
  read,           \* history: what the last roll-up of a month read
  faults

vars == <<now, payg, cust, usage, rows, loop, seen, charged, read, faults>>
worldVars == <<now, payg, cust, usage>>
stripeVars == <<seen, charged>>

Init ==
  /\ now = 0 /\ payg = Orgs /\ cust = Linked
  /\ usage = [k \in Keys |-> 0]
  /\ rows = [k \in Keys |-> NoRow]
  /\ loop = [l \in Loops |-> Start]
  /\ seen = {} /\ charged = [k \in Keys |-> 0]
  /\ read = [k \in Keys |-> 0]
  /\ faults = 0

-----------------------------------------------------------------------------
(* The world: time, usage reports (window_end may lie one tick back), plan *)
(* changes and customers.                                                  *)

UpsertUsage(o, x) ==
  \E t \in {now, now - 1} \cap Nat :
    LET k == <<o, x, monthStart(t)>>
    IN /\ usage[k] < MaxUsage
       /\ usage' = [usage EXCEPT ![k] = @ + 1]
       /\ UNCHANGED <<now, payg, cust, rows, loop, stripeVars, read, faults>>

World ==
  /\ \/ now < MaxTime /\ now' = now + 1 /\ UNCHANGED <<payg, cust>>
     \/ \E o \in Orgs :
          /\ payg' = IF o \in payg THEN payg \ {o} ELSE payg \cup {o}
          /\ UNCHANGED <<now, cust>>
     \/ cust # Orgs /\ (\E o \in Orgs : cust' = cust \cup {o}) /\ UNCHANGED <<now, payg>>
  /\ UNCHANGED <<usage, rows, loop, stripeVars, read, faults>>

-----------------------------------------------------------------------------
(* RunMeteringLoop.                                                        *)

\* The ticker fires: the window is [monthStart(now), now).
Tick(l) ==
  /\ loop[l].pc = "idle"
  /\ loop' = [loop EXCEPT ![l] = [Start EXCEPT !.pc = "orgs", !.start = monthStart(now)]]
  /\ UNCHANGED <<worldVars, rows, stripeVars, read, faults>>

\* CollectMeteredUsage: OrgsByPlan.
OrgsByPlan(l) ==
  /\ loop[l].pc = "orgs"
  /\ loop' = [loop EXCEPT ![l].pc = "collect", ![l].orgs = payg]
  /\ UNCHANGED <<worldVars, rows, stripeVars, read, faults>>

\* UsageForOrg sums the records with window_end >= since.
UsageForOrg(o, x, since) == MapThenSumSet(LAMBDA m : usage[<<o, x, m>>], {m \in Months : m >= since})

\* collectForOrg: one read, then an insert per metric with a quantity.
ReadUsage(l, o) ==
  LET qty == [x \in Metrics |-> UsageForOrg(o, x, loop[l].start)]
  IN /\ loop[l].pc = "collect" /\ loop[l].org = {} /\ o \in loop[l].orgs
     /\ loop' = [loop EXCEPT ![l].orgs = @ \ {o}, ![l].qty = qty,
                             ![l].org = {o} \X {x \in Metrics : qty[x] > 0} \X {loop[l].start}]
     /\ read' = [k \in Keys |-> IF k \in loop'[l].org THEN qty[k[2]] ELSE read[k]]
     /\ UNCHANGED <<worldVars, rows, stripeVars, faults>>

Inserted == {k \in Keys : rows[k] # NoRow}

\* Ids grow.  A row of the same org, metric and window start is a conflict, which
\* is skipped.
InsertMeteredUsage(k, q) ==
  IF rows[k] = NoRow
  THEN [rows EXCEPT ![k] = [id |-> Cardinality(Inserted) + 1, qty |-> q, reported |-> FALSE]]
  ELSE rows

Insert(l, k) ==
  /\ loop[l].pc = "collect" /\ k \in loop[l].org
  /\ rows' = InsertMeteredUsage(k, loop[l].qty[k[2]])
  /\ loop' = [loop EXCEPT ![l].org = @ \ {k}]
  /\ UNCHANGED <<worldVars, stripeVars, read, faults>>

Unreported == {k \in Inserted : ~rows[k].reported}
Older(k) == {j \in Unreported : rows[j].id < rows[k].id}

\* ORDER BY id LIMIT: the oldest unreported rows.
\* Faulty: newest first.
NewestBatch == {k \in Unreported : Cardinality({j \in Unreported : rows[j].id > rows[k].id}) < Limit}
Batch == {k \in Unreported : Cardinality(Older(k)) < Limit}

\* FlushMeteredUsage reads a batch of the rows as they are now.
PendingMeteredUsage(l) ==
  /\ loop[l].pc = "collect" /\ loop[l].orgs = {} /\ loop[l].org = {}
  /\ loop' = [loop EXCEPT ![l].pc = "push", ![l].keys = Batch]
  /\ UNCHANGED <<worldVars, rows, stripeVars, read, faults>>

\* Faulty: the identifier differs from push to push.
meterIdentifierStamped(k) == <<k, now>>
meterIdentifier(k) == k

\* CreateMeterEvent reaches Stripe.
Known(k) == \E t \in 0..now : <<meterIdentifier(k), t>> \in seen /\ now < t + DedupPeriod
Charged(k) ==
  IF Known(k) THEN UNCHANGED stripeVars
  ELSE /\ seen' = seen \cup {<<meterIdentifier(k), now>>}
       /\ charged' = [charged EXCEPT ![k] = @ + rows[k].qty]

\* A metric without a meter and an org without a customer stay pending.
\* Faulty: looks for the customer once, at the start.
PushSkipsLate(l, k) == k[2] \notin Wired \/ k[1] \notin Linked
PushSkips(l, k) == k[2] \notin Wired \/ k[1] \notin cust

Push(l, k) ==
  /\ loop[l].pc = "push" /\ k \in loop[l].keys
  /\ loop' = [loop EXCEPT ![l].keys = @ \ {k},
                          ![l].pushed = IF PushSkips(l, k) THEN @ ELSE @ \cup {k}]
  /\ IF PushSkips(l, k) THEN UNCHANGED stripeVars ELSE Charged(k)
  /\ UNCHANGED <<worldVars, rows, read, faults>>

\* The push failed, before or after Stripe took it; the row stays pending.
PushFails(l, k) ==
  /\ loop[l].pc = "push" /\ k \in loop[l].keys /\ ~PushSkips(l, k)
  /\ faults < MaxFaults /\ faults' = faults + 1
  /\ loop' = [loop EXCEPT ![l].keys = @ \ {k}]
  /\ Charged(k) \/ UNCHANGED stripeVars
  /\ UNCHANGED <<worldVars, rows, read>>

\* Faulty: marks rows that were not pushed.
MarkAllReported(ks) == [k \in Keys |-> [rows[k] EXCEPT !.reported = rows[k] # NoRow]]
MarkReported(ks) == [k \in Keys |-> IF k \in ks THEN [rows[k] EXCEPT !.reported = TRUE] ELSE rows[k]]

MarkMeteredUsageReported(l) ==
  /\ loop[l].pc = "push" /\ loop[l].keys = {}
  /\ rows' = MarkReported(loop[l].pushed)
  /\ loop' = [loop EXCEPT ![l] = Start]
  /\ UNCHANGED <<worldVars, stripeVars, read, faults>>

\* A store call fails: listing the orgs or reading one org's usage skips it, an
\* insert abandons the org's other metrics, and a failing flush ends unmarked.
Fault(l) ==
  LET f == loop[l]
      Then(g) == loop' = [loop EXCEPT ![l] = g]
  IN /\ faults < MaxFaults /\ faults' = faults + 1
     /\ \/ f.pc = "orgs" /\ Then([f EXCEPT !.pc = "collect"])
        \/ f.pc = "collect" /\ f.org # {} /\ Then([f EXCEPT !.org = {}])
        \/ f.pc = "collect" /\ f.org = {} /\ \E o \in f.orgs : Then([f EXCEPT !.orgs = @ \ {o}])
        \/ f.pc = "collect" /\ f.org = {} /\ f.orgs = {} /\ Then(Start)
        \/ f.pc = "push" /\ f.keys = {} /\ Then(Start)
     /\ UNCHANGED <<worldVars, rows, stripeVars, read>>

\* The replica dies and starts again.
Crash(l) ==
  /\ loop[l].pc # "idle" /\ faults < MaxFaults /\ faults' = faults + 1
  /\ loop' = [loop EXCEPT ![l] = Start]
  /\ UNCHANGED <<worldVars, rows, stripeVars, read>>

LoopStep(l) ==
  \/ Tick(l) \/ OrgsByPlan(l) \/ PendingMeteredUsage(l) \/ MarkMeteredUsageReported(l)
  \/ \E o \in Orgs : ReadUsage(l, o)
  \/ \E k \in Keys : Insert(l, k) \/ Push(l, k)

Next ==
  \/ World
  \/ \E o \in Orgs, x \in Metrics : UpsertUsage(o, x)
  \/ \E l \in Loops : LoopStep(l) \/ Fault(l) \/ Crash(l) \/ \E k \in Keys : PushFails(l, k)

\* time.Ticker keeps firing and Go runs every loop; nothing is assumed of the
\* world or of failures beyond their bound.
Spec == Init /\ [][Next]_vars /\ \A l \in Loops : WF_vars(LoopStep(l))

-----------------------------------------------------------------------------
\* Every table of the metering loop stays within its type.
TypeOK ==
  /\ usage \in [Keys -> 0..MaxUsage]
  /\ \A k \in Keys : rows[k].qty \in 0..(MaxUsage * Cardinality(Months)) /\ rows[k].reported \in BOOLEAN
                    /\ rows[k].id \in 0..Cardinality(Keys)
  /\ \A l \in Loops : loop[l].pc \in {"idle", "orgs", "collect", "push"} /\ loop[l].keys \subseteq Keys
  /\ seen \subseteq Keys \X (0..MaxTime)

\* "A retry after a partial failure never double-counts" (FlushMeteredUsage):
\* with several replicas, lost answers and crashes between the push and the
\* mark, a window is charged its row's quantity once or not at all,
ChargedOnce == \A k \in Keys : charged[k] \in {0, rows[k].qty}

\* and a row is marked reported only when Stripe has it.
ReportedMeansCharged ==
  \A k \in Keys : rows[k].reported => charged[k] = rows[k].qty /\ charged[k] > 0

\* Rows that a flush reads and skips, for as long as nobody configures their meter
\* or links their org's customer.
Stuck == {k \in Unreported : k[2] \notin Wired \/ k[1] \notin cust}

\* A row that can be pushed is reported in the end, across lost answers, crashes and
\* replicas that flush the same rows, unless rows older than it that cannot be pushed
\* fill the batch (FlushMeteredUsage leaves those pending and reads 500 rows by id).
PendingReported ==
  \A k \in Keys :
    k \in Inserted \ Stuck ~> rows[k].reported \/ Cardinality(Older(k) \cap Stuck) >= Limit

-----------------------------------------------------------------------------
(* Statements of the repository that the code does not keep: TLC refutes   *)
(* each of them.                                                           *)

\* What a finished round has read of a month has been charged: the loop
\* "collects the current period's metered usage and flushes it to Stripe"
\* (RunMeteringLoop).
RoundCharged ==
  (\A l \in Loops : loop[l].pc = "idle") =>
    \A k \in Keys : k[1] \in cust /\ k[2] \in Wired => charged[k] >= read[k]

\* "FlushMeteredUsage pushes pending metered_usage rows to Stripe" (metering.go:67):
\* a row whose metric has a meter and whose org has a customer is reported in the end.
EveryRowReported == \A k \in Keys : k \in Inserted \ Stuck ~> rows[k].reported

\* A row of the window [start, end) holds usage of that window only
\* (CollectMeteredUsage).
RowWithinWindow == \A k \in Keys : rows[k].qty <= usage[k]
=============================================================================
