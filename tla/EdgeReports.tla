----------------------------- MODULE EdgeReports -----------------------------
(***************************************************************************)
(* What an edge tells the control API of its tunnels: an open and a close  *)
(* report for the history (internal/server/server.go, api/rpc.go and the   *)
(* tunnel_sessions table) and usage windows for billing (usage.go).  Each  *)
(* tunnel report is sent by a goroutine of its own, so reports overtake    *)
(* each other; nothing that fails is sent again.  A connection counts one  *)
(* unit of traffic when it ends.                                           *)
(***************************************************************************)
EXTENDS Naturals, FiniteSets, Sequences, SequencesExt

CONSTANTS Tunnels,   \* the (edge, session, tunnel) triples
          MaxBinds,  \* bindings of one triple
          MaxOpens,  \* bindings of all triples
          MaxConns, MaxLost

ASSUME ReportsAssumption ==
  /\ {MaxBinds, MaxOpens, MaxConns} \subseteq Nat \ {0} /\ MaxLost \in Nat

Inst == Tunnels \X (1..MaxBinds)   \* the n-th binding of a triple

Row == [key : Tunnels, n : 1..MaxBinds, status : {"active", "closed"}, total : Nat]
Report == [action : {"open", "close"}, inst : Inst, total : Nat]
NoUsage == [k \in Tunnels |-> 0]

VARIABLES
  state,     \* a binding: new, live or released
  conns,     \* its open connections
  total,     \* boundTunnel's lifetime counter
  opened,    \* connections opened, to bound them
  flight,    \* reports on their way
  rows,      \* tunnel_sessions
  windows,   \* usageAgg.windows
  sending,   \* the windows flush has taken and not yet reported
  agg,       \* the aggregator: run, stop (its last flush) or stopped
  stored,    \* usage_records, summed
  recorded,  \* history: what was given to recordUsage
  overtaken, \* history: a report arrived before an older one of its triple
  lost

usageVars == <<windows, sending, agg, stored, recorded>>
tunnelVars == <<state, conns, total, opened>>
vars == <<tunnelVars, flight, rows, overtaken, usageVars, lost>>

Init ==
  /\ state = [i \in Inst |-> "new"] /\ conns = [i \in Inst |-> 0] /\ total = [i \in Inst |-> 0]
  /\ opened = 0 /\ flight = <<>> /\ rows = {}
  /\ windows = NoUsage /\ sending = NoUsage /\ agg = "run"
  /\ stored = NoUsage /\ recorded = NoUsage /\ overtaken = FALSE /\ lost = 0

-----------------------------------------------------------------------------
(* The edge                                                                *)

\* A bind succeeds: reportTunnelOpen.
reportTunnelOpen(i) ==
  /\ state[i] = "new" /\ agg = "run"
  /\ Cardinality({j \in Inst : state[j] # "new"}) < MaxOpens
  /\ \A n \in 1..(i[2] - 1) : state[<<i[1], n>>] = "released"
  /\ state' = [state EXCEPT ![i] = "live"]
  /\ flight' = Append(flight, [action |-> "open", inst |-> i, total |-> 0])
  /\ UNCHANGED <<conns, total, opened, rows, overtaken, usageVars, lost>>

\* releaseTunnel: reportTunnelClose with the counter as it is.
reportTunnelClose(i) ==
  /\ state[i] = "live"
  /\ state' = [state EXCEPT ![i] = "released"]
  /\ flight' = Append(flight, [action |-> "close", inst |-> i, total |-> total[i]])
  /\ UNCHANGED <<conns, total, opened, rows, overtaken, usageVars, lost>>

\* A connection is routed to a live tunnel; it may outlive the tunnel.
OpenConn(i) ==
  /\ state[i] = "live" /\ agg = "run" /\ opened < MaxConns
  /\ conns' = [conns EXCEPT ![i] = @ + 1] /\ opened' = opened + 1
  /\ UNCHANGED <<state, total, flight, rows, overtaken, usageVars, lost>>

\* Its end: usage.record and addTraffic.
recordUsage(i) ==
  /\ conns[i] > 0
  /\ conns' = [conns EXCEPT ![i] = @ - 1]
  /\ total' = [total EXCEPT ![i] = @ + 1]
  /\ windows' = [windows EXCEPT ![i[1]] = @ + 1]
  /\ recorded' = [recorded EXCEPT ![i[1]] = @ + 1]
  /\ UNCHANGED <<state, opened, flight, rows, overtaken, sending, agg, stored, lost>>

\* usageAgg.flush takes the windows and starts new ones; run flushes on a
\* tick and, when Stop closes its channel, once more before it ends.
\* Faulty: the windows are not replaced.
FlushedCopy == windows
Flushed == NoUsage

flush ==
  /\ agg = "run" /\ sending = NoUsage /\ windows # NoUsage
  /\ sending' = windows /\ windows' = Flushed
  /\ UNCHANGED <<tunnelVars, flight, rows, overtaken, agg, stored, recorded, lost>>

\* drain has closed the listeners and calls usage.Stop.
Stop ==
  /\ agg = "run" /\ sending = NoUsage
  /\ agg' = "stop" /\ sending' = windows /\ windows' = Flushed
  /\ UNCHANGED <<tunnelVars, flight, rows, overtaken, stored, recorded, lost>>

StopDone ==
  /\ agg = "stop" /\ sending = NoUsage
  /\ agg' = "stopped"
  /\ UNCHANGED <<tunnelVars, flight, rows, overtaken, windows, sending, stored, recorded, lost>>

\* One ReportUsage of a flush; UpsertUsage adds a row.  An error is ignored.
ReportUsage(k) ==
  /\ sending[k] > 0
  /\ sending' = [sending EXCEPT ![k] = 0]
  /\ \/ stored' = [stored EXCEPT ![k] = @ + sending[k]] /\ UNCHANGED lost
     \/ lost < MaxLost /\ lost' = lost + 1 /\ UNCHANGED stored
  /\ UNCHANGED <<tunnelVars, flight, rows, overtaken, windows, agg, recorded>>

-----------------------------------------------------------------------------
(* The control API                                                         *)

ActiveRows(k) == {r \in rows : r.key = k /\ r.status = "active"}

\* An upsert on the triple's active row, if there is one; its counters are
\* zero until it is closed.
\* Faulty: an insert without ON CONFLICT.
RecordTunnelOpenAgain(i) ==
  rows \cup {[key |-> i[1], n |-> i[2], status |-> "active", total |-> 0]}
RecordTunnelOpen(i) ==
  (rows \ ActiveRows(i[1])) \cup {[key |-> i[1], n |-> i[2], status |-> "active", total |-> 0]}

\* Closes the active row of the triple; without one, nothing.
\* Faulty: the update is not keyed.
CloseTunnelSessionAll(k, t) ==
  {IF r.status = "active" THEN [r EXCEPT !.status = "closed", !.total = t] ELSE r : r \in rows}
CloseTunnelSession(k, t) ==
  (rows \ ActiveRows(k)) \cup {[r EXCEPT !.status = "closed", !.total = t] : r \in ActiveRows(k)}

\* rpcReportTunnel: a report arrives, or it or its storing fails.
rpcReportTunnel(j) ==
  LET m == flight[j]
  IN /\ overtaken' = (overtaken \/ \E h \in 1..(j - 1) : flight[h].inst[1] = m.inst[1])
     /\ flight' = RemoveAt(flight, j)
     /\ \/ /\ rows' = IF m.action = "open" THEN RecordTunnelOpen(m.inst)
                      ELSE CloseTunnelSession(m.inst[1], m.total)
           /\ UNCHANGED lost
        \/ lost < MaxLost /\ lost' = lost + 1 /\ UNCHANGED rows
     /\ UNCHANGED <<tunnelVars, usageVars>>

-----------------------------------------------------------------------------

Next ==
  \/ \E i \in Inst : reportTunnelOpen(i) \/ reportTunnelClose(i) \/ OpenConn(i) \/ recordUsage(i)
  \/ flush \/ Stop \/ StopDone
  \/ \E k \in Tunnels : ReportUsage(k)
  \/ \E j \in DOMAIN flight : rpcReportTunnel(j)

Spec == Init /\ [][Next]_vars

-----------------------------------------------------------------------------
(* Properties                                                              *)

TypeOK ==
  /\ state \in [Inst -> {"new", "live", "released"}]
  /\ conns \in [Inst -> 0..MaxConns] /\ total \in [Inst -> 0..MaxConns] /\ opened \in 0..MaxConns
  /\ flight \in Seq(Report) /\ rows \subseteq Row
  /\ windows \in [Tunnels -> 0..MaxConns] /\ sending \in [Tunnels -> 0..MaxConns]
  /\ stored \in [Tunnels -> 0..MaxConns] /\ recorded \in [Tunnels -> 0..MaxConns]
  /\ agg \in {"run", "stop", "stopped"} /\ overtaken \in BOOLEAN /\ lost \in 0..MaxLost

\* Whatever is lost or overtakes, a triple has at most one active row, so that
\* an "open" upsert and a keyed "close" meet one row (00004_tunnel_sessions.sql:33),
\* and a close never reopens or alters the history of another triple: closed
\* rows of a triple are no more than its releases.
HistoryKeyed ==
  \A k \in Tunnels :
    /\ Cardinality(ActiveRows(k)) <= 1
    /\ Cardinality({r \in rows : r.key = k /\ r.status = "closed"})
         <= Cardinality({n \in 1..MaxBinds : state[<<k, n>>] = "released"})

\* Traffic is never billed twice: what is stored, being sent and waiting in a
\* window is at most what the connections recorded, and exactly that as long as
\* no report was lost (usage.go, flush swaps the windows under its lock).
UsageConserved ==
  \A k \in Tunnels : LET known == stored[k] + sending[k] + windows[k]
                     IN known <= recorded[k] /\ (lost = 0 => known = recorded[k])

Live(k) == \E n \in 1..MaxBinds : state[<<k, n>>] = "live"
Delivered == flight = <<>> /\ lost = 0

\* "the \"active\" set is the authoritative live list" (handlers_resources.go:269):
\* once every report has arrived, none was lost and none overtook another of its
\* triple, the active rows are the live tunnels.
ActiveIsLive == Delivered /\ ~overtaken => \A k \in Tunnels : (ActiveRows(k) # {}) <=> Live(k)

\* The row a release closes is its own: as long as no report was lost or
\* overtook another, the n-th closed row of a triple holds a total that its n-th
\* binding had reached (server.go:508, the counters are read at the release).
ClosedRowsOwn ==
  lost = 0 /\ ~overtaken => \A r \in rows :
    r.status = "closed" => /\ state[<<r.key, r.n>>] = "released"
                           /\ r.total <= total[<<r.key, r.n>>]

-----------------------------------------------------------------------------
(* Statements of the repository that the code does not keep: TLC refutes   *)
(* each of them.                                                           *)

\* ActiveIsLive without its last condition: a close that overtakes its open
\* finds no row, and the row the open then creates is never closed.
ActiveIsLiveAlways == Delivered => \A k \in Tunnels : (ActiveRows(k) # {}) <=> Live(k)

\* reportTunnelClose reports "final traffic totals" (server.go:495): once every
\* report has arrived and every connection has ended, a closed row holds what
\* its binding carried.
FinalTotals ==
  Delivered /\ (\A i \in Inst : conns[i] = 0) =>
    \A r \in rows : r.status = "closed" => r.total = total[<<r.key, r.n>>]

\* "Stop flushes and stops the aggregator" (usage.go:93): after drain, when the
\* connections it waits for have ended and no report was lost, all their traffic
\* is stored.
DrainReportsAll ==
  agg = "stopped" /\ lost = 0 /\ (\A i \in Inst : conns[i] = 0) => stored = recorded

=============================================================================
