---------------------------- MODULE EdgeRouting ----------------------------
(***************************************************************************)
(* The routing state of a set of trqshd edges that share one Redis         *)
(* registry: the in-process Hub, the public port pool, the tunnels of each *)
(* agent session, the shared route keys with their TTL, and the advertised *)
(* forwarding addresses.                                                   *)
(*                                                                         *)
(* Every agent session is served by one goroutine (serveSession), so its   *)
(* handlers run one after the other; goroutines of different sessions, the *)
(* presence loop, the drain and the clock interleave.  A handler is split  *)
(* exactly where it gives up a lock or makes a network call, and pc[s] is  *)
(* the place the goroutine has reached.  bt[t] is the boundTunnel object   *)
(* of tunnel t, tunnels[s] the map a.tunnels (and, once teardownSession    *)
(* has emptied that map, the local copy it still has to release): only the *)
(* session's own goroutine reads either.                                   *)
(*                                                                         *)
(* One Tick is one HeartbeatInterval.  The history reports a bind and a    *)
(* release spawn (reportTunnelOpen, reportTunnelClose) touch none of this  *)
(* state; EdgeReports models them.                                         *)
(*                                                                         *)
(* Definitions marked "Faulty" are not part of the model: each is a        *)
(* variant of the definition that follows it, and the run of a property is *)
(* repeated with it to see that the property notices the fault.            *)
(***************************************************************************)
EXTENDS Naturals, FiniteSets

CONSTANTS
  Edges,          \* edge IDs
  Sessions,       \* agent sessions; each connects once (newSessionID is fresh)
  Tunnels,        \* boundTunnel objects with their client tunnel ids.  Assumption: an
                  \* id names one tunnel of a session (the agent draws it at random,
                  \* "unique per session", rift.proto:50)
  Subdomains,     \* <label>.<base domain> hosts: reserved, assigned or random
  CustomDomains,  \* customer-owned hosts
  Ports,          \* "tcp:<n>" and "udp:<n>" keys inside the port range
  RedisMayFail,   \* whether a Redis command may fail (its error is dropped)
  Stopping,       \* the edges that may drain, crash and restart
  ClockRuns,      \* bound: FALSE restricts a run to less than one heartbeat
  None

ASSUME ConstantsAssumption ==
  /\ None \notin Edges \cup Sessions \cup Tunnels
  /\ None \notin Subdomains \cup CustomDomains \cup Ports
  /\ Subdomains \cap CustomDomains = {}
  /\ Ports \cap (Subdomains \cup CustomDomains) = {}
  /\ RedisMayFail \in BOOLEAN
  /\ Stopping \subseteq Edges
  /\ ClockRuns \in BOOLEAN

VARIABLES
  estate,    \* edge -> life cycle of its process
  pc,        \* session -> where its goroutine is
  home,      \* session -> the edge that serves it
  closing,   \* session -> controlLoop has returned, teardownSession runs
  cur,       \* session -> the tunnel its handler works on
  tunnels,   \* session -> its tracked tunnels
  bt,        \* tunnel -> boundTunnel (session and routing key)
  hub,       \* edge -> routing key -> tunnel   (Hub.byHost and Hub.byPort)
  used,      \* edge -> reserved ports          (portManager.usedTCP/usedUDP)
  lsn,       \* edge -> ports with a listener   (portManager.tcp/udp)
  reg,       \* routing key -> shared registry entry
  presence,  \* edge -> remaining TTL of its forwarding address, 0 if absent
  due,       \* edge -> the presence ticker has fired
  round,     \* edge -> where its presence loop is
  snap       \* edge -> routes the presence round has yet to refresh

sessVars == <<pc, home, closing, cur, tunnels, bt>>
tableVars == <<hub, used, lsn>>
presVars == <<presence, due, round, snap>>
vars == <<estate, sessVars, tableVars, reg, presVars>>

Hosts == Subdomains \cup CustomDomains
Routes == Hosts \cup Ports

\* edgeTTL and the TTL of Registry.Bind: twice the heartbeat.
RouteTTLOneBeat == 1   \* Faulty: a single heartbeat.
RouteTTL == 2

\* The value of a route key: the Binding, and the key's remaining TTL.
Entry(e, s, n) == [edge |-> e, sess |-> s, ttl |-> n]
NoEntry == Entry(None, None, 0)
NoBt == [sess |-> None, route |-> None]

Registered(r) == reg[r].ttl > 0
Up(e) == estate[e] = "up"

(***************************************************************************)
(* Redis.  A command issued with the server's context fails once that      *)
(* context is cancelled (the edge drains), and any command fails after the *)
(* client is closed.  Every caller drops the error.                        *)
(***************************************************************************)
CommandOutcomes(canSucceed) ==
  (IF canSucceed THEN {"ok"} ELSE {})
    \cup (IF RedisMayFail \/ ~canSucceed THEN {"failed"} ELSE {})

\* Bind: SET key value EX ttl, whoever held the key before.
RegBind(r, e, s) == [reg EXCEPT ![r] = Entry(e, s, RouteTTL)]

\* Unbind: DEL key, whoever holds it.
RegUnbindSkipped(r) == reg   \* Faulty: the key is left behind.
RegUnbind(r) == [reg EXCEPT ![r] = NoEntry]

\* RegisterEdge: SET key address EX ttl, also to renew it; UnregisterEdge: DEL.
\* Faulty: renews every advertised address.
RegisterAllEdges(e) ==
  [f \in Edges |-> IF f = e \/ presence[f] > 0 THEN RouteTTL ELSE 0]
RegisterEdge(e) == [presence EXCEPT ![e] = RouteTTL]
UnregisterEdge(e) == [presence EXCEPT ![e] = 0]

\* Refresh: EXPIRE key ttl, which does nothing to an absent key.
RegRefresh(r) ==
  IF Registered(r) THEN [reg EXCEPT ![r] = Entry(@.edge, @.sess, RouteTTL)] ELSE reg

(***************************************************************************)
(* Initially every edge is stopped and no agent has connected.             *)
(***************************************************************************)
Init ==
  /\ estate = [e \in Edges |-> "stopped"]
  /\ pc = [s \in Sessions |-> "none"]
  /\ home = [s \in Sessions |-> None]
  /\ closing = [s \in Sessions |-> FALSE]
  /\ cur = [s \in Sessions |-> None]
  /\ tunnels = [s \in Sessions |-> {}]
  /\ bt = [t \in Tunnels |-> NoBt]
  /\ hub = [e \in Edges |-> [r \in Routes |-> None]]
  /\ used = [e \in Edges |-> {}]
  /\ lsn = [e \in Edges |-> {}]
  /\ reg = [r \in Routes |-> NoEntry]
  /\ presence = [e \in Edges |-> 0]
  /\ due = [e \in Edges |-> FALSE]
  /\ round = [e \in Edges |-> "wait"]
  /\ snap = [e \in Edges |-> {}]

(***************************************************************************)
(* Session handlers.                                                       *)
(***************************************************************************)

\* serveSession up to addSession: handshake and authentication succeeded.
\* acceptAgents and Authenticate both stop once the edge drains.
Connect(s, e) ==
  /\ pc[s] = "none" /\ Up(e)
  /\ pc' = [pc EXCEPT ![s] = "idle"]
  /\ home' = [home EXCEPT ![s] = e]
  /\ UNCHANGED <<estate, closing, cur, tunnels, bt, tableVars, reg, presVars>>

\* A BindTunnel arrives and CheckBind allows it (it fails with the server's
\* context).  A refused bind answers an error and changes nothing.
CanBind(s, t) == pc[s] = "idle" /\ Up(home[s]) /\ bt[t] = NoBt

StartBind(s, t, r) ==
  /\ bt' = [bt EXCEPT ![t] = [sess |-> s, route |-> r]]
  /\ cur' = [cur EXCEPT ![s] = t]

\* allocateHost: a subdomain must be free in the hub, a custom domain is not
\* looked up.
Allocatable(e) == CustomDomains \cup {h \in Subdomains : hub[e][h] = None}

AllocateHost(s, t) ==
  /\ CanBind(s, t)
  /\ \E h \in Allocatable(home[s]) : StartBind(s, t, h)
  /\ pc' = [pc EXCEPT ![s] = "hub"]
  /\ UNCHANGED <<estate, home, closing, tunnels, tableVars, reg, presVars>>

\* portManager.reserve: the wanted port, or the first free one.
FreePortsUnchecked(e) == Ports   \* Faulty: used[want] is not tested.
FreePorts(e) == Ports \ used[e]

ReservePort(s, t) ==
  /\ CanBind(s, t)
  /\ \E p \in FreePorts(home[s]) :
       /\ StartBind(s, t, p)
       /\ used' = [used EXCEPT ![home[s]] = @ \cup {p}]
  /\ pc' = [pc EXCEPT ![s] = "listen"]
  /\ UNCHANGED <<estate, home, closing, tunnels, hub, lsn, reg, presVars>>

\* The rest of openTCPPort and openUDPPort: the socket opens and is recorded,
\* or the port goes back to the pool.
OpenPort(s) ==
  LET e == home[s]  p == bt[cur[s]].route
  IN /\ pc[s] = "listen"
     /\ \/ /\ lsn' = [lsn EXCEPT ![e] = @ \cup {p}]
           /\ pc' = [pc EXCEPT ![s] = "hub"]
           /\ UNCHANGED <<cur, used>>
        \/ /\ used' = [used EXCEPT ![e] = @ \ {p}]
           /\ pc' = [pc EXCEPT ![s] = "idle"]
           /\ cur' = [cur EXCEPT ![s] = None]
           /\ UNCHANGED lsn
     /\ UNCHANGED <<estate, home, closing, tunnels, bt, hub, reg, presVars>>

\* The conflict test of Hub.bindHost and Hub.bindPort: the key is held by a
\* tunnel of another session.
NeverTaken(s) == FALSE   \* Faulty: no conflict test, trusting allocateHost.
TakenByAnother(s) ==
  LET holder == hub[home[s]][bt[cur[s]].route]
  IN holder # None /\ bt[holder].sess # s

\* Hub.bindHost / Hub.bindPort, then trackTunnel or the error path (which
\* gives the port back).  trackTunnel overwrites the entry of its client tunnel
\* id; ids being fresh, there is none and the map only grows.
HubBind(s) ==
  LET e == home[s]  t == cur[s]  r == bt[t].route
  IN /\ pc[s] = "hub"
     /\ IF TakenByAnother(s)
          THEN /\ used' = [used EXCEPT ![e] = @ \ {r}]
               /\ lsn' = [lsn EXCEPT ![e] = @ \ {r}]
               /\ pc' = [pc EXCEPT ![s] = "idle"]
               /\ cur' = [cur EXCEPT ![s] = None]
               /\ UNCHANGED <<tunnels, hub>>
          ELSE /\ hub' = [hub EXCEPT ![e][r] = t]
               /\ tunnels' = [tunnels EXCEPT ![s] = @ \cup {t}]
               /\ pc' = [pc EXCEPT ![s] = "register"]
               /\ UNCHANGED <<cur, used, lsn>>
     /\ UNCHANGED <<estate, home, closing, bt, reg, presVars>>

\* The Registry.Bind that ends a successful bind.
Register(s) ==
  /\ pc[s] = "register"
  /\ \E out \in CommandOutcomes(Up(home[s])) :
       reg' = IF out = "ok" THEN RegBind(bt[cur[s]].route, home[s], s) ELSE reg
  /\ pc' = [pc EXCEPT ![s] = "idle"]
  /\ cur' = [cur EXCEPT ![s] = None]
  /\ UNCHANGED <<estate, home, closing, tunnels, bt, tableVars, presVars>>

\* Hub.unbind deletes the routing key, whichever tunnel it leads to.
\* Faulty: forgets byPort.
HubUnbindHostOnly(e, r) == IF r \in Hosts THEN [hub EXCEPT ![e][r] = None] ELSE hub
HubUnbind(e, r) == [hub EXCEPT ![e][r] = None]

\* The start of releaseTunnel, up to the first call that can block.
BeginRelease(s, t) ==
  LET r == bt[t].route
  IN /\ tunnels' = [tunnels EXCEPT ![s] = @ \ {t}]
     /\ hub' = HubUnbind(home[s], r)
     /\ cur' = [cur EXCEPT ![s] = t]
     /\ pc' = [pc EXCEPT ![s] = IF r \in Ports THEN "unport" ELSE "unregister"]
     /\ UNCHANGED <<estate, home, closing, bt, used, lsn, reg, presVars>>

\* handleUnbind of a tunnel the session tracks; for any other id it returns.
Unbind(s, t) ==
  /\ pc[s] = "idle"
  /\ t \in tunnels[s]
  /\ BeginRelease(s, t)

\* portManager.release.
ReleasePort(s) ==
  LET e == home[s]  p == bt[cur[s]].route
  IN /\ pc[s] = "unport"
     /\ used' = [used EXCEPT ![e] = @ \ {p}]
     /\ lsn' = [lsn EXCEPT ![e] = @ \ {p}]
     /\ pc' = [pc EXCEPT ![s] = "unregister"]
     /\ UNCHANGED <<estate, home, closing, cur, tunnels, bt, hub, reg, presVars>>

\* The Registry.Unbind that ends releaseTunnel.
Unregister(s) ==
  /\ pc[s] = "unregister"
  /\ \E out \in CommandOutcomes(Up(home[s])) :
       reg' = IF out = "ok" THEN RegUnbind(bt[cur[s]].route) ELSE reg
  /\ pc' = [pc EXCEPT ![s] = IF closing[s] THEN "down" ELSE "idle"]
  /\ cur' = [cur EXCEPT ![s] = None]
  /\ UNCHANGED <<estate, home, closing, tunnels, bt, tableVars, presVars>>

\* controlLoop returns: the control stream broke, went idle or was closed.
SessionEnds(s) ==
  /\ pc[s] = "idle"
  /\ closing' = [closing EXCEPT ![s] = TRUE]
  /\ pc' = [pc EXCEPT ![s] = "down"]
  /\ UNCHANGED <<estate, home, cur, tunnels, bt, tableVars, reg, presVars>>

\* teardownSession releases the tunnels one after the other ...
TeardownNext(s, t) ==
  /\ pc[s] = "down"
  /\ t \in tunnels[s]
  /\ BeginRelease(s, t)

\* ... and then removes the session from the hub.
TeardownDone(s) ==
  /\ pc[s] = "down" /\ tunnels[s] = {}
  /\ pc' = [pc EXCEPT ![s] = "gone"]
  /\ UNCHANGED <<estate, home, closing, cur, tunnels, bt, tableVars, reg, presVars>>

(***************************************************************************)
(* The edge process.                                                       *)
(***************************************************************************)

\* Run: listeners come up and startForward announces the forwarding address.
EdgeStart(e) ==
  /\ estate[e] = "stopped"
  /\ estate' = [estate EXCEPT ![e] = "up"]
  /\ \E out \in CommandOutcomes(TRUE) :
       presence' = IF out = "ok" THEN RegisterEdge(e) ELSE presence
  /\ UNCHANGED <<sessVars, tableVars, reg, due, round, snap>>

\* The server's context is cancelled; Run calls drain.
DrainBegin(e) ==
  /\ e \in Stopping /\ Up(e)
  /\ estate' = [estate EXCEPT ![e] = "draining"]
  /\ UNCHANGED <<sessVars, tableVars, reg, presVars>>

\* UnregisterEdge, the forward listener closes, agents are told to go.
DrainUnregister(e) ==
  /\ estate[e] = "draining"
  /\ estate' = [estate EXCEPT ![e] = "quiet"]
  /\ \E out \in CommandOutcomes(TRUE) :
       presence' = IF out = "ok" THEN UnregisterEdge(e) ELSE presence
  /\ UNCHANGED <<sessVars, tableVars, reg, due, round, snap>>

\* The other listeners, ports.closeAll (it leaves the pool's used maps as they
\* are), usage.Stop and reg.Close.
DrainClose(e) ==
  /\ estate[e] = "quiet"
  /\ estate' = [estate EXCEPT ![e] = "closed"]
  /\ lsn' = [lsn EXCEPT ![e] = {}]
  /\ UNCHANGED <<sessVars, hub, used, reg, presVars>>

\* The process ends: drain returned (all goroutines done, or DrainTimeout), or
\* it crashed.  What it kept in memory is lost; Redis keeps its keys.
ProcessEnds(e) ==
  LET Here(s) == home[s] = e
  IN /\ e \in Stopping /\ estate[e] # "stopped"
     /\ estate' = [estate EXCEPT ![e] = "stopped"]
     /\ pc' = [s \in Sessions |-> IF Here(s) THEN "lost" ELSE pc[s]]
     /\ closing' = [s \in Sessions |-> closing[s] /\ ~Here(s)]
     /\ cur' = [s \in Sessions |-> IF Here(s) THEN None ELSE cur[s]]
     /\ tunnels' = [s \in Sessions |-> IF Here(s) THEN {} ELSE tunnels[s]]
     /\ hub' = [hub EXCEPT ![e] = [r \in Routes |-> None]]
     /\ used' = [used EXCEPT ![e] = {}]
     /\ lsn' = [lsn EXCEPT ![e] = {}]
     /\ due' = [due EXCEPT ![e] = FALSE]
     /\ round' = [round EXCEPT ![e] = "wait"]
     /\ snap' = [snap EXCEPT ![e] = {}]
     /\ UNCHANGED <<home, bt, reg, presence>>

(***************************************************************************)
(* runPresence and the clock.                                              *)
(***************************************************************************)

\* The ticker case of the select.  When the context is cancelled as well, the
\* select may still choose it.
PresenceTick(e) ==
  /\ due[e] /\ round[e] = "wait"
  /\ due' = [due EXCEPT ![e] = FALSE]
  /\ round' = [round EXCEPT ![e] = "register"]
  /\ UNCHANGED <<estate, sessVars, tableVars, reg, presence, snap>>

\* RegisterEdge, on a context of its own, then SnapshotRoutes.
SnapshotNothing(e) == {}   \* Faulty: only the address is renewed.
SnapshotEverything(e) == Routes   \* Faulty: renews routes homed elsewhere.
\* Faulty: ranges over the tunnels instead of their keys.
SnapshotTunnels(e) == {hub[e][r] : r \in Routes} \ {None}
SnapshotRoutes(e) == {r \in Routes : hub[e][r] # None}

PresenceRegister(e) ==
  /\ round[e] = "register"
  /\ \E out \in CommandOutcomes(estate[e] # "closed") :
       presence' = IF out = "ok" THEN RegisterEdge(e) ELSE presence
  /\ snap' = [snap EXCEPT ![e] = SnapshotRoutes(e)]
  /\ round' = [round EXCEPT ![e] = "refresh"]
  /\ UNCHANGED <<estate, sessVars, tableVars, reg, due>>

\* One Refresh per route of the snapshot, then back to the select.
PresenceRefresh(e) ==
  /\ round[e] = "refresh"
  /\ \/ \E r \in snap[e], out \in CommandOutcomes(estate[e] # "closed") :
          /\ reg' = IF out = "ok" THEN RegRefresh(r) ELSE reg
          /\ snap' = [snap EXCEPT ![e] = @ \ {r}]
          /\ UNCHANGED round
     \/ /\ snap[e] = {}
        /\ round' = [round EXCEPT ![e] = "wait"]
        /\ UNCHANGED <<reg, snap>>
  /\ UNCHANGED <<estate, sessVars, tableVars, presence, due>>

\* One heartbeat interval passes.  A presence round is bounded by
\* forwardDialTimeout, well below the interval, so a live edge has finished the
\* round of the previous tick.
Tick ==
  /\ ClockRuns
  /\ \A e \in Edges : Up(e) => ~due[e] /\ round[e] = "wait"
  /\ reg' = [r \in Routes |->
               IF reg[r].ttl > 1 THEN Entry(reg[r].edge, reg[r].sess, reg[r].ttl - 1)
                                 ELSE NoEntry]
  /\ presence' = [e \in Edges |-> IF presence[e] > 0 THEN presence[e] - 1 ELSE 0]
  /\ due' = [e \in Edges |-> Up(e)]
  /\ UNCHANGED <<estate, sessVars, tableVars, round, snap>>

SessionStep(s) ==
  \/ OpenPort(s) \/ HubBind(s) \/ Register(s)
  \/ ReleasePort(s) \/ Unregister(s)
  \/ \E t \in Tunnels : TeardownNext(s, t)
  \/ TeardownDone(s)

PresenceStep(e) == PresenceTick(e) \/ PresenceRegister(e) \/ PresenceRefresh(e)

Next ==
  \/ \E s \in Sessions :
       \/ \E e \in Edges : Connect(s, e)
       \/ \E t \in Tunnels : AllocateHost(s, t) \/ ReservePort(s, t) \/ Unbind(s, t)
       \/ SessionEnds(s)
       \/ SessionStep(s)
  \/ \E e \in Edges :
       \/ EdgeStart(e) \/ DrainBegin(e) \/ DrainUnregister(e) \/ DrainClose(e)
       \/ ProcessEnds(e)
       \/ PresenceStep(e)
  \/ Tick

\* Goroutines that have work to do go on, presence rounds run and time passes;
\* agents, crashes and drains owe nothing.
Fairness ==
  /\ \A s \in Sessions : WF_vars(SessionStep(s))
  /\ \A e \in Edges : /\ WF_vars(Up(e) /\ PresenceTick(e))
                      /\ WF_vars(PresenceRegister(e) \/ PresenceRefresh(e))
  /\ WF_vars(Tick)

Spec == Init /\ [][Next]_vars
FairSpec == Spec /\ Fairness

(***************************************************************************)
(* Properties.                                                             *)
(***************************************************************************)

\* Type invariant of the edges, the sessions and the registry.
TypeOK ==
  /\ estate \in [Edges -> {"stopped", "up", "draining", "quiet", "closed"}]
  /\ pc \in [Sessions -> {"none", "idle", "listen", "hub", "register", "unport",
                          "unregister", "down", "gone", "lost"}]
  /\ home \in [Sessions -> Edges \cup {None}]
  /\ closing \in [Sessions -> BOOLEAN]
  /\ cur \in [Sessions -> Tunnels \cup {None}]
  /\ tunnels \in [Sessions -> SUBSET Tunnels]
  /\ bt \in [Tunnels -> [sess : Sessions \cup {None}, route : Routes \cup {None}]]
  /\ hub \in [Edges -> [Routes -> Tunnels \cup {None}]]
  /\ used \in [Edges -> SUBSET Ports]
  /\ lsn \in [Edges -> SUBSET Ports]
  /\ reg \in [Routes -> [edge : Edges \cup {None}, sess : Sessions \cup {None},
                         ttl : 0..RouteTTL]]
  /\ presence \in [Edges -> 0..RouteTTL]
  /\ due \in [Edges -> BOOLEAN]
  /\ round \in [Edges -> {"wait", "register", "refresh"}]
  /\ snap \in [Edges -> SUBSET Routes]

\* No hub route outlives the session that bound it: whatever a public
\* connection finds in byHost or byPort is a tunnel of this edge that its
\* session still tracks and will release (hub.unbind, teardownSession).
HubRouteOwned ==
  \A e \in Edges, r \in Routes :
    hub[e][r] # None =>
      LET b == bt[hub[e][r]]
      IN /\ b.route = r /\ b.sess \in Sessions
         /\ home[b.sess] = e /\ hub[e][r] \in tunnels[b.sess]

\* A tunnel that was bound on a subdomain or a port stays routable until its
\* own session releases it, whatever other sessions bind and release.
LiveTunnelRouted ==
  \A s \in Sessions : \A t \in tunnels[s] :
    bt[t].route \in Subdomains \cup Ports => hub[home[s]][bt[t].route] = t

\* Tunnel t occupies port p of the pool of edge e.
OccupiesPort(t, e, p) ==
  LET s == bt[t].sess
  IN /\ bt[t].route = p /\ s # None /\ home[s] = e
     /\ \/ t \in tunnels[s]
        \/ cur[s] = t /\ pc[s] \in {"listen", "hub", "unport"}

\* The pool and the tunnels agree: a port is marked used exactly when one
\* tunnel occupies it, so no port leaks and no port is handed out twice.
PortPoolExact ==
  \A e \in Edges, p \in Ports :
    /\ p \in used[e] <=> \E t \in Tunnels : OccupiesPort(t, e, p)
    /\ \A t1, t2 \in Tunnels :
         OccupiesPort(t1, e, p) /\ OccupiesPort(t2, e, p) => t1 = t2

\* The error path of Hub.bindPort is dead code: releaseTunnel clears byPort
\* before it returns the port to the pool, so a reserved port is never routed.
BindPortNeverConflicts ==
  \A s \in Sessions :
    pc[s] = "hub" /\ bt[cur[s]].route \in Ports =>
      hub[home[s]][bt[cur[s]].route] = None

\* A routed port has an open listener while the edge serves.
RoutedPortListens ==
  \A e \in Edges, p \in Ports :
    hub[e][p] # None /\ estate[e] # "closed" => p \in lsn[e]

\* While Redis answers, a registry entry never survives the release of the
\* tunnel it was written for: its session still has that route, or is on its
\* way to Unbind it.  (Sessions lost with their process leave entries behind.)
RegistryEntryOwned ==
  \A r \in Routes :
    LET s == reg[r].sess
    IN ~RedisMayFail /\ Registered(r) /\ Up(reg[r].edge) /\ pc[s] # "lost" =>
         \/ \E t \in tunnels[s] : bt[t].route = r
         \/ cur[s] # None /\ bt[cur[s]].route = r /\ pc[s] \in {"unport", "unregister"}

\* While Redis answers, the TTL of 2x heartbeat never runs out under a route
\* that the session named in the entry is serving (runPresence refreshes it).
ServedRouteNeverExpires ==
  [][Tick => \A r \in Routes :
       LET e == reg[r].edge
       IN ~RedisMayFail /\ Registered(r) /\ Up(e) /\ hub[e][r] # None
            /\ bt[hub[e][r]].sess = reg[r].sess
          => reg'[r].ttl > 0]_vars

\* While Redis answers, a serving edge is always advertised to its peers.
LiveEdgeAdvertised ==
  ~RedisMayFail => \A e \in Edges : Up(e) => presence[e] > 0

\* A route no edge serves any more (its edge crashed, or its Unbind failed)
\* leaves the registry, if only by its TTL.
OrphanRouteExpires ==
  \A r \in Routes :
    (\A e \in Edges : hub[e][r] = None) ~>
      (~Registered(r) \/ \E e \in Edges : hub[e][r] # None)

\* The address of an edge that stopped does not stay advertised.
StoppedEdgeForgotten ==
  \A e \in Edges : (estate[e] = "stopped") ~> (presence[e] = 0 \/ Up(e))

-----------------------------------------------------------------------------
(* Statements of the repository that the code does not keep: TLC refutes   *)
(* each of them.                                                           *)

\* What runPresence's comment states: no locally homed route is missing from
\* the shared registry while its edge is live (here even with a Redis that
\* never fails, and once the bind has finished).
LiveRouteRegistered ==
  \A s \in Sessions : \A t \in tunnels[s] :
    pc[s] = "idle" /\ Up(home[s]) /\ ~RedisMayFail => Registered(bt[t].route)

\* What the Registry interface's comment states: UnregisterEdge removes the
\* address at drain so peers stop forwarding to the edge.
DrainedEdgeNotAdvertised ==
  \A e \in Edges : estate[e] \in {"quiet", "closed"} => presence[e] = 0
=============================================================================
