-------------------------- MODULE EdgeRoutingInv --------------------------
(***************************************************************************)
(* The inductive invariant IInv of the edge routing state, the facts its   *)
(* proof rests on, and the first half of a bind: a session starts, a host  *)
(* or a port is chosen.  EdgeRoutingSteps has the steps on the hub and the *)
(* ports, EdgeRoutingProofs the rest and the theorems.                     *)
(***************************************************************************)
EXTENDS EdgeRouting, TLAPS

\* What pc[s] says about the session's handler and its tunnels.
SessionOK ==
  \A s \in Sessions :
    /\ pc[s] # "none" => home[s] \in Edges
    /\ pc[s] = "none" => home[s] = None
    /\ pc[s] \in {"none", "gone", "lost"} => tunnels[s] = {}
    /\ pc[s] \in {"listen", "hub", "register", "unport", "unregister"} =>
         cur[s] \in Tunnels /\ bt[cur[s]].sess = s /\ bt[cur[s]].route \in Routes
    /\ pc[s] \in {"listen", "unport"} => bt[cur[s]].route \in Ports
    /\ pc[s] \in {"listen", "hub", "unport", "unregister"} => cur[s] \notin tunnels[s]
    /\ pc[s] = "register" => cur[s] \in tunnels[s]
    /\ \A t \in tunnels[s] : bt[t].sess = s /\ bt[t].route \in Routes

\* Between allocateHost and bindHost a subdomain may be taken by another
\* session, never by the session that is binding it.
PendingSubdomainOK ==
  \A s \in Sessions :
    pc[s] = "hub" /\ bt[cur[s]].route \in Subdomains =>
      LET holder == hub[home[s]][bt[cur[s]].route]
      IN holder = None \/ bt[holder].sess # s

IInv ==
  /\ TypeOK
  /\ SessionOK
  /\ HubRouteOwned
  /\ LiveTunnelRouted
  /\ PortPoolExact
  /\ PendingSubdomainOK

\* The program starts in the invariant (New: empty tables, no session).
LEMMA InitIInv == Init => IInv
  BY ConstantsAssumption DEF Init, IInv, TypeOK, SessionOK, HubRouteOwned, LiveTunnelRouted,
     PortPoolExact, OccupiesPort, PendingSubdomainOK, NoEntry, Entry, NoBt, RouteTTL, Routes, Hosts

\* Steps of the clock, of the presence loop and of a draining process change
\* no session and no routing table.
LEMMA FrameStep ==
  ASSUME IInv, TypeOK', UNCHANGED <<sessVars, hub, used>>
  PROVE  IInv'
<1>1. /\ pc' = pc /\ home' = home /\ cur' = cur /\ tunnels' = tunnels /\ bt' = bt
      /\ hub' = hub /\ used' = used
  BY DEF sessVars
<1>2. \A t \in Tunnels, e \in Edges, p \in Ports : OccupiesPort(t, e, p)' <=> OccupiesPort(t, e, p)
  BY <1>1 DEF OccupiesPort
<1>3. SessionOK'
  BY <1>1 DEF IInv, SessionOK
<1>4. HubRouteOwned' /\ LiveTunnelRouted'
  BY <1>1 DEF IInv, HubRouteOwned, LiveTunnelRouted
<1>5. PendingSubdomainOK'
  BY <1>1, Zenon DEF IInv, PendingSubdomainOK
<1>6. PortPoolExact'
  BY <1>1, <1>2 DEF IInv, PortPoolExact
<1> QED BY <1>3, <1>4, <1>5, <1>6 DEF IInv

\* The route tables and the tunnels they lead to are unchanged.
LEMMA TablesFrame ==
  ASSUME HubRouteOwned, LiveTunnelRouted, home' = home, bt' = bt, hub' = hub, tunnels' = tunnels
  PROVE  HubRouteOwned' /\ LiveTunnelRouted'
  BY DEF HubRouteOwned, LiveTunnelRouted

\* 0 and a full TTL are TTLs (edgeTTL).
LEMMA TTLInRange == RouteTTL \in 0..RouteTTL /\ 0 \in 0..RouteTTL
  BY DEF RouteTTL

\* A registry entry is a Binding with a TTL (RedisRegistry.Bind).
LEMMA EntryType ==
  ASSUME NEW e \in Edges \cup {None}, NEW s \in Sessions \cup {None}, NEW n \in 0..RouteTTL
  PROVE  Entry(e, s, n) \in [edge : Edges \cup {None}, sess : Sessions \cup {None},
                             ttl : 0..RouteTTL]
  BY DEF Entry

\* Bind and Unbind keep the type of the registry (RedisRegistry).
LEMMA RegType ==
  ASSUME TypeOK, NEW r \in Routes, NEW e \in Edges, NEW s \in Sessions,
         reg' \in {reg, RegBind(r, e, s), RegUnbind(r)}
  PROVE  reg' \in [Routes -> [edge : Edges \cup {None}, sess : Sessions \cup {None},
                             ttl : 0..RouteTTL]]
<1> DEFINE RT == [edge : Edges \cup {None}, sess : Sessions \cup {None}, ttl : 0..RouteTTL]
<1>1. reg \in [Routes -> RT]
  BY DEF TypeOK
<1>2. Entry(e, s, RouteTTL) \in RT /\ NoEntry \in RT
  BY TTLInRange, EntryType, Zenon DEF NoEntry
<1>3. reg' = reg \/ \E x \in RT : reg' = [reg EXCEPT ![r] = x]
  BY <1>2 DEF RegBind, RegUnbind
<1> HIDE DEF RT
<1>4. reg' \in [Routes -> RT]
  BY <1>1, <1>3
<1> QED BY <1>4 DEF RT

\* What a step of the clock, the presence loop or a drain has to keep typed.
LEMMA FrameType ==
  ASSUME TypeOK, UNCHANGED <<sessVars, hub, used>>,
         estate' \in [Edges -> {"stopped", "up", "draining", "quiet", "closed"}],
         lsn' \in [Edges -> SUBSET Ports],
         reg' \in [Routes -> [edge : Edges \cup {None}, sess : Sessions \cup {None}, ttl : 0..RouteTTL]],
         presence' \in [Edges -> 0..RouteTTL],
         due' \in [Edges -> BOOLEAN],
         round' \in [Edges -> {"wait", "register", "refresh"}],
         snap' \in [Edges -> SUBSET Routes]
  PROVE  TypeOK'
  BY DEF TypeOK, sessVars

\* An agent session starts (serveSession).
LEMMA ConnectStep ==
  ASSUME IInv, NEW s \in Sessions, NEW e \in Edges, Connect(s, e)
  PROVE  IInv'
<1> USE DEF IInv, Connect, tableVars, presVars
<1>1. TypeOK'
  BY DEF TypeOK
<1>2. SessionOK'
  BY DEF TypeOK, SessionOK
<1>3. HubRouteOwned'
  BY DEF TypeOK, SessionOK, HubRouteOwned
<1>4. LiveTunnelRouted'
  BY DEF TypeOK, SessionOK, LiveTunnelRouted
<1>5. PortPoolExact'
  <2>1. \A x \in Tunnels, f \in Edges, p \in Ports :
          OccupiesPort(x, f, p)' <=> OccupiesPort(x, f, p)
    <3> SUFFICES ASSUME NEW x \in Tunnels, NEW f \in Edges, NEW p \in Ports
                 PROVE  OccupiesPort(x, f, p)' <=> OccupiesPort(x, f, p)
      OBVIOUS
    <3> bt[x].sess \in Sessions \cup {None}
      BY DEF TypeOK
    <3> QED BY ConstantsAssumption DEF TypeOK, SessionOK, OccupiesPort
  <2> QED BY <2>1 DEF PortPoolExact
<1>6. PendingSubdomainOK'
  <2> SUFFICES ASSUME NEW x \in Sessions, pc'[x] = "hub", bt'[cur'[x]].route \in Subdomains
               PROVE  LET holder == hub'[home'[x]][bt'[cur'[x]].route]
                      IN holder = None \/ bt'[holder].sess # x
    BY Zenon DEF PendingSubdomainOK
  <2> x # s /\ pc[x] = "hub" /\ home'[x] = home[x]
    BY DEF TypeOK
  <2> QED BY Zenon DEF PendingSubdomainOK
<1> QED BY <1>1, <1>2, <1>3, <1>4, <1>5, <1>6

\* A tunnel object that was never bound is in no table.
LEMMA FreshTunnel ==
  ASSUME IInv, NEW t \in Tunnels, bt[t] = NoBt
  PROVE  /\ \A s \in Sessions : t \notin tunnels[s]
         /\ \A s \in Sessions :
              pc[s] \in {"listen", "hub", "register", "unport", "unregister"} => cur[s] # t
         /\ \A e \in Edges, r \in Routes : hub[e][r] # t
  BY ConstantsAssumption DEF IInv, SessionOK, HubRouteOwned, NoBt

\* A host is chosen for a bind (allocateHost).
LEMMA AllocateHostStep ==
  ASSUME IInv, NEW s \in Sessions, NEW t \in Tunnels, AllocateHost(s, t)
  PROVE  IInv'
<1> USE DEF IInv, tableVars, presVars
<1> PICK h \in Allocatable(home[s]) : StartBind(s, t, h)
  BY DEF AllocateHost
<1> h \in Hosts /\ h \in Routes /\ h \notin Ports
  BY ConstantsAssumption DEF Allocatable, Hosts, Routes
<1> USE DEF AllocateHost, CanBind, StartBind
<1>0. /\ \A x \in Sessions : t \notin tunnels[x]
      /\ \A x \in Sessions :
           pc[x] \in {"listen", "hub", "register", "unport", "unregister"} => cur[x] # t
      /\ \A e \in Edges, r \in Routes : hub[e][r] # t
  BY FreshTunnel
<1>1. TypeOK'
  BY DEF TypeOK
<1>2. SessionOK'
  BY <1>0, ConstantsAssumption DEF TypeOK, SessionOK, NoBt
<1>3. HubRouteOwned'
  BY <1>0 DEF TypeOK, HubRouteOwned
<1>4. LiveTunnelRouted'
  BY <1>0 DEF TypeOK, LiveTunnelRouted
<1>5. PortPoolExact'
  <2>1. \A x \in Tunnels, f \in Edges, p \in Ports :
          OccupiesPort(x, f, p)' <=> OccupiesPort(x, f, p)
    <3> SUFFICES ASSUME NEW x \in Tunnels, NEW f \in Edges, NEW p \in Ports
                 PROVE  OccupiesPort(x, f, p)' <=> OccupiesPort(x, f, p)
      OBVIOUS
    <3>1. CASE x = t
      BY <3>1, ConstantsAssumption DEF TypeOK, SessionOK, OccupiesPort, NoBt
    <3>2. CASE x # t
      <4> bt'[x] = bt[x] /\ bt[x].sess \in Sessions \cup {None}
        BY <3>2 DEF TypeOK
      <4> QED BY <3>2, ConstantsAssumption DEF TypeOK, SessionOK, OccupiesPort
    <3> QED BY <3>1, <3>2
  <2> QED BY <2>1 DEF PortPoolExact
<1>6. PendingSubdomainOK'
  <2> SUFFICES ASSUME NEW x \in Sessions, pc'[x] = "hub", bt'[cur'[x]].route \in Subdomains
               PROVE  LET holder == hub[home[x]][bt'[cur'[x]].route]
                      IN holder = None \/ bt'[holder].sess # x
    BY Zenon DEF PendingSubdomainOK
  <2>1. CASE x = s
    BY <2>1, ConstantsAssumption DEF TypeOK, Allocatable
  <2>2. CASE x # s
    <3> /\ pc[x] = "hub" /\ cur'[x] = cur[x] /\ bt'[cur[x]] = bt[cur[x]]
        /\ home[x] \in Edges /\ bt[cur[x]].route \in Routes
      BY <1>0, <2>2 DEF TypeOK, SessionOK
    <3> DEFINE holder == hub[home[x]][bt[cur[x]].route]
    <3> holder # t /\ holder \in Tunnels \cup {None}
      BY <1>0 DEF TypeOK
    <3> holder # None => bt'[holder] = bt[holder]
      BY DEF TypeOK
    <3>1. holder = None \/ bt[holder].sess # x
      BY Zenon DEF PendingSubdomainOK
    <3> QED BY <3>1, ZenonT(30)
  <2> QED BY <2>1, <2>2, Zenon
<1> QED BY <1>1, <1>2, <1>3, <1>4, <1>5, <1>6

\* A port is reserved for a bind (portManager.reserve).
LEMMA ReservePortStep ==
  ASSUME IInv, NEW s \in Sessions, NEW t \in Tunnels, ReservePort(s, t)
  PROVE  IInv'
<1> USE DEF IInv, tableVars, presVars
<1> PICK p \in FreePorts(home[s]) :
      StartBind(s, t, p) /\ used' = [used EXCEPT ![home[s]] = @ \cup {p}]
  BY Zenon DEF ReservePort
<1> p \in Ports /\ p \in Routes /\ p \notin used[home[s]] /\ p \notin Subdomains
  BY ConstantsAssumption DEF FreePorts, Hosts, Routes
<1> USE DEF ReservePort, CanBind, StartBind
<1>0. /\ \A x \in Sessions : t \notin tunnels[x]
      /\ \A x \in Sessions :
           pc[x] \in {"listen", "hub", "register", "unport", "unregister"} => cur[x] # t
      /\ \A e \in Edges, r \in Routes : hub[e][r] # t
  BY FreshTunnel
<1>1. TypeOK'
  <2>1. used' \in [Edges -> SUBSET Ports]
    BY ZenonT(30) DEF TypeOK
  <2>2. bt' \in [Tunnels -> [sess : Sessions \cup {None}, route : Routes \cup {None}]]
    BY DEF TypeOK
  <2>3. cur' \in [Sessions -> Tunnels \cup {None}]
    BY DEF TypeOK
  <2> QED BY <2>1, <2>2, <2>3 DEF TypeOK
<1>2. SessionOK'
  BY <1>0, ConstantsAssumption DEF TypeOK, SessionOK, NoBt
<1>3. HubRouteOwned'
  BY <1>0 DEF TypeOK, HubRouteOwned
<1>4. LiveTunnelRouted'
  BY <1>0 DEF TypeOK, LiveTunnelRouted
<1>5. PortPoolExact'
  <2>1. \A x \in Tunnels \ {t}, f \in Edges, q \in Ports :
          OccupiesPort(x, f, q)' <=> OccupiesPort(x, f, q)
    <3> SUFFICES ASSUME NEW x \in Tunnels \ {t}, NEW f \in Edges, NEW q \in Ports
                 PROVE  OccupiesPort(x, f, q)' <=> OccupiesPort(x, f, q)
      OBVIOUS
    <3> bt'[x] = bt[x] /\ bt[x].sess \in Sessions \cup {None}
      BY DEF TypeOK
    <3> QED BY ConstantsAssumption DEF TypeOK, SessionOK, OccupiesPort
  <2>2. \A f \in Edges, q \in Ports : OccupiesPort(t, f, q)' <=> f = home[s] /\ q = p
    BY ConstantsAssumption DEF TypeOK, SessionOK, OccupiesPort
  <2>3. \A f \in Edges, q \in Ports : ~OccupiesPort(t, f, q)
    BY ConstantsAssumption DEF OccupiesPort, NoBt
  <2>4. \A f \in Edges, q \in Ports : q \in used'[f] <=> q \in used[f] \/ (f = home[s] /\ q = p)
    BY DEF TypeOK, SessionOK
  <2>5. \A x \in Tunnels : ~OccupiesPort(x, home[s], p)
    BY DEF PortPoolExact, SessionOK
  <2> QED BY <2>1, <2>2, <2>3, <2>4, <2>5 DEF PortPoolExact
<1>6. PendingSubdomainOK'
  <2> SUFFICES ASSUME NEW x \in Sessions, pc'[x] = "hub", bt'[cur'[x]].route \in Subdomains
               PROVE  LET holder == hub[home[x]][bt'[cur'[x]].route]
                      IN holder = None \/ bt'[holder].sess # x
    BY Zenon DEF PendingSubdomainOK
  <2> /\ x # s /\ pc[x] = "hub" /\ cur'[x] = cur[x] /\ bt'[cur[x]] = bt[cur[x]]
      /\ home[x] \in Edges /\ bt[cur[x]].route \in Routes
    BY <1>0 DEF TypeOK, SessionOK
  <2> DEFINE holder == hub[home[x]][bt[cur[x]].route]
  <2> holder # t /\ holder \in Tunnels \cup {None}
    BY <1>0 DEF TypeOK
  <2> holder # None => bt'[holder] = bt[holder]
    BY DEF TypeOK
  <2>1. holder = None \/ bt[holder].sess # x
    BY Zenon DEF PendingSubdomainOK
  <2> QED BY <2>1, ZenonT(30)
<1> QED BY <1>1, <1>2, <1>3, <1>4, <1>5, <1>6

\* PendingSubdomainOK is kept when no further session comes to bindHost with
\* a subdomain.
LEMMA PendingFrame ==
  ASSUME PendingSubdomainOK, UNCHANGED <<home, bt, hub>>,
         \A x \in Sessions : pc'[x] = "hub" =>
            cur'[x] = cur[x] /\ (pc[x] = "hub" \/ bt[cur[x]].route \notin Subdomains)
  PROVE  PendingSubdomainOK'
<1> SUFFICES ASSUME NEW x \in Sessions, pc'[x] = "hub", bt[cur'[x]].route \in Subdomains
             PROVE  LET holder == hub[home[x]][bt[cur'[x]].route]
                    IN holder = None \/ bt[holder].sess # x
  BY Zenon DEF PendingSubdomainOK
<1>1. cur'[x] = cur[x] /\ pc[x] = "hub"
  OBVIOUS
<1> QED BY <1>1, Zenon DEF PendingSubdomainOK

\* A step that only moves a session between places where it occupies nothing
\* beyond tunnels[s].
LEMMA PcStep ==
  ASSUME IInv, TypeOK', NEW s \in Sessions, NEW to \in {"idle", "down", "gone"},
         UNCHANGED <<home, tunnels, bt, hub, used>>,
         pc[s] \in {"idle", "register", "unregister", "down"},
         pc' = [pc EXCEPT ![s] = to],
         to = "gone" => tunnels[s] = {},
         \A x \in Sessions \ {s} : cur'[x] = cur[x]
  PROVE  IInv'
<1> USE DEF IInv
<1>1. \A x \in Sessions \ {s} : pc'[x] = pc[x]
  BY DEF TypeOK
<1>2. SessionOK'
  BY <1>1 DEF TypeOK, SessionOK
<1>3. HubRouteOwned' /\ LiveTunnelRouted'
  BY TablesFrame, Zenon
<1>4. PortPoolExact'
  <2>1. \A x \in Tunnels, f \in Edges, p \in Ports :
          OccupiesPort(x, f, p)' <=> OccupiesPort(x, f, p)
    <3> SUFFICES ASSUME NEW x \in Tunnels, NEW f \in Edges, NEW p \in Ports
                 PROVE  OccupiesPort(x, f, p)' <=> OccupiesPort(x, f, p)
      OBVIOUS
    <3> bt[x].sess \in Sessions \cup {None}
      BY DEF TypeOK
    <3> QED BY <1>1 DEF TypeOK, SessionOK, OccupiesPort
  <2> QED BY <2>1 DEF PortPoolExact
<1>5. PendingSubdomainOK'
  <2> \A x \in Sessions : pc'[x] = "hub" => cur'[x] = cur[x] /\ pc[x] = "hub"
    BY <1>1 DEF TypeOK
  <2> QED BY PendingFrame
<1> QED BY <1>2, <1>3, <1>4, <1>5
=============================================================================
