------------------------ MODULE EdgeRoutingProofs -------------------------
(***************************************************************************)
(* Safety of the edge routing state for any number of edges, sessions,     *)
(* tunnels, hosts and ports, with or without Redis failures, drains and    *)
(* crashes.                                                                *)
(***************************************************************************)
EXTENDS EdgeRoutingSteps

\* An edge process ends with all its sessions (drain, or a crash).
LEMMA ProcessEndsStep ==
  ASSUME IInv, NEW e \in Edges, ProcessEnds(e)
  PROVE  IInv'
<1> USE DEF IInv, ProcessEnds
<1>a. \A x \in Tunnels : bt[x].sess \in Sessions \cup {None}
  BY DEF TypeOK
<1>h. \A f \in Edges, q \in Routes : hub'[f][q] = IF f = e THEN None ELSE hub[f][q]
  BY DEF TypeOK
<1>s. \A y \in Sessions :
        IF home[y] = e THEN pc'[y] = "lost" /\ tunnels'[y] = {}
        ELSE pc'[y] = pc[y] /\ tunnels'[y] = tunnels[y] /\ cur'[y] = cur[y]
  OBVIOUS
<1>1. TypeOK'
  BY DEF TypeOK
<1>u. home' = home /\ bt' = bt
  OBVIOUS
<1> HIDE DEF ProcessEnds
<1>2. SessionOK'
  <2> SUFFICES ASSUME NEW y \in Sessions
               PROVE  /\ pc'[y] # "none" => home[y] \in Edges
                      /\ pc'[y] = "none" => home[y] = None
                      /\ pc'[y] \in {"none", "gone", "lost"} => tunnels'[y] = {}
                      /\ pc'[y] \in {"listen", "hub", "register", "unport", "unregister"} =>
                           cur'[y] \in Tunnels /\ bt[cur'[y]].sess = y /\ bt[cur'[y]].route \in Routes
                      /\ pc'[y] \in {"listen", "unport"} => bt[cur'[y]].route \in Ports
                      /\ pc'[y] \in {"listen", "hub", "unport", "unregister"} => cur'[y] \notin tunnels'[y]
                      /\ pc'[y] = "register" => cur'[y] \in tunnels'[y]
                      /\ \A t \in tunnels'[y] : bt[t].sess = y /\ bt[t].route \in Routes
    BY <1>u DEF SessionOK
  <2>1. CASE home[y] = e
    BY <2>1, <1>s
  <2>2. CASE home[y] # e
    <3>1. pc'[y] = pc[y] /\ tunnels'[y] = tunnels[y] /\ cur'[y] = cur[y]
      BY <2>2, <1>s
    <3> QED BY <3>1 DEF SessionOK
  <2> QED BY <2>1, <2>2
<1>3. HubRouteOwned'
  <2> SUFFICES ASSUME NEW f \in Edges, NEW q \in Routes, hub'[f][q] # None
               PROVE  LET b == bt[hub'[f][q]]
                      IN /\ b.route = q /\ b.sess \in Sessions
                         /\ home[b.sess] = f /\ hub'[f][q] \in tunnels'[b.sess]
    BY <1>u DEF HubRouteOwned
  <2>1. f # e /\ hub'[f][q] = hub[f][q]
    BY <1>h
  <2>2. LET b == bt[hub[f][q]]
        IN /\ b.route = q /\ b.sess \in Sessions
           /\ home[b.sess] = f /\ hub[f][q] \in tunnels[b.sess]
    BY <2>1 DEF HubRouteOwned
  <2> QED BY <1>s, <2>1, <2>2
<1>4. LiveTunnelRouted'
  <2> SUFFICES ASSUME NEW y \in Sessions, NEW x \in tunnels'[y],
                      bt[x].route \in Subdomains \cup Ports
               PROVE  hub'[home[y]][bt[x].route] = x
    BY <1>u DEF LiveTunnelRouted
  <2>1. home[y] # e /\ x \in tunnels[y]
    BY <1>s
  <2>2. hub[home[y]][bt[x].route] = x
    BY <2>1 DEF LiveTunnelRouted
  <2>3. home[y] \in Edges /\ bt[x].route \in Routes
    BY <2>1 DEF SessionOK
  <2> QED BY <1>h, <2>1, <2>2, <2>3
<1> USE DEF ProcessEnds
<1>5. PortPoolExact'
  <2>1. \A x \in Tunnels, f \in Edges, q \in Ports :
          OccupiesPort(x, f, q)' <=> OccupiesPort(x, f, q) /\ f # e
    BY <1>a, <1>s DEF OccupiesPort
  <2>2. \A f \in Edges, q \in Ports : q \in used'[f] <=> q \in used[f] /\ f # e
    BY DEF TypeOK
  <2> QED BY <2>1, <2>2 DEF PortPoolExact
<1>6. PendingSubdomainOK'
  <2> SUFFICES ASSUME NEW x \in Sessions, pc'[x] = "hub", bt[cur'[x]].route \in Subdomains
               PROVE  LET holder == hub'[home[x]][bt[cur'[x]].route]
                      IN holder = None \/ bt[holder].sess # x
    BY Zenon DEF PendingSubdomainOK
  <2>1. home[x] # e /\ pc[x] = "hub" /\ cur'[x] = cur[x]
    BY <1>s
  <2>2. home[x] \in Edges /\ bt[cur[x]].route \in Routes
    BY <2>1 DEF SessionOK
  <2>3. hub'[home[x]][bt[cur[x]].route] = hub[home[x]][bt[cur[x]].route]
    BY <1>h, <2>1, <2>2
  <2>4. LET holder == hub[home[x]][bt[cur[x]].route]
        IN holder = None \/ bt[holder].sess # x
    BY <2>1, Zenon DEF PendingSubdomainOK
  <2> QED BY <2>1, <2>3, <2>4, Zenon
<1> QED BY <1>1, <1>2, <1>3, <1>4, <1>5, <1>6

\* Each remaining action either leaves the sessions and tables alone or only
\* moves one session's pc.
LEMMA QuietSteps ==
  ASSUME IInv,
         \/ \E s \in Sessions : Register(s) \/ Unregister(s) \/ SessionEnds(s) \/ TeardownDone(s)
         \/ \E e \in Edges : \/ EdgeStart(e) \/ DrainBegin(e) \/ DrainUnregister(e)
                            \/ DrainClose(e) \/ PresenceStep(e)
         \/ Tick
         \/ UNCHANGED vars
  PROVE  IInv'
<1> USE DEF IInv
<1>1. ASSUME NEW s \in Sessions, Register(s) PROVE IInv'
  <2>1. TypeOK'
    <3>1. cur[s] \in Tunnels /\ bt[cur[s]].route \in Routes /\ home[s] \in Edges
      BY <1>1 DEF Register, SessionOK
    <3>2. PICK r \in Routes, e \in Edges : reg' = RegBind(r, e, s) \/ reg' = reg
      BY <1>1, <3>1 DEF Register
    <3>3. reg' \in [Routes -> [edge : Edges \cup {None}, sess : Sessions \cup {None},
                              ttl : 0..RouteTTL]]
      BY <3>2, RegType
    <3>4. /\ pc' = [pc EXCEPT ![s] = "idle"] /\ cur' = [cur EXCEPT ![s] = None]
          /\ UNCHANGED <<estate, home, closing, tunnels, bt, hub, used, lsn, presence, due,
                         round, snap>>
      BY <1>1 DEF Register, tableVars, presVars
    <3> QED BY <3>3, <3>4 DEF TypeOK
  <2>2. /\ pc[s] = "register" /\ pc' = [pc EXCEPT ![s] = "idle"]
        /\ home' = home /\ tunnels' = tunnels /\ bt' = bt /\ hub' = hub /\ used' = used
        /\ cur' = [cur EXCEPT ![s] = None]
    BY <1>1 DEF Register, tableVars
  <2>3. \A x \in Sessions \ {s} : cur'[x] = cur[x]
    BY <2>2 DEF TypeOK
  <2> QED BY <2>1, <2>2, <2>3, PcStep, Zenon
<1>2. ASSUME NEW s \in Sessions, Unregister(s) PROVE IInv'
  <2>1. TypeOK'
    <3>1. cur[s] \in Tunnels /\ bt[cur[s]].route \in Routes /\ home[s] \in Edges
      BY <1>2 DEF Unregister, SessionOK
    <3>2. PICK r \in Routes : reg' = RegUnbind(r) \/ reg' = reg
      BY <1>2, <3>1 DEF Unregister
    <3>3. reg' \in [Routes -> [edge : Edges \cup {None}, sess : Sessions \cup {None},
                              ttl : 0..RouteTTL]]
      BY <3>1, <3>2, RegType
    <3>4. /\ \E to \in {"idle", "down"} : pc' = [pc EXCEPT ![s] = to]
          /\ cur' = [cur EXCEPT ![s] = None]
          /\ UNCHANGED <<estate, home, closing, tunnels, bt, hub, used, lsn, presence, due,
                         round, snap>>
      BY <1>2, Zenon DEF Unregister, tableVars, presVars
    <3> QED BY <3>3, <3>4 DEF TypeOK
  <2>2. PICK to \in {"idle", "down"} : pc' = [pc EXCEPT ![s] = to]
    BY <1>2, Zenon DEF Unregister
  <2>3. \A x \in Sessions \ {s} : cur'[x] = cur[x]
    BY <1>2 DEF Unregister, TypeOK
  <2>4. pc[s] = "unregister" /\ UNCHANGED <<home, tunnels, bt, hub, used>>
    BY <1>2 DEF Unregister, tableVars
  <2> QED BY <2>1, <2>2, <2>3, <2>4, PcStep, Zenon
<1>3. ASSUME NEW s \in Sessions, SessionEnds(s) PROVE IInv'
  <2>1. TypeOK'
    BY <1>3 DEF SessionEnds, TypeOK, tableVars, presVars
  <2> QED BY <1>3, <2>1, PcStep, Zenon DEF SessionEnds, tableVars
<1>4. ASSUME NEW s \in Sessions, TeardownDone(s) PROVE IInv'
  <2>1. TypeOK'
    BY <1>4 DEF TeardownDone, TypeOK, tableVars, presVars
  <2> QED BY <1>4, <2>1, PcStep, Zenon DEF TeardownDone, tableVars
<1>5. ASSUME NEW e \in Edges, EdgeStart(e) \/ DrainBegin(e) \/ DrainUnregister(e) \/ DrainClose(e)
      PROVE  IInv'
  <2>1. /\ UNCHANGED <<sessVars, hub, used, reg, due, round, snap>>
        /\ lsn' \in [Edges -> SUBSET Ports]
    BY <1>5, Zenon DEF EdgeStart, DrainBegin, DrainUnregister, DrainClose, TypeOK, tableVars, presVars
  <2>2. estate' \in [Edges -> {"stopped", "up", "draining", "quiet", "closed"}]
    <3>1. \E to \in {"up", "draining", "quiet", "closed"} : estate' = [estate EXCEPT ![e] = to]
      BY <1>5, Zenon DEF EdgeStart, DrainBegin, DrainUnregister, DrainClose
    <3> QED BY <3>1 DEF TypeOK
  <2>3. presence' \in [Edges -> 0..RouteTTL]
    <3>1. \/ presence' = presence
          \/ presence' = [presence EXCEPT ![e] = 0]
          \/ presence' = [presence EXCEPT ![e] = RouteTTL]
      BY <1>5, Zenon DEF EdgeStart, DrainBegin, DrainUnregister, DrainClose, presVars,
         RegisterEdge, UnregisterEdge
    <3> QED BY <3>1, TTLInRange, Zenon DEF TypeOK
  <2>4. TypeOK'
    BY <2>1, <2>2, <2>3, FrameType, Zenon DEF TypeOK
  <2> QED BY <2>1, <2>4, FrameStep, Zenon
<1>6. ASSUME NEW e \in Edges, PresenceStep(e) PROVE IInv'
  <2> USE DEF PresenceStep, PresenceTick, PresenceRegister, PresenceRefresh
  <2>1. UNCHANGED <<sessVars, hub, used, lsn, estate>>
    BY <1>6 DEF tableVars
  <2>2. presence' \in [Edges -> 0..RouteTTL]
    <3>1. presence' = presence \/ presence' = [presence EXCEPT ![e] = RouteTTL]
      BY <1>6 DEF RegisterEdge
    <3> QED BY <3>1, TTLInRange DEF TypeOK
  <2>3. due' \in [Edges -> BOOLEAN] /\ round' \in [Edges -> {"wait", "register", "refresh"}]
    <3>1. due' = due \/ due' = [due EXCEPT ![e] = FALSE]
      BY <1>6
    <3>2. round' = round \/ \E to \in {"wait", "register", "refresh"} : round' = [round EXCEPT ![e] = to]
      BY <1>6
    <3>3. due' \in [Edges -> BOOLEAN]
      BY <3>1, Zenon DEF TypeOK
    <3>4. round' \in [Edges -> {"wait", "register", "refresh"}]
      BY <3>2, Zenon DEF TypeOK
    <3> QED BY <3>3, <3>4
  <2>4. snap' \in [Edges -> SUBSET Routes]
    <3>1. snap' = snap \/ \E q \in SUBSET Routes : snap' = [snap EXCEPT ![e] = q]
      <4>1. CASE PresenceTick(e)
        BY <4>1
      <4>2. CASE PresenceRegister(e)
        BY <4>2, Zenon DEF SnapshotRoutes
      <4>3. CASE PresenceRefresh(e)
        BY <4>3 DEF TypeOK
      <4> QED BY <1>6, <4>1, <4>2, <4>3
    <3> QED BY <3>1, Zenon DEF TypeOK
  <2>5. reg' \in [Routes -> [edge : Edges \cup {None}, sess : Sessions \cup {None}, ttl : 0..RouteTTL]]
    <3>1. reg' = reg \/ \E r \in Routes : reg' = RegRefresh(r)
      BY <1>6 DEF TypeOK
    <3>2. CASE reg' = reg
      BY <3>2 DEF TypeOK
    <3>3. ASSUME NEW r \in Routes, reg' = RegRefresh(r)
          PROVE  reg' \in [Routes -> [edge : Edges \cup {None}, sess : Sessions \cup {None},
                                     ttl : 0..RouteTTL]]
      <4> DEFINE RT == [edge : Edges \cup {None}, sess : Sessions \cup {None}, ttl : 0..RouteTTL]
      <4>1. reg \in [Routes -> RT] /\ reg[r] \in RT
        BY DEF TypeOK
      <4>2. Entry(reg[r].edge, reg[r].sess, RouteTTL) \in RT
        BY <4>1, TTLInRange, EntryType, Zenon
      <4>3. reg' = reg \/ reg' = [reg EXCEPT ![r] = Entry(reg[r].edge, reg[r].sess, RouteTTL)]
        BY <3>3 DEF RegRefresh
      <4> HIDE DEF RT
      <4>4. reg' \in [Routes -> RT]
        BY <4>1, <4>2, <4>3
      <4> QED BY <4>4 DEF RT
    <3> QED BY <3>1, <3>2, <3>3
  <2>6. TypeOK'
    BY <2>1, <2>2, <2>3, <2>4, <2>5, FrameType, Zenon DEF TypeOK
  <2> QED BY <2>1, <2>6, FrameStep, Zenon
<1>7. CASE Tick
  <2>1. UNCHANGED <<sessVars, hub, used, lsn, estate, round, snap>> /\ due' \in [Edges -> BOOLEAN]
    BY <1>7 DEF Tick, Up, tableVars
  <2>2. presence' \in [Edges -> 0..RouteTTL]
    BY <1>7 DEF Tick, TypeOK, RouteTTL
  <2>3. reg' \in [Routes -> [edge : Edges \cup {None}, sess : Sessions \cup {None}, ttl : 0..RouteTTL]]
    <3> SUFFICES ASSUME NEW r \in Routes
                 PROVE  reg'[r] \in [edge : Edges \cup {None}, sess : Sessions \cup {None},
                                    ttl : 0..RouteTTL]
      BY <1>7 DEF Tick
    <3>1. CASE reg[r].ttl > 1
      <4>1. reg[r] \in [edge : Edges \cup {None}, sess : Sessions \cup {None}, ttl : 0..RouteTTL]
        BY DEF TypeOK
      <4>2. reg[r].ttl - 1 \in 0..RouteTTL
        BY <3>1, <4>1 DEF RouteTTL
      <4>3. reg'[r] = Entry(reg[r].edge, reg[r].sess, reg[r].ttl - 1)
        BY <1>7, <3>1 DEF Tick
      <4> QED BY <4>1, <4>2, <4>3, EntryType, Zenon
    <3>2. CASE ~(reg[r].ttl > 1)
      <4>1. reg'[r] = Entry(None, None, 0)
        BY <1>7, <3>2 DEF Tick, NoEntry
      <4>2. None \in Edges \cup {None} /\ None \in Sessions \cup {None} /\ 0 \in 0..RouteTTL
        BY TTLInRange
      <4> QED BY <4>1, <4>2, EntryType, Zenon
    <3> QED BY <3>1, <3>2
  <2>4. TypeOK'
    BY <2>1, <2>2, <2>3, FrameType, Zenon DEF TypeOK
  <2> QED BY <2>1, <2>4, FrameStep, Zenon
<1>8. CASE UNCHANGED vars
  <2>1. TypeOK'
    BY <1>8 DEF vars, TypeOK, sessVars, tableVars, presVars
  <2> QED BY <1>8, <2>1, FrameStep DEF vars, tableVars
<1> QED BY <1>1, <1>2, <1>3, <1>4, <1>5, <1>6, <1>7, <1>8

\* The invariant is inductive ...
THEOREM IInvInvariant == Spec => []IInv
<1>1. IInv /\ [Next]_vars => IInv'
  BY ConnectStep, AllocateHostStep, ReservePortStep, OpenPortStep, HubBindStep,
     BeginReleaseStep, ReleasePortStep, ProcessEndsStep, QuietSteps
     DEF Next, SessionStep, Unbind, TeardownNext
<1> QED BY InitIInv, <1>1, PTL DEF Spec

\* ... so the state of the edges, the sessions and the registry keeps its type,
THEOREM TypeCorrect == Spec => []TypeOK
  BY IInvInvariant, PTL DEF IInv

\* every hub route leads to a tunnel its session still tracks
\* (Hub.bindHost, Hub.unbind, teardownSession),
THEOREM HubRouteOwnedAlways == Spec => []HubRouteOwned
  BY IInvInvariant, PTL DEF IInv

\* a tunnel bound on a subdomain or a port stays routable until its session
\* releases it (allocateHost, Hub.bindHost, releaseTunnel),
THEOREM LiveTunnelRoutedAlways == Spec => []LiveTunnelRouted
  BY IInvInvariant, PTL DEF IInv

\* the port pool marks exactly the ports that one tunnel occupies
\* (portManager.reserve, portManager.release),
THEOREM PortPoolExactAlways == Spec => []PortPoolExact
  BY IInvInvariant, PTL DEF IInv

\* and Hub.bindPort never meets a conflict.
THEOREM BindPortNeverConflictsAlways == Spec => []BindPortNeverConflicts
<1>1. IInv => BindPortNeverConflicts
  <2> SUFFICES ASSUME IInv, NEW s \in Sessions, pc[s] = "hub", bt[cur[s]].route \in Ports,
                      hub[home[s]][bt[cur[s]].route] # None
               PROVE  FALSE
    BY DEF BindPortNeverConflicts
  <2> USE DEF IInv
  <2> DEFINE e == home[s]
             p == bt[cur[s]].route
             t == hub[e][p]
  <2>1. /\ e \in Edges /\ p \in Routes /\ cur[s] \in Tunnels /\ bt[cur[s]].sess = s
        /\ cur[s] \notin tunnels[s]
    BY DEF SessionOK
  <2>2. t \in Tunnels
    BY <2>1 DEF TypeOK
  <2>3. bt[t].route = p /\ bt[t].sess \in Sessions /\ home[bt[t].sess] = e /\ t \in tunnels[bt[t].sess]
    BY <2>1, ZenonT(30) DEF HubRouteOwned
  <2>4. OccupiesPort(t, e, p)
    BY <2>3, ConstantsAssumption, Zenon DEF OccupiesPort
  <2>5. OccupiesPort(cur[s], e, p)
    BY <2>1, ConstantsAssumption DEF OccupiesPort
  <2>6. t = cur[s]
    <3> HIDE DEF e, p, t
    <3> p \in Ports
      BY DEF p
    <3> QED BY <2>1, <2>2, <2>4, <2>5 DEF PortPoolExact
  <2> QED BY <2>1, <2>3, <2>6
<1> QED BY <1>1, IInvInvariant, PTL
=============================================================================
