------------------------- MODULE EdgeRoutingSteps -------------------------
(***************************************************************************)
(* IInv is kept by the steps that write the hub and the port pool: opening *)
(* a port, Hub.bind, the release of a tunnel and of its port.              *)
(***************************************************************************)
EXTENDS EdgeRoutingInv

\* The port listener opens or fails (openTCPPort, openUDPPort).
LEMMA OpenPortStep ==
  ASSUME IInv, NEW s \in Sessions, OpenPort(s)
  PROVE  IInv'
<1> USE DEF IInv
<1> PICK e \in Edges, t \in Tunnels, p \in Ports : e = home[s] /\ t = cur[s] /\ p = bt[t].route
  BY DEF OpenPort, SessionOK
<1>0. /\ pc[s] = "listen" /\ bt[t].sess = s /\ t \notin tunnels[s] /\ p \in Routes
      /\ UNCHANGED <<estate, home, closing, tunnels, bt, hub, reg, presence, due, round, snap>>
  BY DEF OpenPort, SessionOK, presVars
<1>1. CASE lsn' = [lsn EXCEPT ![e] = @ \cup {p}] /\ pc' = [pc EXCEPT ![s] = "hub"]
           /\ UNCHANGED <<cur, used>>
  <2>1. TypeOK'
    BY <1>0, <1>1 DEF TypeOK
  <2>2. SessionOK'
    BY <1>0, <1>1 DEF TypeOK, SessionOK
  <2>3. HubRouteOwned' /\ LiveTunnelRouted'
    BY <1>0, TablesFrame
  <2>4. PortPoolExact'
    <3>1. \A x \in Tunnels, f \in Edges, q \in Ports :
            OccupiesPort(x, f, q)' <=> OccupiesPort(x, f, q)
      <4> SUFFICES ASSUME NEW x \in Tunnels, NEW f \in Edges, NEW q \in Ports
                   PROVE  OccupiesPort(x, f, q)' <=> OccupiesPort(x, f, q)
        OBVIOUS
      <4> bt[x].sess \in Sessions \cup {None}
        BY DEF TypeOK
      <4> QED BY <1>0, <1>1 DEF TypeOK, OccupiesPort
    <3> QED BY <3>1, <1>1 DEF PortPoolExact
  <2>5. PendingSubdomainOK'
    <3> \A x \in Sessions : pc'[x] = "hub" =>
           cur'[x] = cur[x] /\ (pc[x] = "hub" \/ bt[cur[x]].route \notin Subdomains)
      BY <1>0, <1>1, ConstantsAssumption DEF TypeOK
    <3> QED BY <1>0, PendingFrame
  <2> QED BY <2>1, <2>2, <2>3, <2>4, <2>5
<1>2. CASE used' = [used EXCEPT ![e] = @ \ {p}] /\ pc' = [pc EXCEPT ![s] = "idle"]
           /\ cur' = [cur EXCEPT ![s] = None] /\ UNCHANGED lsn
  <2>1. TypeOK'
    BY <1>0, <1>2 DEF TypeOK
  <2>2. SessionOK'
    BY <1>0, <1>2 DEF TypeOK, SessionOK
  <2>3. HubRouteOwned' /\ LiveTunnelRouted'
    BY <1>0, TablesFrame
  <2>4. PortPoolExact'
    <3>1. \A x \in Tunnels \ {t}, f \in Edges, q \in Ports :
            OccupiesPort(x, f, q)' <=> OccupiesPort(x, f, q)
      <4> SUFFICES ASSUME NEW x \in Tunnels \ {t}, NEW f \in Edges, NEW q \in Ports
                   PROVE  OccupiesPort(x, f, q)' <=> OccupiesPort(x, f, q)
        OBVIOUS
      <4> bt[x].sess \in Sessions \cup {None}
        BY DEF TypeOK
      <4> QED BY <1>0, <1>2 DEF TypeOK, OccupiesPort
    <3>2. \A f \in Edges, q \in Ports : OccupiesPort(t, f, q) <=> f = e /\ q = p
      BY <1>0, <1>2, ConstantsAssumption DEF TypeOK, OccupiesPort
    <3>3. \A f \in Edges, q \in Ports : q \in used'[f] <=> q \in used[f] /\ ~(f = e /\ q = p)
      BY <1>0, <1>2 DEF TypeOK
    <3>4. \A f \in Edges, q \in Ports : ~OccupiesPort(t, f, q)'
      BY <1>0, <1>2, ConstantsAssumption DEF TypeOK, OccupiesPort
    <3> QED
      <4> SUFFICES ASSUME NEW f \in Edges, NEW q \in Ports
                   PROVE  /\ q \in used'[f] <=> \E x \in Tunnels : OccupiesPort(x, f, q)'
                          /\ \A t1, t2 \in Tunnels :
                               OccupiesPort(t1, f, q)' /\ OccupiesPort(t2, f, q)' => t1 = t2
        BY Zenon DEF PortPoolExact
      <4>1. /\ q \in used[f] <=> \E x \in Tunnels : OccupiesPort(x, f, q)
            /\ \A t1, t2 \in Tunnels : OccupiesPort(t1, f, q) /\ OccupiesPort(t2, f, q) => t1 = t2
        BY Zenon DEF PortPoolExact
      <4>2. \A x \in Tunnels : OccupiesPort(x, f, q)' <=> OccupiesPort(x, f, q) /\ x # t
        <5> TAKE x \in Tunnels
        <5>1. CASE x = t
          BY <5>1, <3>4, Zenon
        <5>2. CASE x # t
          <6> x \in Tunnels \ {t}
            BY <5>2, Zenon
          <6> QED BY <5>2, <3>1, Zenon
        <5> QED BY <5>1, <5>2, Zenon
      <4>3. q \in used'[f] <=> q \in used[f] /\ ~OccupiesPort(t, f, q)
        BY <3>2, <3>3, Zenon
      <4> QED BY <4>1, <4>2, <4>3, Zenon
  <2>5. PendingSubdomainOK'
    <3> \A x \in Sessions : pc'[x] = "hub" => cur'[x] = cur[x] /\ pc[x] = "hub"
      BY <1>2 DEF TypeOK
    <3> QED BY <1>0, PendingFrame
  <2> QED BY <2>1, <2>2, <2>3, <2>4, <2>5
<1> QED BY <1>1, <1>2 DEF OpenPort

\* The route enters the hub or is refused (Hub.bindHost, Hub.bindPort).
LEMMA HubBindStep ==
  ASSUME IInv, NEW s \in Sessions, HubBind(s)
  PROVE  IInv'
<1> USE DEF IInv
<1> PICK e \in Edges, t \in Tunnels, r \in Routes : e = home[s] /\ t = cur[s] /\ r = bt[t].route
  BY DEF HubBind, SessionOK
<1>0. /\ pc[s] = "hub" /\ bt[t].sess = s /\ t \notin tunnels[s]
      /\ UNCHANGED <<estate, home, closing, bt, reg, presence, due, round, snap>>
  BY DEF HubBind, SessionOK, presVars
<1>a. \A x \in Tunnels : bt[x].sess \in Sessions \cup {None}
  BY DEF TypeOK
<1>b. r \in Ports => OccupiesPort(t, e, r)
  BY <1>0, ConstantsAssumption DEF OccupiesPort
<1>1. CASE TakenByAnother(s)
  <2>0. /\ used' = [used EXCEPT ![e] = @ \ {r}] /\ lsn' = [lsn EXCEPT ![e] = @ \ {r}]
        /\ pc' = [pc EXCEPT ![s] = "idle"] /\ cur' = [cur EXCEPT ![s] = None]
        /\ UNCHANGED <<tunnels, hub>>
    BY <1>1 DEF HubBind
  <2>1. TypeOK'
    BY <1>0, <2>0 DEF TypeOK
  <2>2. SessionOK'
    BY <1>0, <2>0 DEF TypeOK, SessionOK
  <2>3. HubRouteOwned' /\ LiveTunnelRouted'
    BY <1>0, <2>0, TablesFrame
  <2>4. PortPoolExact'
    <3>1. \A x \in Tunnels \ {t}, f \in Edges, q \in Ports :
            OccupiesPort(x, f, q)' <=> OccupiesPort(x, f, q)
      BY <1>0, <1>a, <2>0 DEF TypeOK, OccupiesPort
    <3>2. \A f \in Edges, q \in Ports : OccupiesPort(t, f, q) <=> f = e /\ q = r
      BY <1>0, <2>0, ConstantsAssumption DEF TypeOK, OccupiesPort
    <3>3. \A f \in Edges, q \in Ports : q \in used'[f] <=> q \in used[f] /\ ~(f = e /\ q = r)
      BY <1>0, <2>0 DEF TypeOK
    <3>4. \A f \in Edges, q \in Ports : ~OccupiesPort(t, f, q)'
      BY <1>0, <2>0, ConstantsAssumption DEF TypeOK, OccupiesPort
    <3> QED
      <4> SUFFICES ASSUME NEW f \in Edges, NEW q \in Ports
                   PROVE  /\ q \in used'[f] <=> \E x \in Tunnels : OccupiesPort(x, f, q)'
                          /\ \A t1, t2 \in Tunnels :
                               OccupiesPort(t1, f, q)' /\ OccupiesPort(t2, f, q)' => t1 = t2
        BY Zenon DEF PortPoolExact
      <4>1. /\ q \in used[f] <=> \E x \in Tunnels : OccupiesPort(x, f, q)
            /\ \A t1, t2 \in Tunnels : OccupiesPort(t1, f, q) /\ OccupiesPort(t2, f, q) => t1 = t2
        BY Zenon DEF PortPoolExact
      <4>2. \A x \in Tunnels : OccupiesPort(x, f, q)' <=> OccupiesPort(x, f, q) /\ x # t
        <5> TAKE x \in Tunnels
        <5>1. CASE x = t
          BY <5>1, <3>4, Zenon
        <5>2. CASE x # t
          <6> x \in Tunnels \ {t}
            BY <5>2, Zenon
          <6> QED BY <5>2, <3>1, Zenon
        <5> QED BY <5>1, <5>2, Zenon
      <4>3. q \in used'[f] <=> q \in used[f] /\ ~OccupiesPort(t, f, q)
        BY <3>2, <3>3, Zenon
      <4> QED BY <4>1, <4>2, <4>3, Zenon
  <2>5. PendingSubdomainOK'
    <3> \A x \in Sessions : pc'[x] = "hub" => cur'[x] = cur[x] /\ pc[x] = "hub"
      BY <2>0 DEF TypeOK
    <3> QED BY <1>0, <2>0, PendingFrame
  <2> QED BY <2>1, <2>2, <2>3, <2>4, <2>5
<1>2. CASE ~TakenByAnother(s)
  <2>0. /\ hub' = [hub EXCEPT ![e][r] = t] /\ tunnels' = [tunnels EXCEPT ![s] = @ \cup {t}]
        /\ pc' = [pc EXCEPT ![s] = "register"] /\ UNCHANGED <<cur, used, lsn>>
    BY <1>2 DEF HubBind
  <2>h. \A f \in Edges, q \in Routes : hub'[f][q] = IF f = e /\ q = r THEN t ELSE hub[f][q]
    BY <1>0, <2>0 DEF TypeOK
  \* The key is free, or held by this session for the same custom domain.
  <2>f. r \in Subdomains \cup Ports => hub[e][r] = None
    <3>1. hub[e][r] = None \/ bt[hub[e][r]].sess = s
      BY <1>2, Zenon DEF TakenByAnother
    <3>2. r \in Subdomains => hub[e][r] = None
      BY <1>0, <3>1, Zenon DEF PendingSubdomainOK
    <3>3. r \in Ports => hub[e][r] = None
      <4> SUFFICES ASSUME r \in Ports, hub[e][r] # None PROVE FALSE
        OBVIOUS
      <4>1. hub[e][r] \in Tunnels
        BY <1>0 DEF TypeOK
      <4>2. hub[e][r] \in tunnels[s] /\ bt[hub[e][r]].route = r
        BY <1>0, <3>1, ZenonT(30) DEF HubRouteOwned
      <4>3. OccupiesPort(hub[e][r], e, r)
        BY <1>0, <3>1, <4>2, ConstantsAssumption, Zenon DEF OccupiesPort
      <4>4. hub[e][r] = t
        BY <1>0, <1>b, <4>1, <4>3 DEF PortPoolExact
      <4> QED BY <1>0, <4>2, <4>4
    <3> QED BY <3>2, <3>3
  <2>1. TypeOK'
    BY <1>0, <2>0 DEF TypeOK
  <2>2. SessionOK'
    BY <1>0, <2>0 DEF TypeOK, SessionOK
  <2>3. HubRouteOwned'
    <3> SUFFICES ASSUME NEW f \in Edges, NEW q \in Routes, hub'[f][q] # None
                 PROVE  LET b == bt[hub'[f][q]]
                        IN /\ b.route = q /\ b.sess \in Sessions
                           /\ home[b.sess] = f /\ hub'[f][q] \in tunnels'[b.sess]
      BY <1>0 DEF HubRouteOwned
    <3>1. CASE f = e /\ q = r
      <4>1. hub'[f][q] = t
        BY <2>h, <3>1
      <4>2. t \in tunnels'[s]
        BY <2>0 DEF TypeOK
      <4> QED BY <1>0, <3>1, <4>1, <4>2
    <3>2. CASE ~(f = e /\ q = r)
      <4>1. hub'[f][q] = hub[f][q]
        BY <2>h, <3>2
      <4>2. \A y \in Sessions : tunnels[y] \subseteq tunnels'[y]
        BY <2>0 DEF TypeOK
      <4>3. LET b == bt[hub[f][q]]
            IN /\ b.route = q /\ b.sess \in Sessions
               /\ home[b.sess] = f /\ hub[f][q] \in tunnels[b.sess]
        BY <4>1 DEF HubRouteOwned
      <4> QED BY <4>1, <4>2, <4>3
    <3> QED BY <3>1, <3>2
  <2>4. LiveTunnelRouted'
    <3> SUFFICES ASSUME NEW y \in Sessions, NEW x \in tunnels'[y],
                        bt[x].route \in Subdomains \cup Ports
                 PROVE  hub'[home[y]][bt[x].route] = x
      BY <1>0 DEF LiveTunnelRouted
    <3>1. CASE x = t
      <4> y = s
        BY <1>0, <2>0, <3>1 DEF TypeOK, SessionOK
      <4> QED BY <1>0, <2>h, <3>1
    <3>2. CASE x # t
      <4>1. /\ x \in tunnels[y] /\ x \in Tunnels /\ home[y] \in Edges /\ bt[x].route \in Routes
        BY <2>0, <3>2 DEF TypeOK, SessionOK
      <4>2. hub[home[y]][bt[x].route] = x
        BY <4>1 DEF LiveTunnelRouted
      <4>3. ~(home[y] = e /\ bt[x].route = r)
        BY <2>f, <4>1, <4>2, ConstantsAssumption
      <4> QED BY <2>h, <4>1, <4>2, <4>3
    <3> QED BY <3>1, <3>2
  <2>5. PortPoolExact'
    <3>1. \A x \in Tunnels, f \in Edges, q \in Ports :
            OccupiesPort(x, f, q)' <=> OccupiesPort(x, f, q)
      BY <1>0, <1>a, <2>0 DEF TypeOK, OccupiesPort
    <3> QED BY <3>1, <2>0 DEF PortPoolExact
  <2>6. PendingSubdomainOK'
    <3> SUFFICES ASSUME NEW x \in Sessions, pc'[x] = "hub", bt[cur[x]].route \in Subdomains
                 PROVE  LET holder == hub'[home[x]][bt[cur[x]].route]
                        IN holder = None \/ bt[holder].sess # x
      BY <1>0, <2>0, Zenon DEF PendingSubdomainOK
    <3>1. x # s /\ pc[x] = "hub"
      BY <2>0 DEF TypeOK
    <3>2. home[x] \in Edges /\ bt[cur[x]].route \in Routes
      BY <3>1 DEF SessionOK
    <3>3. LET holder == hub[home[x]][bt[cur[x]].route]
          IN holder = None \/ bt[holder].sess # x
      BY <3>1, Zenon DEF PendingSubdomainOK
    <3>4. \/ hub'[home[x]][bt[cur[x]].route] = t
          \/ hub'[home[x]][bt[cur[x]].route] = hub[home[x]][bt[cur[x]].route]
      BY <2>h, <3>2
    <3> QED BY <1>0, <3>1, <3>3, <3>4, Zenon
  <2> QED BY <2>1, <2>2, <2>3, <2>4, <2>5, <2>6
<1> QED BY <1>1, <1>2

\* A tunnel leaves the hub (releaseTunnel).
LEMMA BeginReleaseStep ==
  ASSUME IInv, NEW s \in Sessions, NEW t \in Tunnels, t \in tunnels[s],
         pc[s] \in {"idle", "down"}, BeginRelease(s, t)
  PROVE  IInv'
<1> USE DEF IInv
<1> PICK e \in Edges, r \in Routes : e = home[s] /\ r = bt[t].route
  BY DEF SessionOK
<1>0. /\ tunnels' = [tunnels EXCEPT ![s] = @ \ {t}] /\ hub' = [hub EXCEPT ![e][r] = None]
      /\ cur' = [cur EXCEPT ![s] = t]
      /\ pc' = [pc EXCEPT ![s] = IF r \in Ports THEN "unport" ELSE "unregister"]
      /\ UNCHANGED <<estate, home, closing, bt, used, lsn, reg, presence, due, round, snap>>
      /\ bt[t].sess = s
  BY DEF BeginRelease, HubUnbind, presVars, SessionOK
<1>a. \A x \in Tunnels : bt[x].sess \in Sessions \cup {None}
  BY DEF TypeOK
<1>h. \A f \in Edges, q \in Routes : hub'[f][q] = IF f = e /\ q = r THEN None ELSE hub[f][q]
  BY <1>0 DEF TypeOK
<1>t. \A y \in Sessions, x \in Tunnels : x \in tunnels'[y] <=> x \in tunnels[y] /\ x # t
  BY <1>0 DEF TypeOK, SessionOK
<1>1. TypeOK'
  BY <1>0 DEF TypeOK
<1>2. SessionOK'
  BY <1>0 DEF TypeOK, SessionOK
<1>3. HubRouteOwned'
  <2> SUFFICES ASSUME NEW f \in Edges, NEW q \in Routes, hub'[f][q] # None
               PROVE  LET b == bt[hub'[f][q]]
                      IN /\ b.route = q /\ b.sess \in Sessions
                         /\ home[b.sess] = f /\ hub'[f][q] \in tunnels'[b.sess]
    <3> home' = home /\ bt' = bt
      BY <1>0, Zenon
    <3> QED BY DEF HubRouteOwned
  <2>1. hub'[f][q] = hub[f][q] /\ ~(f = e /\ q = r)
    BY <1>h
  <2>2. LET b == bt[hub[f][q]]
        IN /\ b.route = q /\ b.sess \in Sessions
           /\ home[b.sess] = f /\ hub[f][q] \in tunnels[b.sess]
    BY <2>1 DEF HubRouteOwned
  <2>3. hub[f][q] \in Tunnels
    BY <2>1 DEF TypeOK
  <2>4. hub[f][q] # t
    BY <1>0, <2>1, <2>2
  <2> QED BY <1>t, <2>1, <2>2, <2>3, <2>4
<1>4. LiveTunnelRouted'
  <2> SUFFICES ASSUME NEW y \in Sessions, NEW x \in tunnels'[y],
                      bt[x].route \in Subdomains \cup Ports
               PROVE  hub'[home[y]][bt[x].route] = x
    BY <1>0 DEF LiveTunnelRouted
  <2>1. x \in Tunnels /\ x \in tunnels[y] /\ x # t
    BY <1>1, <1>t DEF TypeOK
  <2>2. hub[home[y]][bt[x].route] = x /\ home[y] \in Edges /\ bt[x].route \in Routes
    BY <2>1 DEF LiveTunnelRouted, SessionOK
  <2>3. ~(home[y] = e /\ bt[x].route = r)
    BY <2>1, <2>2 DEF LiveTunnelRouted
  <2> QED BY <1>h, <2>2, <2>3
<1>5. PortPoolExact'
  <2>1. \A x \in Tunnels, f \in Edges, q \in Ports :
          OccupiesPort(x, f, q)' <=> OccupiesPort(x, f, q)
    BY <1>0, <1>a, <1>t DEF TypeOK, OccupiesPort
  <2> QED BY <2>1, <1>0 DEF PortPoolExact
<1>6. PendingSubdomainOK'
  <2> SUFFICES ASSUME NEW x \in Sessions, pc'[x] = "hub", bt[cur'[x]].route \in Subdomains
               PROVE  LET holder == hub'[home[x]][bt[cur'[x]].route]
                      IN holder = None \/ bt[holder].sess # x
    BY <1>0, Zenon DEF PendingSubdomainOK
  <2>1. x # s /\ pc[x] = "hub" /\ cur'[x] = cur[x]
    BY <1>0 DEF TypeOK
  <2>2. home[x] \in Edges /\ bt[cur[x]].route \in Routes
    BY <2>1 DEF SessionOK
  <2>3. LET holder == hub[home[x]][bt[cur[x]].route]
        IN holder = None \/ bt[holder].sess # x
    BY <2>1, Zenon DEF PendingSubdomainOK
  <2>4. \/ hub'[home[x]][bt[cur[x]].route] = None
        \/ hub'[home[x]][bt[cur[x]].route] = hub[home[x]][bt[cur[x]].route]
    BY <1>h, <2>2
  <2> QED BY <2>1, <2>3, <2>4, Zenon
<1> QED BY <1>1, <1>2, <1>3, <1>4, <1>5, <1>6

\* Its port returns to the pool (portManager.release).
LEMMA ReleasePortStep ==
  ASSUME IInv, NEW s \in Sessions, ReleasePort(s)
  PROVE  IInv'
<1> USE DEF IInv
<1> PICK e \in Edges, t \in Tunnels, p \in Ports : e = home[s] /\ t = cur[s] /\ p = bt[t].route
  BY DEF ReleasePort, SessionOK
<1>0. /\ pc[s] = "unport" /\ bt[t].sess = s /\ t \notin tunnels[s]
      /\ used' = [used EXCEPT ![e] = @ \ {p}] /\ lsn' = [lsn EXCEPT ![e] = @ \ {p}]
      /\ pc' = [pc EXCEPT ![s] = "unregister"]
      /\ UNCHANGED <<estate, home, closing, cur, tunnels, bt, hub, reg, presence, due, round, snap>>
  BY DEF ReleasePort, SessionOK, presVars
<1>a. \A x \in Tunnels : bt[x].sess \in Sessions \cup {None}
  BY DEF TypeOK
<1>1. TypeOK'
  BY <1>0 DEF TypeOK
<1>2. SessionOK'
  BY <1>0 DEF TypeOK, SessionOK
<1>3. HubRouteOwned' /\ LiveTunnelRouted'
  BY <1>0, TablesFrame
<1>4. PortPoolExact'
  <2>1. \A x \in Tunnels \ {t}, f \in Edges, q \in Ports :
          OccupiesPort(x, f, q)' <=> OccupiesPort(x, f, q)
    BY <1>0, <1>a DEF TypeOK, OccupiesPort
  <2>2. \A f \in Edges, q \in Ports : OccupiesPort(t, f, q) <=> f = e /\ q = p
    BY <1>0, ConstantsAssumption DEF TypeOK, OccupiesPort
  <2>3. \A f \in Edges, q \in Ports : q \in used'[f] <=> q \in used[f] /\ ~(f = e /\ q = p)
    BY <1>0 DEF TypeOK
  <2>4. \A f \in Edges, q \in Ports : ~OccupiesPort(t, f, q)'
    BY <1>0, ConstantsAssumption DEF TypeOK, OccupiesPort
  <2> QED
    <3> SUFFICES ASSUME NEW f \in Edges, NEW q \in Ports
                 PROVE  /\ q \in used'[f] <=> \E x \in Tunnels : OccupiesPort(x, f, q)'
                        /\ \A t1, t2 \in Tunnels :
                             OccupiesPort(t1, f, q)' /\ OccupiesPort(t2, f, q)' => t1 = t2
      BY Zenon DEF PortPoolExact
    <3>1. /\ q \in used[f] <=> \E x \in Tunnels : OccupiesPort(x, f, q)
          /\ \A t1, t2 \in Tunnels : OccupiesPort(t1, f, q) /\ OccupiesPort(t2, f, q) => t1 = t2
      BY Zenon DEF PortPoolExact
    <3>2. \A x \in Tunnels : OccupiesPort(x, f, q)' <=> OccupiesPort(x, f, q) /\ x # t
      <4> TAKE x \in Tunnels
      <4>1. CASE x = t
        BY <4>1, <2>4, Zenon
      <4>2. CASE x # t
        <5> x \in Tunnels \ {t}
          BY <4>2, Zenon
        <5> QED BY <4>2, <2>1, Zenon
      <4> QED BY <4>1, <4>2, Zenon
    <3>3. q \in used'[f] <=> q \in used[f] /\ ~OccupiesPort(t, f, q)
      BY <2>2, <2>3, Zenon
    <3> QED BY <3>1, <3>2, <3>3, Zenon
<1>5. PendingSubdomainOK'
  <2> \A x \in Sessions : pc'[x] = "hub" => cur'[x] = cur[x] /\ pc[x] = "hub"
    BY <1>0 DEF TypeOK
  <2> QED BY <1>0, PendingFrame
<1> QED BY <1>1, <1>2, <1>3, <1>4, <1>5
=============================================================================
