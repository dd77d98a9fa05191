---------------------------- MODULE EdgeIngress ----------------------------
(***************************************************************************)
(* Public HTTP connections on top of EdgeRouting: serveHTTPConn with its   *)
(* keep-alive loop, basic-auth throttle and cross-edge fallback            *)
(* (forwardHTTP, dialForwardWithRetry, serveForward), and routeHTTPS, the  *)
(* HTTP/2 and HTTP/3 handler.  Every edge belongs to the forwarding mesh.  *)
(*                                                                         *)
(* A forwarded connection moves to the peer edge: the first edge only      *)
(* copies bytes from then on (rawJoin).  Reserved control-plane hosts and  *)
(* request contents are left out.                                          *)
(***************************************************************************)
EXTENDS EdgeRouting

CONSTANTS
  Conns,                 \* public connections
  Kinds,                 \* "h1" (serveHTTPConn) and "h2/h3" (routeHTTPS)
  MaxBasicAuthFailures   \* maxBasicAuthFailures

ASSUME IngressAssumption == MaxBasicAuthFailures \in Nat \ {0}

VARIABLES
  conn,    \* connection -> its state
  steady   \* connection -> its host has had one undisturbed home since the
           \* request was read (history variable)

ivars == <<vars, conn, steady>>

NoConn == [st |-> "none", kind |-> "h1", origin |-> None, edge |-> None, hops |-> 0,
           host |-> None, readAt |-> None, tun |-> None, peer |-> None, fails |-> 0,
           ans |-> "none"]

At(c, st) == conn[c].st = st

\* The connection's next state, with the fields of record f changed.
Becomes(c, f) ==
  conn' = [conn EXCEPT ![c] = [x \in DOMAIN NoConn |-> IF x \in DOMAIN f THEN f[x] ELSE @[x]]]

\* An error answer ends an HTTP/1.1 connection; an h2 or h3 stream just ends.
Refuse(c, code) ==
  Becomes(c, [st |-> IF conn[c].kind = "h1" THEN "closed" ELSE "ready", ans |-> code])

IngressInit ==
  /\ Init
  /\ conn = [c \in Conns |-> NoConn]
  /\ steady = [c \in Conns |-> FALSE]

\* acceptHTTP: listeners are open until the drain closes them.
Accept(c, e, kind) ==
  /\ At(c, "none") /\ estate[e] \notin {"stopped", "closed"}
  /\ Becomes(c, [st |-> "ready", kind |-> kind, origin |-> e, edge |-> e])

\* http.ReadRequest, or the end of the connection.
ReadRequest(c) ==
  /\ At(c, "ready")
  /\ \/ \E h \in Hosts :
          Becomes(c, [st |-> "lookup", host |-> h, readAt |-> conn[c].edge, ans |-> "none"])
     \/ Becomes(c, [st |-> "closed", ans |-> "none"])

\* hub.LookupHost.  A miss falls back to the mesh unless the connection came
\* over it (single-hop guard); routeHTTPS has no fallback.
AnyConnForwards(c) == conn[c].kind = "h1"   \* Faulty: no single-hop guard.
MayForward(c) == conn[c].kind = "h1" /\ conn[c].hops = 0

LookupHost(c) ==
  LET t == hub[conn[c].edge][conn[c].host]
  IN /\ At(c, "lookup")
     /\ \/ t # None /\ Becomes(c, [st |-> "matched", tun |-> t])
        \/ t = None /\ MayForward(c) /\ Becomes(c, [st |-> "forward"])
        \/ t = None /\ ~MayForward(c) /\ Refuse(c, "404")

\* Faulty: one failure too many before the connection is dropped.
FailuresPastCap(n) == n > MaxBasicAuthFailures
FailuresAtCap(n) == n >= MaxBasicAuthFailures

\* checkBasicAuth refuses: the connection survives until the cap.
AuthFails(c) ==
  LET n == conn[c].fails + 1
  IN /\ At(c, "matched")
     /\ IF conn[c].kind = "h1"
          THEN Becomes(c, [st |-> IF FailuresAtCap(n) THEN "closed" ELSE "ready",
                           fails |-> n, ans |-> "401"])
          ELSE Refuse(c, "401")

\* openDataStream and the exchange with the agent; the tunnel found by the
\* lookup may be released and its session gone by now.
Relay(c) ==
  /\ At(c, "matched")
  /\ \/ /\ pc[bt[conn[c].tun].sess] \notin {"gone", "lost"}
        /\ \E st \in {"ready", "closed"} : Becomes(c, [st |-> st, ans |-> "ok"])
     \/ Refuse(c, "502")

\* forwardHTTP: the registry decides; a miss, an error or this very edge is a
\* 404.
OwnerOutcomes(c) == CommandOutcomes(estate[conn[c].edge] # "closed")

\* Faulty: takes a binding that was not renewed this heartbeat for a lapsed one.
OwnedFreshly(c) ==
  reg[conn[c].host].ttl = RouteTTL /\ reg[conn[c].host].edge # conn[c].edge
OwnedElsewhere(c) ==
  Registered(conn[c].host) /\ reg[conn[c].host].edge # conn[c].edge

ForwardLookup(c) ==
  /\ At(c, "forward")
  /\ \E out \in OwnerOutcomes(c) :
       IF out = "ok" /\ OwnedElsewhere(c)
         THEN Becomes(c, [st |-> "dial", peer |-> reg[conn[c].host].edge])
         ELSE Refuse(c, "404")

\* dialForwarder.Dial: LookupEdge, then the peer's forward listener, which
\* drain closes together with the address.
Reachable(e) == presence[e] > 0 /\ estate[e] \in {"up", "draining"}

\* The first dial of dialForwardWithRetry.
Dial(c) ==
  /\ At(c, "dial")
  /\ \/ Reachable(conn[c].peer) /\ Becomes(c, [st |-> "handoff"])
     \/ (RedisMayFail \/ ~Reachable(conn[c].peer)) /\ Becomes(c, [st |-> "retry"])

\* Its fresh lookup: another peer, or the dial error.
RetryLookup(c) ==
  /\ At(c, "retry")
  /\ \E out \in OwnerOutcomes(c) :
       IF out = "ok" /\ OwnedElsewhere(c) /\ reg[conn[c].host].edge # conn[c].peer
         THEN Becomes(c, [st |-> "redial", peer |-> reg[conn[c].host].edge])
         ELSE Refuse(c, "502 no peer")

\* Its second and last dial.
Redial(c) ==
  /\ At(c, "redial")
  /\ \/ Reachable(conn[c].peer) /\ Becomes(c, [st |-> "handoff"])
     \/ (RedisMayFail \/ ~Reachable(conn[c].peer)) /\ Refuse(c, "502 no peer")

\* serveForward accepts the header and its token, and serves the request that
\* forwardHTTP replays as if the client had connected there.
serveForward(c) ==
  /\ At(c, "handoff") /\ estate[conn[c].peer] # "stopped"
  /\ Becomes(c, [st |-> "lookup", edge |-> conn[c].peer, hops |-> conn[c].hops + 1, fails |-> 0])

\* The peer is gone, or closed the connection before it read the header: the replay
\* fails and is a 502, or it is lost and the client's connection ends unanswered.
HandoffFails(c) ==
  /\ At(c, "handoff") /\ (RedisMayFail \/ estate[conn[c].peer] \notin {"up", "draining"})
  /\ Refuse(c, "502 no peer") \/ Becomes(c, [st |-> "closed"])

ConnStep(c) ==
  \/ ReadRequest(c) \/ LookupHost(c) \/ AuthFails(c) \/ Relay(c)
  \/ ForwardLookup(c) \/ Dial(c) \/ RetryLookup(c) \/ Redial(c)
  \/ serveForward(c) \/ HandoffFails(c)

\* A connection dies with a process it runs through.
Cut(c) == \E e \in {conn[c].origin, conn[c].edge} \ {None} : estate'[e] = "stopped"

\* One live edge routes the host, the registry says so, and every edge is
\* serving and advertised.
Undisturbed(c) ==
  LET h == conn[c].host
  IN /\ h # None
     /\ \A e \in Edges : Up(e) /\ presence[e] > 0
     /\ \E e \in Edges :
          /\ hub[e][h] # None /\ Registered(h) /\ reg[h].edge = e
          /\ \A f \in Edges \ {e} : hub[f][h] = None

Track ==
  steady' = [c \in Conns |->
               /\ IF At(c, "ready") THEN At(c, "lookup")' ELSE steady[c]
               /\ Undisturbed(c)']

IngressNext ==
  /\ \/ Next /\ conn' = [c \in Conns |-> IF Cut(c) THEN [NoConn EXCEPT !.st = "closed"]
                                                  ELSE conn[c]]
     \/ /\ \E c \in Conns :
             \/ \E e \in Edges, kind \in Kinds : Accept(c, e, kind)
             \/ ConnStep(c)
        /\ UNCHANGED vars
  /\ Track

IngressSpec == IngressInit /\ [][IngressNext]_ivars

\* Type invariant of the public connections.
IngressTypeOK ==
  /\ \A c \in Conns :
       /\ conn[c].st \in {"none", "ready", "lookup", "matched", "forward", "dial", "retry",
                          "redial", "handoff", "closed"}
       /\ conn[c].kind \in {"h1"} \cup Kinds
       /\ {conn[c].origin, conn[c].edge, conn[c].peer} \subseteq Edges \cup {None}
       /\ conn[c].host \in Hosts \cup {None}
       /\ conn[c].tun \in Tunnels \cup {None}
       /\ conn[c].fails \in 0..MaxBasicAuthFailures
  /\ steady \in [Conns -> BOOLEAN]

\* The mesh never loops: a connection crosses at most one inter-edge hop, and
\* that hop leaves the edge the client reached, whatever stale bindings the
\* registry holds at the lookup and at the retry.
ForwardOnce ==
  \A c \in Conns : conn[c].hops <= 1 /\ (conn[c].hops = 1 => conn[c].edge # conn[c].origin)

\* If one edge serves the host all through an HTTP/1.1 request and the registry
\* says so, the client is not told that the tunnel does not exist (404) or
\* cannot be reached through the mesh, at whichever edge it connected.  (A
\* later request on a connection already handed to a peer stays with that peer
\* and is not covered.)
SteadyHostServed ==
  \A c \in Conns :
    steady[c] /\ conn[c].kind = "h1" /\ conn[c].readAt = conn[c].origin
    => conn[c].ans \notin {"404", "502 no peer"}
=============================================================================
