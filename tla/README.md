# Verification of trqsh

trqsh is a tunnel service. An *agent* on a developer's machine keeps one
multiplexed connection to an *edge* and binds tunnels on it. The edge gives
every tunnel a public host name or a public port and relays public traffic to
the agent. A *control API* authenticates agents, answers what an account may
bind, records tunnel history and usage, and runs billing against Stripe. Several
edges form a mesh through a Redis registry.

This directory holds TLA+ models of those parts, the TLC configurations that
check them on small instances, and proofs checked by TLAPS.

## 1. Inventory

| Part | Code | State | Operations | Who runs concurrently |
|---|---|---|---|---|
| Edge routing | `internal/server/{server,session,hub,registry,forward_listener,ingress_tcp,ingress_udp}.go` | `Hub.byHost/byPort`, session tunnel lists, `portManager`, Redis route and edge keys | bind, unbind, teardown, presence loop, drain | a goroutine per session, the presence goroutine, drain, other edges |
| Public HTTP ingress, mesh | `internal/server/{ingress_http,ingress_h3,forward,forward_listener}.go` | per connection only | accept, route, authenticate, relay, forward, retry | a goroutine per connection |
| Usage metering on the edge | `internal/server/usage.go` | counters per account | record, flush, stop | connections, flush ticker, drain |
| Certificate storage | `internal/server/{tls,tls_acme,tls_storage_redis}.go` | Redis keys, lock leases | Store, Load, Delete, Lock, Unlock, refresh, Close | edges sharing one Redis |
| UDP and TCP data paths | `internal/server/ingress_{tcp,udp}.go`, `weld.go` | flow tables | accept, relay, close | a goroutine per flow |
| Agent core | `internal/agent/{core,session,reconnect}.go` | session, tunnels, pending binds | start, stop, connect, reconnect, rebind, shutdown | API calls, control loop, reconnect goroutine |
| Agent data path | `internal/agent/forward.go` | none | relay, capture | a goroutine per stream |
| Agent inspector, local API | `internal/agent/{localapi,remoteapi}.go`, `inspect/` | ring buffer, subscribers, remote session | add, replay, publish, subscribe | HTTP handlers, event pump |
| Tunnel transport | `pkg/tunnel` | accept queue | dial with fallback, listen, accept, close | two accept loops |
| Wire format | `pkg/proto` | none | frame, unframe | none |
| API: entitlements | `internal/api/{entitlements,rpc,plans}.go`, `internal/entitlerpc`, `pkg/authz` | caches | authenticate, check a bind, report | edges calling the API |
| API: tunnel history | `internal/api/rpc.go`, `store` | session rows | open and close reports | reports race |
| API: remote control relay | `internal/api/remote.go` | sessions, viewers | create, attach, publish, command, end, sweep | agent and viewers' websockets, sweeper |
| API: device login | `internal/api/auth/device.go`, `device_redis.go` | codes | create, approve, poll | browser and CLI |
| API: OAuth state, revocation, rate limits | `internal/api/{oauth_state,token_revoke_redis,ratelimit_redis}.go`, `auth/revoke.go` | nonces, revoked ids, buckets | issue, check, revoke, allow | HTTP handlers |
| API: resources | `internal/api/handlers_resources.go`, `store` | subdomains, domains, keys | reserve, add, verify, delete | HTTP handlers |
| Billing: webhooks, checkout | `internal/billing/{webhooks,checkout,billing}.go` | processed events, subscriptions, customers | one handler per event type | Stripe's deliveries and retries |
| Billing: metering | `internal/billing/metering.go` | metered rows | collect, flush | metering loop, Stripe failures |
| CLI, TUI, desktop, web | `internal/agent/cli`, `desktop`, `web`, `cmd` | user interface | | |

## 2. Plan

The core comes first: who owns a public name, on one edge and across edges.

1. `EdgeRouting`, then `EdgeIngress` on top of it: **done**.
2. `EdgeRoutingInv`, `EdgeRoutingSteps`, `EdgeRoutingProofs`: type correctness and
   the main routing invariants: **done**.
3. `Webhooks` and `Metering`: what Stripe's retries do to plans and invoices: **done**.
4. `AgentSession`: connect, reconnect and rebind against a modelled edge: **done**.
5. `EdgeReports`: reports that travel out of order or are lost: **done**.
6. `CertLock`: the issuance lock: **done**. Next the file half of the storage.
7. `RemoteRelay`, `DeviceFlow`, `AuthCache`, then the smaller stores (OAuth state,
   revocation, rate limits, resource limits), the inspector and event fan-out, UDP
   flows, dial fallback and the accept queue. The smaller ones are checked together
   by MC modules that instantiate several of them and let the initial state choose
   which one runs.
8. More proofs: mutual exclusion in `CertLock` from its lease invariant,
   `UsageConserved` and `HistoryKeyed` in `EdgeReports`, `ChargedOnce` in `Metering`,
   `LiveSessionKept` in `AgentSession`, and a refinement of an abstract name service
   by `EdgeRouting`.

## 3. Modules

Every handler is split exactly where the code gives up a lock, waits for the
network or calls a store; everything between two such points is one action.
A definition whose comment says *Faulty* is no part of a model: it is a variant of
the definition after it, with which a run is repeated to see that its property
notices the fault.

### EdgeRouting

State: `hub` is `Hub.byHost` and `byPort`; `tunnels` and `bt` are a session's
tunnel map and the `boundTunnel` objects; `used` and `lsn` are `portManager`;
`reg` and `presence` are the Redis route keys and edge addresses, each with a TTL in
heartbeats. `pc[s]` is the place session `s`'s goroutine has reached. A member of
`Tunnels` is a `boundTunnel` together with its client tunnel id, so the model assumes
that a session does not use an id for two tunnels at a time: the agent draws it at
random, `rift.proto` calls it "unique per session", and `trackTunnel` overwrites without
looking.

| Actions | Code |
|---|---|
| `Connect`, `AllocateHost`, `ReservePort`, `OpenPort`, `HubBind`, `Register` | `serveSession`, `handleBind`, `bindHostTunnel`, `bindPortTunnel`, `allocateHost`, `openTCPPort`, `trackTunnel`, `RedisRegistry.Bind` |
| `BeginRelease`, `ReleasePort`, unregister | `handleUnbind`, `teardownSession`, `releaseTunnel`, `RedisRegistry.Unbind` |
| presence and clock steps | `runPresence`, `RegisterEdge`, `Refresh`, Redis expiry |
| drain, crash, restart | `drain`, the end of a process |

### EdgeIngress

Extends `EdgeRouting` with public connections: local lookup, basic authentication
with its failure cap, relay, lookup in the registry, one hop to the owning
edge, and the one retry after a failed dial. Between the dial and the peer's
`serveForward` the handoff may break (a failed write, a refused handshake, a peer that
has stopped): the client gets a 502. HTTP/1.1 and h2/h3 have different handlers in
the code and in the model; only the first forwards.

### EdgeReports

Open and close reports of tunnels, each sent by a goroutine of its own, the
`tunnel_sessions` table they write, and the usage aggregator with its ticker, its
last flush and the `usage_records` table. A connection counts one unit of traffic
when it ends, possibly after its tunnel is gone.

### CertLock

One lock name of `RedisStorage`: the leased Redis key, the `locks` map of each edge,
the refreshers. A tick is `lockTTL / 3`, the period of a refresher. A task is a
goroutine of certmagic; several tasks may run on one edge and share its map. Winning
the key (`SetNX`) and entering it in the map (`Hold`) are two steps, and the answer to
`SETNX` may be lost, which leaves a key that only its lease removes. A closed or dead
edge takes no further step, as its Redis client is closed.

### AgentSession

`connected`, `sess`, `control`, `closed` and `tunnels` are the fields of `Agent` under
`a.mu`. An entry of `tunnels` is a spec, the session that bound it and a number, which
together are its client tunnel id; comparing sessions stands for comparing `gen`. Calls of `StartTunnel` and reconnect goroutines are processes
that dial, install the session, send a bind, wait for its answer and record it.
The control and the accept loop of a session end independently. The edge is
external: it grants a name asked for when the account has reserved it and nobody
holds it, and frees it when it notices the end of the session, at any time after the
loss. A re-bind always asks for a name, which is what `rebindAll` does by filling
`Subdomain`. `owed` remembers the entries taken out of the list for a re-bind and
`reported` the specs for which an error event was emitted.

### Webhooks

Checkouts, Stripe's event log, its deliveries (concurrent, repeated, reordered
unless `InOrder`), and `HandleWebhook`: mark the event, dispatch, and one store
call per step for each of the event types. Any store call may fail, with `MayFail`; the
one whose failure the code ignores (`GetOrg` before `SetOrgStripeCustomer`) is skipped.
Redeliveries and failures share the budget `MaxTrouble`.

### Metering

`RunMeteringLoop` in several API replicas: roll up a month's usage per org and
metric, insert a row unless there is one, push the oldest `Limit` pending rows to
Stripe (500 in the code), mark them. Stripe drops an identifier it has seen in the last
`DedupPeriod`: it promises at least a day, and `deploy/.env.prod.example` suggests a
round per hour.

## 4. Runs

### Properties that hold

| Run | Properties | What it shows |
|---|---|---|
| `edge_hub` | `TypeOK`, `HubRouteOwned`, `LiveTunnelRouted`, `PortPoolExact`, `BindPortNeverConflicts`, `RoutedPortListens` | One edge, two agent sessions binding, unbinding and dying in every order over a shared subdomain, custom domain and port: the routing table, the port pool, the listeners and the registry stay consistent. |
| `edge_mesh` | `LiveEdgeAdvertised`, `OrphanRouteExpires`, `StoppedEdgeForgotten` | Two edges that drain, crash, restart or stop for good: the address of a live edge never runs out of TTL, and what a dead edge left in the registry expires. |
| `ingress_steady` | `SteadyHostServed`, `RegistryEntryOwned`, `ServedRouteNeverExpires` | Two edges, requests arriving at either while tunnels are bound and released and TTLs run: a host with one undisturbed home is never answered 404 or unreachable over HTTP/1.1, and a served route never runs out of TTL. |
| `ingress_retry` | `IngressTypeOK`, `ForwardOnce` | Three edges, one of which stops, so that a dial fails, a handoff breaks and the route moves before the retry: one hop at most, never back to the same edge. |
| `reports_core` | `TypeOK`, `HistoryKeyed`, `UsageConserved`, `ActiveIsLive`, `ClosedRowsOwn` | Two tunnels bound again while reports overtake each other or are lost, and connections that end while the aggregator flushes or stops: one active row per triple, no traffic stored twice, and an exact live list when reports kept their order. |
| `certlock_core` | `TypeOK`, `MutualExclusion`, `ReleasesOwn`, `DeadHolderReplaced`, `OrphanKeyExpires` | Three tasks on two edges, one failed Redis call or lost SETNX answer, an edge that closes or dies: one living holder at most, a release frees nobody else's key, a dead holder is replaced by whoever still waits, and a key nobody holds expires. |
| `agent_core` | `TypeOK`, `LiveSessionKept`, `RebindAccounted`, `EdgeMatchesList`, `Reconnects` | A reserved and an unreserved tunnel, one caller and two disturbances out of session losses, failed dials, late answers, stops and a shutdown, with an edge that notices a loss at any later time: an old session's end never takes a live one away, no tunnel disappears unless its re-bind failed, was reported or was stopped, edge and list agree when nothing is under way, and the agent connects again. |
| `webhooks_mirror` | `MirrorsStripe` | Events delivered one at a time and in order, with a redelivery, with price changes in every live status and with two checkouts that race to create a customer: the subscription row and the plan mirror Stripe whenever everything is answered. |
| `webhooks_faults` | `TypeOK`, `PlanBought`, `AnsweredAccounted` | Two orgs, two customers and two subscriptions, two handlers, deliveries out of order, and one failing call, lost answer, death or redelivery: no org carries a plan nobody bought for it, every event answered 200 was handled to its end or lost to a failure of its own handler, and no unconfigured price reaches orgs.plan. |
| `metering_once` | `TypeOK`, `ChargedOnce`, `ReportedMeansCharged`, `PendingReported` | Two replicas of the metering loop with two failing calls, lost answers or crashes, one of two metrics without a Stripe meter, and batches of one row: a month is charged once while Stripe remembers its identifier, a row is marked reported only when charged, and a pending row that can be pushed is reported in the end unless older rows that cannot be pushed fill the batch. |

### Disagreements between the code and what it says of itself

| Run | Properties | What it shows |
|---|---|---|
| `webhooks_retry` | `AnsweredMeansApplied` | An event whose handler failed is answered duplicate_ignored when Stripe retries it, and is never applied. |
| `metering_round` | `RoundCharged` | Only the first round of a month inserts a row, so usage recorded after it is read by every later round and never charged. |

Both are entries of `findings` in `PROJECT.json`, which quote the comment they
contradict.

Further statements the code does not keep stand at the end of their modules, or are
properties above that need the assumption their run makes. No run is kept for
them; each is refuted by putting it alone into the named configuration, without
symmetry and with the constants changed as said. `EveryRowReported` is a liveness
statement and needs the fairness of its configuration; the others need none.

| Statement | Configuration | Counterexample |
|---|---|---|
| `LiveRouteRegistered` | `EdgeRouting_hub.cfg`, `RedisMayFail = FALSE` | The late `Unbind` of an old session deletes the registry key its successor has just written (`registry.go:201`); the presence loop only renews TTLs and never writes it again, so peers answer 404. `forward_listener.go:98`: "so neither lapses in the shared registry while the edge is live". |
| `DrainedEdgeNotAdvertised` | `EdgeRouting_mesh.cfg` | A presence tick taken after the context is cancelled registers the edge again behind drain's `UnregisterEdge`, for one more TTL (`forward_listener.go:110`). `registry.go:48`: "UnregisterEdge removes it at drain so peers stop forwarding to a shutting-down edge". |
| `ActiveIsLiveAlways` | `EdgeReports_core.cfg` | A close report that overtakes its open report leaves a row that is active for ever (`server.go:492`). `handlers_resources.go:268`: "the "active" set is the authoritative live list". |
| `FinalTotals` | `EdgeReports_core.cfg` | Connections that outlive their tunnel are missing from the closed row's totals (`server.go:508`). `server.go:495`: "with final traffic totals". |
| `DrainReportsAll` | `EdgeReports_core.cfg` | drain stops the aggregator before the open connections have ended (`server.go:609`), so what they record is never reported. `usage.go:93`: "Stop flushes and stops the aggregator." |
| `ReleasesOwn` | `CertLock_core.cfg`, `MaxFails = 2` | After a lapsed lease another task of the same edge holds the lock; the first task's `Unlock` finds that task's entry in the map, which is keyed by name only, and deletes its key (`tls_storage_redis.go:300`). `tls_storage_redis.go:296`: "deletes the key only if we still own it". |
| `RebindRestores` | `AgentSession_core.cfg` | A second loss during `rebindAll` makes the agent forget the tunnel whose entry was deleted for its re-bind (`reconnect.go:90`). `reconnect.go:41`: "re-binds every previously active tunnel". |
| `RebindRestores` | `AgentSession_core.cfg`, `Reserved = {}`, `MaxTrouble = 1` | A tunnel with a random name asks for that name by its first label when it is bound again, which is refused because it is not reserved (`reconnect.go:84`). `docs/build-log/04-agent-cli.md:63`: "**re-bind every tunnel**". |
| `RebindRestores` | `AgentSession_core.cfg`, `Reserved = {t1, t2}`, `MaxTrouble = 1` | An edge that has not noticed the loss answers the re-bind with a conflict, and it is not tried again (`reconnect.go:93`). |
| `StoppedStaysStopped` | `AgentSession_core.cfg` | A tunnel stopped while the agent reconnects is bound again from the snapshot (`reconnect.go:25`). `core.go:286`: "StopTunnel unbinds a tunnel by id." |
| `ListedIsBound` | `AgentSession_core.cfg` | A tunnel recorded after the loss of its session stays listed and is bound nowhere (`session.go:189`). `core.go:255`: "List returns snapshots of all active tunnels." |
| `ShutdownCloses` | `AgentSession_core.cfg` | A dial that completes after Shutdown leaves its session open (`session.go:83`). `core.go:307`: "Shutdown closes all tunnels and the session." |
| `MirrorsStripe` | `Webhooks_mirror.cfg`, `InOrder = FALSE` | Events that overtake each other leave the row and the plan on an older state (`webhooks.go:105`). `00002_billing.sql:4`: "One row per org mirroring its Stripe subscription." |
| `PayingOrgKeepsPlan` | `Webhooks_mirror.cfg`, `SingleSub = FALSE` | The end of an org's first subscription downgrades it although its second one is active (`webhooks.go:151`). `checkout.go:9`: "to subscribe to (or upgrade/downgrade to) a target plan". |
| `EveryRowReported` | `Metering_once.cfg` | Pending rows of a metric without a Stripe meter, or of an org without a customer, fill the batch of the oldest rows, and later rows are never read (`postgres.go:763`). `metering.go:67`: "pushes pending metered_usage rows to Stripe". |
| `ChargedOnce` | `Metering_once.cfg`, `DedupPeriod = 1` | A row whose push was not marked is pushed again after Stripe has forgotten its identifier (`metering.go:89`). `metering.go:69`: "a retry after a partial failure never double-counts". |
| `RowWithinWindow` | `Metering_round.cfg` | A round that starts in one month and reads usage in the next counts the new month's usage into the old month's row (`metering.go:38`). `metering.go:13`: "over [start, end)". |

### Bounds

- `EdgeRouting`: two sessions are what a race for a name needs; three tunnels let one
  session hold two and rebind one. Redis commands may fail in `edge_hub`. Two edges
  are what the mesh needs; its liveness properties are about one route and the death
  of its edge, for which one session is enough. TTLs are two heartbeats as in the
  code and no clock value is kept, so time is unbounded.
- `EdgeIngress`: one connection is enough, since connections share no state; the
  tables change under it. Three edges are needed for a route that moves between a
  failed dial and its retry.
- `EdgeReports`: two triples, each bound up to twice, three bindings together, two
  connections: a close can meet the row of a later binding and of another triple, and
  traffic is recorded while a flush is under way.
- `CertLock`: two tasks on one edge and one on another, two locks each; leases of
  three ticks as in the code (`lockTTL / 3`). One failed call or lost answer never
  costs a lease.
- `AgentSession`: a reserved and an unreserved tunnel, two session names (reused once
  nothing refers to them), a caller that dials beside the reconnect goroutine, and a
  budget of two disturbances (`MaxTrouble`) spent in any way on losses, failed dials,
  late answers, stops and a shutdown. `Reconnects` excuses a state in which every
  session name is in use (`NamesUsedUp`), which is an artefact of the bound: with one
  tunnel and four names it holds without the excuse. The invariants were also checked
  with three and with four session names (1.7 and 6 million states).
- `Webhooks`: `webhooks_mirror` has one org with two subscriptions and seven events,
  enough for a subscription to be created, fall due, recover, end and be replaced.
  `webhooks_faults` has two orgs, customers, checkouts, subscriptions and handlers and
  four events, enough for a customer to be saved over another one while an event keyed
  by either is being resolved, and one fault or redelivery.
- `Metering`: two replicas, one month of two ticks, a metric with a meter and one
  without, two faults. `Limit = 1` makes the batch a scarce resource with two rows;
  `DedupPeriod = 2` is the length of the run. `metering_round` has the code's `Limit`.

Deadlock is checked for `EdgeRouting`, `EdgeIngress` and `Metering`. The other models
have an end (every bounded event has happened) and say `CHECK_DEADLOCK FALSE`.

### Fairness

- Goroutines that are runnable run: weak fairness of the steps of sessions, handlers
  and loops. For the agent it is enough that some goroutine runs.
- Time passes and tickers fire: weak fairness of `Tick` and of the presence loop of
  an edge that is up.
- A task that waits for the issuance lock goes on polling: weak fairness of `SetNX`
  and `Hold`.
- A dial succeeds once the disturbances of `MaxTrouble` are spent: without it no
  reconnection can be promised.
- Nothing is assumed of crashes, losses, failures, users or Redis commands.

## 5. Proofs

`EdgeRoutingProofs` proves, for every set of edges, sessions, tunnels, hosts and
ports, with failing Redis commands, crashes and restarts:

| Theorem | States |
|---|---|
| `TypeCorrect` | Every variable keeps its type for any number of edges, sessions, tunnels, hosts and ports. |
| `HubRouteOwnedAlways` | Every route of every edge's table belongs to a tunnel bound on it by a session homed there, given that a session never uses one tunnel id twice at a time. |
| `LiveTunnelRoutedAlways` | A subdomain or port tunnel a session lists is the one its edge routes to, until its release begins, given that a session never uses one tunnel id twice at a time. |
| `PortPoolExactAlways` | A port is marked used exactly while one tunnel of that edge occupies it, given that a session never uses one tunnel id twice at a time. |
| `BindPortNeverConflictsAlways` | The unchecked hub.bind of a port tunnel never meets a foreign route. |

The constants are assumed to satisfy `ConstantsAssumption`: `None` is no member of the
other sets, and subdomains, custom domains and ports are disjoint, as their keys are in
the code. The model itself assumes that client tunnel ids are fresh (section 3): for a
session that used an id twice, `trackTunnel` would drop the first tunnel from its map
and the theorems would not cover it.

None of these invariants is inductive alone. `IInv` (in `EdgeRoutingInv`) is their
conjunction with two facts about handlers that are under way:

- `SessionOK`: what `pc[s]` says of the handler. The tunnel a session is binding or
  releasing belongs to it and is in its map exactly in the right places; a session
  that has ended has no tunnels. Without it a step of `HubBind` could bind another
  session's tunnel.
- `PendingSubdomainOK`: between `allocateHost` and `bindHost` a subdomain can be taken
  by another session, never by the binding session itself. Without it `bindHost`,
  which lets a session replace its own route, could overwrite a sibling's route, and
  `LiveTunnelRouted` would not be preserved.

One lemma per action shows that it preserves `IInv`: `EdgeRoutingInv` has the start
of a bind, `EdgeRoutingSteps` the steps on the hub and the ports, `EdgeRoutingProofs`
teardown, drain, crash, presence, clock, and the theorems.

Only model-checked: everything about the registry and its TTLs, the ingress, the
other modules, and all liveness (the prover has no fairness).

## 6. Not modelled

`components` in `PROJECT.json` lists every part with its status. Planned are the parts
of step 6 and 7 of the plan. Left out for good are byte copying and framing, the
generated protocol messages, settings and health endpoints, libraries (QUIC, yamux,
certmagic, the Stripe client), and the user interfaces.
