---------------------------- MODULE AgentSession ----------------------------
(***************************************************************************)
(* The agent core (internal/agent/{core,session,reconnect}.go): it dials   *)
(* the edge when a tunnel is started, binds tunnels on the session, and    *)
(* when the session is lost re-dials and re-binds.  Every call of the core *)
(* and every goroutine is a process, split where the code takes a.mu or    *)
(* waits for the network.  A reconnect goroutine is named by the session   *)
(* whose loss started it.  The edge is external: it keeps a public name    *)
(* for the session that bound it until it notices that session's end.      *)
(***************************************************************************)
EXTENDS Naturals, FiniteSets

CONSTANTS Specs,      \* tunnel specs, each with the name it asks for or is given
          Reserved,   \* specs whose name the account has reserved
          Callers, Sess, None,
          MaxIds,     \* tunnel ids of one spec on one session in use at a time
          MaxTrouble  \* session losses, failed dials, late answers, stops, a shutdown

ASSUME AgentAssumption ==
  /\ Reserved \subseteq Specs /\ None \notin Specs \cup Sess /\ Callers \cap Sess = {}
  /\ {MaxIds, MaxTrouble} \subseteq Nat

Procs == Callers \cup Sess

\* An activeTunnel: its spec, the session it was bound on, and what tells its id from others.
Entries == Specs \X Sess \X (1..MaxIds)

\* named: the bind asks for the name by Subdomain, as a re-bind always does.
Proc == [pc : {"idle", "check", "dial", "install", "rebind", "bind", "sent", "answered", "record"},
         spec : Specs \cup {None}, x : Sess \cup {None}, named : BOOLEAN, ok : BOOLEAN,
         todo : SUBSET Entries]
Idle == [pc |-> "idle", spec |-> None, x |-> None, named |-> FALSE, ok |-> FALSE, todo |-> {}]

VARIABLES
  connected, sess, control, closed,  \* Agent's fields under a.mu
  tunnels,    \* Agent.tunnels: the entries listed
  proc,       \* the processes
  stop,       \* the entry of a StopTunnel between its unbind and its delete
  loops,      \* the loops that run of a session
  link,       \* a session: unused, up, lost (broken or draining) or gone
  holder,     \* edge: the session holding a spec's name
  owed,       \* history: entries listed at a loss, their spec not stopped or started since
  reported,   \* history: specs whose re-bind emitted an error, not started since
  stopped,    \* history: specs stopped and not started since
  trouble,    \* how much of it there was
  late        \* a bind gave up on a session that was up

agentVars == <<connected, sess, control, closed>>
histVars == <<owed, reported, stopped>>
counters == <<trouble, late>>
vars == <<agentVars, tunnels, proc, stop, loops, link, holder, histVars, counters>>

Init ==
  /\ connected = FALSE /\ sess = None /\ control = None /\ closed = FALSE
  /\ tunnels = {}
  /\ proc = [p \in Procs |-> Idle]
  /\ stop = {}
  /\ loops = [x \in Sess |-> {}] /\ link = [x \in Sess |-> "unused"]
  /\ holder = [sp \in Specs |-> None]
  /\ owed = {} /\ reported = {} /\ stopped = {}
  /\ trouble = 0 /\ late = FALSE

Trouble == trouble < MaxTrouble /\ trouble' = trouble + 1

Listed == {t[1] : t \in tunnels}
Busy == {proc[p].spec : p \in Procs}
InUse(t) == t \in tunnels \cup stop \/ \E p \in Procs : t \in proc[p].todo

\* A process p ends a bind: a caller returns, rebindAll goes on to the next.
\* Faulty: rebindAll returns after its first bind.
DoneReturns(p) == Idle
Done(p) == IF p \in Callers THEN Idle ELSE [proc[p] EXCEPT !.pc = "rebind", !.spec = None, !.x = None]

\* A bind returned an error: StartTunnel passes it on, rebindAll emits it.
Failed(p) == reported' = IF p \in Callers THEN reported ELSE reported \cup {proc[p].spec}

OfSpec(sp) == {t \in Entries : t[1] = sp}

-----------------------------------------------------------------------------
(* connect                                                                 *)

\* StartTunnel: ensureConnected reads the connected flag under a.mu.
StartTunnel(c, sp) ==
  /\ proc[c] = Idle /\ sp \notin Listed \cup Busy
  /\ proc' = [proc EXCEPT ![c] = [Idle EXCEPT !.pc = IF connected THEN "bind" ELSE "dial",
                                              !.spec = sp, !.named = sp \in Reserved]]
  /\ stopped' = stopped \ {sp} /\ reported' = reported \ {sp} /\ owed' = owed \ OfSpec(sp)
  /\ UNCHANGED <<agentVars, tunnels, stop, loops, link, holder, counters>>

\* The names of sessions are reused once nothing refers to them; which of the free
\* names a new session takes makes no difference.
Free(x) ==
  \/ link[x] = "unused"
  \/ /\ link[x] = "gone" /\ loops[x] = {} /\ x # sess /\ proc[x] = Idle
     /\ \A p \in Procs : proc[p].x # x
     /\ \A t \in Entries : t[2] = x => ~ InUse(t)

\* Dial, OpenStream, Hello and AuthResp.  Reconnection dials with a.ctx,
\* which Shutdown cancels; a caller dials with its own context.
Dial(p, x) ==
  /\ proc[p].pc = "dial" /\ Free(x) /\ x = CHOOSE y \in Sess : Free(y)
  /\ p \in Sess => ~closed
  /\ link' = [link EXCEPT ![x] = "up"]
  /\ proc' = [proc EXCEPT ![p].pc = "install", ![p].x = x]
  /\ UNCHANGED <<agentVars, tunnels, stop, loops, holder, histVars, counters>>

\* A failed dial: StartTunnel returns the error, reconnect backs off and checks again.
\* Faulty: a caller is retried like a reconnection.
BackoffLoops(p) == [proc[p] EXCEPT !.pc = "check"]
\* Faulty: reconnect gives up after a failed dial.
BackoffEnds(p) == Idle
Backoff(p) == IF p \in Callers THEN Idle ELSE [proc[p] EXCEPT !.pc = "check"]

DialFails(p) ==
  /\ proc[p].pc = "dial"
  /\ \/ p \in Sess /\ closed /\ UNCHANGED trouble
     \/ Trouble
  /\ proc' = [proc EXCEPT ![p] = Backoff(p)]
  /\ UNCHANGED <<agentVars, tunnels, stop, loops, link, holder, histVars, late>>

\* The end of connect, under a.mu: the new session replaces whatever is
\* there, closed or not, and its loops start.
Install(p) ==
  LET x == proc[p].x
  IN /\ proc[p].pc = "install"
     /\ sess' = x /\ control' = x /\ connected' = TRUE
     /\ loops' = [loops EXCEPT ![x] = {"control", "accept"}]
     /\ proc' = [proc EXCEPT ![p].pc = IF p \in Callers THEN "bind" ELSE "rebind", ![p].x = None]
     /\ UNCHANGED <<closed, tunnels, stop, link, holder, histVars, counters>>

-----------------------------------------------------------------------------
(* bind                                                                    *)

\* writeControl: an error without a control stream, otherwise the request
\* leaves on the current one.
SendBind(p) ==
  /\ proc[p].pc = "bind"
  /\ proc' = [proc EXCEPT ![p] = IF control = None THEN Done(p)
                                 ELSE [@ EXCEPT !.pc = "sent", !.x = control]]
  /\ IF control = None THEN Failed(p) ELSE UNCHANGED reported
  /\ UNCHANGED <<agentVars, tunnels, stop, loops, link, holder, owed, stopped, counters>>

\* The edge: a name asked for must be reserved and free, a random one is new.
Grants(sp, named) == named => sp \in Reserved /\ holder[sp] = None

EdgeBind(p) ==
  LET x == proc[p].x  sp == proc[p].spec  ok == Grants(sp, proc[p].named)
  IN /\ proc[p].pc = "sent" /\ link[x] = "up"
     /\ holder' = IF ok THEN [holder EXCEPT ![sp] = x] ELSE holder
     /\ proc' = [proc EXCEPT ![p].pc = "answered", ![p].ok = ok]
     /\ UNCHANGED <<agentVars, tunnels, stop, loops, link, histVars, counters>>

\* deliverBind hands the answer to the waiting bind.
DeliverBind(p) ==
  /\ proc[p].pc = "answered" /\ "control" \in loops[proc[p].x]
  /\ proc' = [proc EXCEPT ![p] = IF @.ok THEN [@ EXCEPT !.pc = "record"] ELSE Done(p)]
  /\ IF proc[p].ok THEN UNCHANGED reported ELSE Failed(p)
  /\ UNCHANGED <<agentVars, tunnels, stop, loops, link, holder, owed, stopped, counters>>

\* The bind gives up: no answer in 20 s, or its context is done.  A later
\* answer finds no waiter and is dropped.
BindTimeout(p) ==
  LET broken == link[proc[p].x] # "up" \/ "control" \notin loops[proc[p].x] \/ (closed /\ p \in Sess)
  IN /\ proc[p].pc \in {"sent", "answered"}
     /\ IF broken THEN UNCHANGED counters ELSE Trouble /\ late' = TRUE
     /\ proc' = [proc EXCEPT ![p] = Done(p)] /\ Failed(p)
     /\ UNCHANGED <<agentVars, tunnels, stop, loops, link, holder, owed, stopped>>

\* bind lists the tunnel under a.mu, by an id of its own, whatever became of the
\* session since.
RecordBind(p) ==
  /\ proc[p].pc = "record"
  /\ \E n \in 1..MaxIds :
       /\ ~ InUse(<<proc[p].spec, proc[p].x, n>>)
       /\ \A m \in 1..(n - 1) : InUse(<<proc[p].spec, proc[p].x, m>>)
       /\ tunnels' = tunnels \cup {<<proc[p].spec, proc[p].x, n>>}
       /\ owed' = owed \ {<<proc[p].spec, proc[p].x, n>>}
  /\ proc' = [proc EXCEPT ![p] = Done(p)]
  /\ UNCHANGED <<agentVars, stop, loops, link, holder, reported, stopped, counters>>

-----------------------------------------------------------------------------
(* Loss of a session and reconnection                                      *)

\* The connection breaks, or the edge announces its shutdown; the edge keeps the
\* session's names until it tears the session down.
LoseSession(x) ==
  /\ link[x] = "up" /\ Trouble
  /\ link' = [link EXCEPT ![x] = "lost"]
  /\ UNCHANGED <<agentVars, tunnels, proc, stop, loops, holder, histVars, late>>

\* The edge notices, and tears the session down.
EdgeTeardown(x) ==
  /\ link[x] = "lost"
  /\ link' = [link EXCEPT ![x] = "gone"]
  /\ holder' = [sp \in Specs |-> IF holder[sp] = x THEN None ELSE holder[sp]]
  /\ UNCHANGED <<agentVars, tunnels, proc, stop, loops, histVars, counters>>

\* handleSessionDown acts once, on the current generation only: the session that
\* was installed last.
\* Faulty: no generation check.
CurrentAny(x) == connected
Current(x) == x = sess /\ connected

\* A loop of x ends: an error or a Shutdown message, or, for acceptLoop,
\* a.ctx is cancelled.
\* handleSessionDown(gen) snapshots the tunnels and starts reconnect.
SessionDown(x, l) ==
  /\ l \in loops[x] /\ (link[x] # "up" \/ (closed /\ l = "accept"))
  /\ loops' = [loops EXCEPT ![x] = @ \ {l}]
  /\ IF Current(x)
     THEN /\ connected' = FALSE /\ control' = None
          /\ IF closed THEN UNCHANGED <<proc, owed>>
             ELSE /\ proc' = [proc EXCEPT ![x] = [Idle EXCEPT !.pc = "check", !.todo = tunnels]]
                  /\ owed' = owed \cup {t \in tunnels : t[1] \notin stopped}
     ELSE UNCHANGED <<connected, control, proc, owed>>
  /\ UNCHANGED <<sess, closed, tunnels, stop, link, holder, reported, stopped, counters>>

\* The head of reconnect's loop.
ReconnectCheck(x) ==
  /\ proc[x].pc = "check"
  /\ proc' = [proc EXCEPT ![x] = IF closed THEN Idle ELSE [@ EXCEPT !.pc = "dial"]]
  /\ UNCHANGED <<agentVars, tunnels, stop, loops, link, holder, histVars, counters>>

\* rebindAll takes the next of the snapshot: the old entry is deleted, then bind.
RebindNext(x, t) ==
  /\ proc[x].pc = "rebind" /\ t \in proc[x].todo
  /\ tunnels' = tunnels \ {t}
  /\ proc' = [proc EXCEPT ![x].pc = "bind", ![x].spec = t[1], ![x].named = TRUE,
                          ![x].todo = @ \ {t}]
  /\ UNCHANGED <<agentVars, stop, loops, link, holder, histVars, counters>>

RebindDone(x) ==
  /\ proc[x].pc = "rebind" /\ proc[x].todo = {}
  /\ proc' = [proc EXCEPT ![x] = Idle]
  /\ UNCHANGED <<agentVars, tunnels, stop, loops, link, holder, histVars, counters>>

-----------------------------------------------------------------------------
(* StopTunnel, Shutdown                                                    *)

\* StopTunnel finds the tunnel, sends the unbind on the current control stream...
StopTunnel(t) ==
  /\ stop = {} /\ Trouble
  /\ stop' = {t}
  /\ holder' = IF control # None /\ link[control] = "up" /\ t[2] = control /\ holder[t[1]] = control
               THEN [holder EXCEPT ![t[1]] = None] ELSE holder
  /\ UNCHANGED <<agentVars, tunnels, proc, loops, link, histVars, late>>

\* Faulty: the entry is looked up again by the tunnel's spec, not by the id it had.
StopDeleteBySpec ==
  \E t \in stop :
    /\ tunnels' = {u \in tunnels : u[1] # t[1]}
    /\ stop' = {}
    /\ stopped' = stopped \cup {t[1]} /\ owed' = owed \ OfSpec(t[1])
    /\ UNCHANGED <<agentVars, proc, loops, link, holder, reported, counters>>
\* ... and deletes the entry it found.
StopDelete ==
  \E t \in stop :
    /\ tunnels' = tunnels \ {t}
    /\ stop' = {}
    /\ stopped' = stopped \cup {t[1]} /\ owed' = owed \ OfSpec(t[1])
    /\ UNCHANGED <<agentVars, proc, loops, link, holder, reported, counters>>

\* Shutdown marks the agent closed, cancels a.ctx and closes a.sess.
Shutdown ==
  /\ ~closed /\ closed' = TRUE /\ Trouble
  /\ link' = IF sess # None /\ link[sess] = "up" THEN [link EXCEPT ![sess] = "lost"] ELSE link
  /\ UNCHANGED <<connected, sess, control, tunnels, proc, stop, loops, holder, histVars, late>>

-----------------------------------------------------------------------------

ProcStep(p) ==
  \/ \E x \in Sess : Dial(p, x)
  \/ DialFails(p) \/ Install(p)
  \/ SendBind(p) \/ DeliverBind(p) \/ BindTimeout(p) \/ RecordBind(p)

SessStep(x) ==
  \/ (\E l \in loops[x] : SessionDown(x, l)) \/ ReconnectCheck(x) \/ RebindDone(x)
  \/ \E t \in proc[x].todo : RebindNext(x, t)

EdgeStep == (\E p \in Procs : EdgeBind(p)) \/ \E x \in Sess : EdgeTeardown(x)

Environment ==
  \/ \E c \in Callers, sp \in Specs : StartTunnel(c, sp)
  \/ \E x \in Sess : LoseSession(x)
  \/ \E t \in tunnels : StopTunnel(t)
  \/ StopDelete
  \/ Shutdown

Next ==
  \/ Environment \/ EdgeStep
  \/ \E p \in Procs : ProcStep(p)
  \/ \E x \in Sess : SessStep(x)

Spec == Init /\ [][Next]_vars

\* Go keeps running the goroutines of the agent; a dial succeeds once MaxFails
\* dials have failed.
Fairness ==
  /\ WF_vars(\E p \in Procs : ProcStep(p))
  /\ WF_vars(\E x \in Sess : SessStep(x))

LiveSpec == Spec /\ Fairness

-----------------------------------------------------------------------------
(* Properties                                                              *)

TypeOK ==
  /\ connected \in BOOLEAN /\ closed \in BOOLEAN
  /\ {sess, control} \subseteq Sess \cup {None}
  /\ tunnels \subseteq Entries
  /\ proc \in [Procs -> Proc] /\ \A c \in Callers : proc[c].todo = {} /\ proc[c].pc \notin {"check", "rebind"}
  /\ stop \subseteq Entries /\ Cardinality(stop) <= 1
  /\ loops \in [Sess -> SUBSET {"control", "accept"}]
  /\ link \in [Sess -> {"unused", "up", "lost", "gone"}]
  /\ holder \in [Specs -> Sess \cup {None}]
  /\ owed \subseteq Entries /\ {reported, stopped} \subseteq SUBSET Specs
  /\ trouble \in 0..MaxTrouble /\ late \in BOOLEAN

\* The end of an older session never takes the current one away: while the
\* agent's session is up and Shutdown was not called, the agent is connected by it
\* (reconnect.go:16, the generation check of handleSessionDown).
LiveSessionKept ==
  sess # None /\ link[sess] = "up" /\ ~closed => connected /\ control = sess

Settled == connected /\ ~closed /\ link[sess] = "up" /\ stop = {}
           /\ \A p \in Procs : proc[p] = Idle

Bound == {t \in tunnels : link[t[2]] = "up" /\ holder[t[1]] = t[2]}

\* No tunnel of a lost session vanishes unnoticed: once the agent is connected and
\* nothing is under way, the entry it had is gone from the list, and its spec is
\* listed anew or an error event told of its failed re-bind, also when the edge
\* still has the name, when the name is not reserved and when the next session is
\* lost in the middle of rebindAll (handleSessionDown, rebindAll).
RebindAccounted ==
  Settled => \A t \in owed : t \notin tunnels /\ t[1] \in Listed \cup reported

\* The agent and the edge agree once nothing is under way: as long as no bind timed out,
\* a tunnel is listed under the current session exactly when the edge serves it there,
\* through any order of starts, stops, losses and re-binds (the list that bind, StopTunnel
\* and rebindAll edit before or after the edge did its part).
EdgeMatchesList ==
  Settled /\ ~late =>
    \A sp \in Specs : (\E t \in tunnels : t[1] = sp /\ t[2] = sess) <=> holder[sp] = sess

\* handleSessionDown "kicks off reconnection, unless the agent is shutting
\* down" (reconnect.go:14): after the loss of its session, and of the next one while
\* it re-binds, the agent is connected again or shut down, as long as the instance
\* has a name left for a new session.
NamesUsedUp == \A x \in Sess : ~Free(x)
Reconnects == (sess # None /\ ~connected) ~> (connected \/ closed \/ NamesUsedUp)

-----------------------------------------------------------------------------
(* Statements of the repository that the code does not keep: TLC refutes   *)
(* each of them.                                                           *)

\* "re-binds every previously active tunnel (restoring reserved subdomains /
\* ports)" (reconnect.go:41): once the agent is connected and nothing is under
\* way, every tunnel that was listed when a session was lost is listed again,
\* bound on a session that is up.
RebindRestores == Settled => \A t \in owed : t[1] \in {u[1] : u \in Bound}

\* A listed tunnel of a settled agent is bound: the session it was bound on is
\* still up and the edge has its name (Agent.List reports it as online).
ListedIsBound == Settled => tunnels = Bound

\* "StopTunnel unbinds a tunnel by id" (core.go:286): a stopped tunnel does not
\* come back by itself.
StoppedStaysStopped == Settled => stopped \cap Listed = {}

\* "Shutdown closes all tunnels and the session" (core.go:307): after Shutdown,
\* once every process has ended, no session is open.
ShutdownCloses ==
  closed /\ (\A x \in Sess : "accept" \notin loops[x]) /\ (\A p \in Procs : proc[p] = Idle)
    => \A x \in Sess : link[x] # "up"

=============================================================================
