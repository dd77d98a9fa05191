------------------------------ MODULE CertLock ------------------------------
(***************************************************************************)
(* The issuance lock of the shared certificate storage                     *)
(* (internal/server/tls_storage_redis.go: Lock, Unlock, refreshLock,       *)
(* Close) for one lock name.  A task is a certmagic goroutine of an edge;  *)
(* every Lock call draws a token.  The key in Redis is leased for TTL      *)
(* ticks, one tick being the refresh period lockTTL / 3; a key without a   *)
(* lease (ttl 0) would stay.                                               *)
(***************************************************************************)
EXTENDS Naturals, FiniteSets

CONSTANTS Edges, Tasks, None,
          EdgeOf(_),   \* the edge a task runs on
          TTL,
          MaxLocks, MaxFails, MaxStops

ASSUME CertLockAssumption ==
  /\ \A p \in Tasks : EdgeOf(p) \in Edges
  /\ TTL \in Nat \ {0} /\ {MaxLocks, MaxFails, MaxStops} \subseteq Nat

Tokens == Tasks \X (1..MaxLocks)   \* the n-th Lock call of a task
NoKey == [owner |-> None, ttl |-> 0]

VARIABLES
  key,      \* the lock key in Redis
  pc,       \* a task: idle, trying, won, held, releasing
  calls,    \* Lock calls made by a task
  locks,    \* RedisStorage.locks[name] of an edge: the token of its heldLock
  unlocks,  \* the heldLock an Unlock took out of the map
  due,      \* refreshers running, and whether their ticker has fired
  up,       \* edges that are neither closed nor dead
  fails, stops

vars == <<key, pc, calls, locks, unlocks, due, up, fails, stops>>

Token(p) == <<p, calls[p]>>
Running == {t \in Tokens : due[t] # "none"}

Init ==
  /\ key = NoKey
  /\ pc = [p \in Tasks |-> "idle"] /\ calls = [p \in Tasks |-> 0]
  /\ locks = [e \in Edges |-> None] /\ unlocks = [p \in Tasks |-> None]
  /\ due = [t \in Tokens |-> "none"]
  /\ up = Edges /\ fails = 0 /\ stops = 0

-----------------------------------------------------------------------------
(* Lock, Unlock, Close                                                     *)

Lock(p) ==
  /\ EdgeOf(p) \in up /\ pc[p] = "idle" /\ calls[p] < MaxLocks
  /\ pc' = [pc EXCEPT ![p] = "trying"] /\ calls' = [calls EXCEPT ![p] = @ + 1]
  /\ UNCHANGED <<key, locks, unlocks, due, up, fails, stops>>

\* Faulty: SET without NX.
FreeAlways == TRUE
Free == key = NoKey

\* Faulty: the key is set without a TTL.
LeasedForever(t) == [owner |-> t, ttl |-> 0]
Leased(t) == [owner |-> t, ttl |-> TTL]

\* SET NX PX succeeds.
SetNX(p) ==
  /\ EdgeOf(p) \in up /\ pc[p] = "trying" /\ Free
  /\ key' = Leased(Token(p))
  /\ pc' = [pc EXCEPT ![p] = "won"]
  /\ UNCHANGED <<calls, locks, unlocks, due, up, fails, stops>>

\* The heldLock goes into the map under s.mu and its refresher starts.
Hold(p) ==
  /\ EdgeOf(p) \in up /\ pc[p] = "won"
  /\ locks' = [locks EXCEPT ![EdgeOf(p)] = Token(p)]
  /\ due' = [due EXCEPT ![Token(p)] = "waiting"]
  /\ pc' = [pc EXCEPT ![p] = "held"]
  /\ UNCHANGED <<key, calls, unlocks, up, fails, stops>>

\* Redis took the SET NX but its answer was lost: Lock returns an error, or the
\* client sends it again, finds the key and polls on behind its own lease.
SetNXLost(p) ==
  /\ EdgeOf(p) \in up /\ pc[p] = "trying" /\ Free
  /\ fails < MaxFails /\ fails' = fails + 1
  /\ key' = Leased(Token(p))
  /\ \E s \in {"idle", "trying"} : pc' = [pc EXCEPT ![p] = s]
  /\ UNCHANGED <<calls, locks, unlocks, due, up, stops>>

\* Lock returns an error: its context is done, or Redis fails.
LockFails(p) ==
  /\ EdgeOf(p) \in up /\ pc[p] = "trying"
  /\ pc' = [pc EXCEPT ![p] = "idle"]
  /\ UNCHANGED <<key, calls, locks, unlocks, due, up, fails, stops>>

\* The stop channel of a heldLock is closed and its refresher has ended.
\* Faulty: Unlock leaves the refresher running.
StoppedNever(lk) == due
Stopped(lk) == IF lk = None THEN due ELSE [due EXCEPT ![lk] = "none"]

\* Unlock takes the name's heldLock out of the map and closes its stop
\* channel; without one it returns an error.
Unlock(p) ==
  LET lk == locks[EdgeOf(p)]
  IN /\ EdgeOf(p) \in up /\ pc[p] = "held"
     /\ locks' = [locks EXCEPT ![EdgeOf(p)] = None]
     /\ unlocks' = [unlocks EXCEPT ![p] = lk]
     /\ due' = Stopped(lk)
     /\ pc' = [pc EXCEPT ![p] = IF lk = None THEN "idle" ELSE "releasing"]
     /\ UNCHANGED <<key, calls, up, fails, stops>>

\* releaseScript: the key is deleted only by the token that owns it.
\* Faulty: a plain DEL.
ReleasedAny(t) == NoKey
Released(t) == IF key.owner = t THEN NoKey ELSE key

Release(p) ==
  /\ EdgeOf(p) \in up /\ pc[p] = "releasing"
  /\ \/ key' = Released(unlocks[p]) /\ UNCHANGED fails
     \/ fails < MaxFails /\ fails' = fails + 1 /\ UNCHANGED key
  /\ pc' = [pc EXCEPT ![p] = "idle"] /\ unlocks' = [unlocks EXCEPT ![p] = None]
  /\ UNCHANGED <<calls, locks, due, up, stops>>

Closed(e) == [t \in Tokens |-> IF EdgeOf(t[1]) = e THEN "none" ELSE due[t]]

\* Close, or the death of the edge: its refreshers stop, its keys stay.
Close(e) ==
  /\ e \in up /\ stops < MaxStops
  /\ up' = up \ {e} /\ stops' = stops + 1
  /\ locks' = [locks EXCEPT ![e] = None]
  /\ due' = Closed(e)
  /\ pc' = [p \in Tasks |-> IF EdgeOf(p) = e THEN "idle" ELSE pc[p]]
  /\ unlocks' = [p \in Tasks |-> IF EdgeOf(p) = e THEN None ELSE unlocks[p]]
  /\ UNCHANGED <<key, calls, fails>>

-----------------------------------------------------------------------------
(* refreshLock                                                             *)

\* refreshScript extends the lease only for the token that owns the key.
Refreshed(t) == IF key.owner = t THEN [key EXCEPT !.ttl = TTL] ELSE key

refreshLock(t) ==
  /\ due[t] = "fired"
  /\ due' = [due EXCEPT ![t] = "waiting"]
  /\ \/ key' = Refreshed(t) /\ UNCHANGED fails
     \/ fails < MaxFails /\ fails' = fails + 1 /\ UNCHANGED key
  /\ UNCHANGED <<pc, calls, locks, unlocks, up, stops>>

\* A third of the lease (20 s) passes; by then every refresher's last call (timeout
\* 5 s) is over, and a Lock that won has put its heldLock into the map.
Tick ==
  /\ \A t \in Running : due[t] = "waiting"
  /\ \A p \in Tasks : pc[p] # "won"
  /\ key # NoKey \/ Running # {}
  /\ key' = CASE key.ttl = 0 -> key
              [] key.ttl = 1 -> NoKey
              [] OTHER       -> [key EXCEPT !.ttl = @ - 1]
  /\ due' = [t \in Tokens |-> IF t \in Running THEN "fired" ELSE "none"]
  /\ UNCHANGED <<pc, calls, locks, unlocks, up, fails, stops>>

-----------------------------------------------------------------------------

Next ==
  \/ \E p \in Tasks : Lock(p) \/ SetNX(p) \/ SetNXLost(p) \/ Hold(p) \/ LockFails(p) \/ Unlock(p) \/ Release(p)
  \/ \E e \in Edges : Close(e)
  \/ \E t \in Tokens : refreshLock(t)
  \/ Tick

Spec == Init /\ [][Next]_vars

\* Time passes, refreshers and the releasing half of Unlock run, and a Lock call
\* that is not cancelled keeps polling.
LiveSpec == Spec /\ WF_vars(Tick) /\ (\A t \in Tokens : WF_vars(refreshLock(t)))
                 /\ (\A p \in Tasks : WF_vars(Release(p)) /\ WF_vars(SetNX(p)) /\ WF_vars(Hold(p)))

-----------------------------------------------------------------------------
(* Properties                                                              *)

Holding == {p \in Tasks : pc[p] \in {"won", "held"}}
Owned(t) == t[1] \in Holding /\ calls[t[1]] = t[2]

TypeOK ==
  /\ key \in [owner : Tokens \cup {None}, ttl : 0..TTL] /\ (key.owner = None <=> key.ttl = 0)
  /\ pc \in [Tasks -> {"idle", "trying", "won", "held", "releasing"}]
  /\ calls \in [Tasks -> 0..MaxLocks]
  /\ locks \in [Edges -> Tokens \cup {None}] /\ unlocks \in [Tasks -> Tokens \cup {None}]
  /\ due \in [Tokens -> {"none", "waiting", "fired"}]
  /\ up \subseteq Edges /\ fails \in 0..MaxFails /\ stops \in 0..MaxStops

\* Lock is "the mechanism that stops two edges from issuing the same certificate
\* at once" (tls_storage_redis.go:265): with fewer failed calls in a row than the
\* lease has to spare, at most one task of the living edges has the lock, Redis
\* agrees who, and the edge's map has the token its Unlock will release.
MutualExclusion ==
  /\ Cardinality(Holding) <= 1
  /\ \A p \in Holding : key.owner = Token(p)
  /\ \A p \in Tasks : pc[p] = "held" => locks[EdgeOf(p)] = Token(p)

\* Unlock "deletes the key only if we still own it" (tls_storage_redis.go:296):
\* the step that releases a lock for p never takes the key from another task.
ReleasesOwn ==
  [][\A p \in Tasks : Release(p) /\ key' # key => key.owner = Token(p)]_vars

\* "The lease auto-expires so a crashed edge can't deadlock issuance for the
\* others" (tls_storage_redis.go:36): while a task waits for the lock of an edge
\* that is gone, a living edge takes it in the end, unless the task gives up.
DeadHolder == key.owner # None /\ EdgeOf(key.owner[1]) \notin up
DeadHolderReplaced ==
  \A p \in Tasks :
    (pc[p] = "trying" /\ DeadHolder) ~> (pc[p] # "trying" \/ (key.owner # None /\ ~DeadHolder))

\* No lock is kept alive without a holder: a key that nobody holds any more, or
\* that nobody learned of, its release or the answer to its SET NX lost, does not
\* outlive its lease (refreshers end before the release).
OrphanKeyExpires ==
  \A t \in Tokens : (key.owner = t /\ ~Owned(t)) ~> (key.owner # t)
=============================================================================
