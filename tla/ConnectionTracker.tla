-------------------------- MODULE ConnectionTracker --------------------------
(***************************************************************************)
(* The connection tracker (gateway/src/connections.rs): a semaphore for    *)
(* the global limit, one atomic counter per server, a global counter that  *)
(* mirrors the semaphore, the guard that gives everything back when it is  *)
(* dropped, and drain(), which the shutdown sequence awaits.  The handlers *)
(* of both transports (transport.rs, sse.rs) are its callers: they look at *)
(* the shutdown flag, await authentication, then call try_acquire.         *)
(*                                                                         *)
(* One action per atomic operation, so two requests and drain() interleave *)
(* inside try_acquire and inside the guard's drop.  A request's pc names   *)
(* the operation it performs next.                                         *)
(***************************************************************************)
EXTENDS Integers, FiniteSets

CONSTANTS Requests, Servers, NoServer,
          GLOBAL_MAX,       \* GATEWAY_MAX_CONNECTIONS
          Limits            \* values ServerConfig::max_connections takes

ASSUME RequestsAssumption == IsFiniteSet(Requests)
ASSUME ServersAssumption == NoServer \notin Servers
ASSUME LimitAssumption == GLOBAL_MAX \in Nat /\ Limits \subseteq Nat

VARIABLES permits,          \* free permits of global_semaphore
          serverCount,      \* per_server
          globalCount,      \* global_count
          pc,               \* next operation of each request
          target,           \* server a request is for
          max,              \* max_connections in the config it resolved
          isShuttingDown,
          drainer,          \* where drain() is
          woken             \* its Notified future has been notified
vars == <<permits, serverCount, globalCount, pc, target, max,
          isShuttingDown, drainer, woken>>
counts == <<permits, serverCount, globalCount>>
drainVars == <<isShuttingDown, drainer, woken>>

RequestSteps == {"idle", "auth", "reserve", "count", "held", "drop_global",
                 "drop_notify", "drop_permit"}
DrainSteps == {"off", "notified", "check", "wait", "done"}

(* Requests that hold a permit, are in per_server, are in global_count.    *)
WithPermit == {r \in Requests : pc[r] \notin {"idle", "auth"}}
OnServer(s) == {r \in Requests : target[r] = s /\ pc[r] \in {"count", "held"}}
InGlobal == {r \in Requests : pc[r] \in {"held", "drop_global"}}

TypeOK ==
  /\ permits \in Int
  /\ serverCount \in [Servers -> Int]
  /\ globalCount \in Int
  /\ pc \in [Requests -> RequestSteps]
  /\ target \in [Requests -> Servers \cup {NoServer}]
  /\ max \in [Requests -> Limits \cup {0}]
  /\ isShuttingDown \in BOOLEAN
  /\ drainer \in DrainSteps
  /\ woken \in BOOLEAN
  /\ \A r \in Requests :
       /\ pc[r] = "idle" <=> target[r] = NoServer
       /\ pc[r] # "idle" => max[r] \in Limits

Init ==
  /\ permits = GLOBAL_MAX
  /\ serverCount = [s \in Servers |-> 0]
  /\ globalCount = 0
  /\ pc = [r \in Requests |-> "idle"]
  /\ target = [r \in Requests |-> NoServer]
  /\ max = [r \in Requests |-> 0]
  /\ isShuttingDown = FALSE
  /\ drainer = "off"
  /\ woken = FALSE

Goto(r, from, to) ==
  /\ pc[r] = from
  /\ pc' = [pc EXCEPT ![r] = to]
  /\ UNCHANGED <<target, max>>

(* The request is over: it leaves nothing behind but its slot in the model *)
End(r, from) ==
  /\ pc[r] = from
  /\ pc' = [pc EXCEPT ![r] = "idle"]
  /\ target' = [target EXCEPT ![r] = NoServer]
  /\ max' = [max EXCEPT ![r] = 0]

---------------------------------------------------------------------------
(* Handlers *)

(* Shutdown check, then slug resolution: the config read here, and the     *)
(* limit in it, is the one try_acquire is given after the await.           *)
Arrive(r, s, m) ==
  /\ ~isShuttingDown
  /\ pc[r] = "idle"
  /\ pc' = [pc EXCEPT ![r] = "auth"]
  /\ target' = [target EXCEPT ![r] = s]
  /\ max' = [max EXCEPT ![r] = m]
  /\ UNCHANGED <<counts, drainVars>>

(* Authentication fails, or the client goes away while it is awaited.      *)
Refuse(r) ==
  /\ End(r, "auth")
  /\ UNCHANGED <<counts, drainVars>>

---------------------------------------------------------------------------
(* try_acquire *)

TryPermit(r) ==
  /\ IF permits > 0
       THEN Goto(r, "auth", "reserve") /\ permits' = permits - 1
       ELSE End(r, "auth") /\ UNCHANGED permits          \* GlobalLimitReached
  /\ UNCHANGED <<serverCount, globalCount, drainVars>>

CountServerNoLimit(r) ==
  /\ Goto(r, "reserve", "count")
  /\ serverCount' = [serverCount EXCEPT ![target[r]] = @ + 1]
  /\ UNCHANGED <<permits, globalCount, drainVars>>

CountServer(r) ==
  /\ pc[r] = "reserve"
  /\ IF serverCount[target[r]] < max[r]
       THEN /\ Goto(r, "reserve", "count")
            /\ serverCount' = [serverCount EXCEPT ![target[r]] = @ + 1]
       ELSE /\ Goto(r, "reserve", "drop_permit")         \* ServerLimitReached
            /\ UNCHANGED serverCount
  /\ UNCHANGED <<permits, globalCount, drainVars>>

CountGlobal(r) ==
  /\ Goto(r, "count", "held")
  /\ globalCount' = globalCount + 1
  /\ UNCHANGED <<permits, serverCount, drainVars>>

---------------------------------------------------------------------------
(* ConnectionGuard::drop, run when the response or the stream that owns    *)
(* the guard ends, is dropped, or unwinds                                  *)

DropServer(r) ==
  /\ Goto(r, "held", "drop_global")
  /\ serverCount' = [serverCount EXCEPT ![target[r]] = @ - 1]
  /\ UNCHANGED <<permits, globalCount, drainVars>>

DropGlobalSilently(r) ==
  /\ Goto(r, "drop_global", "drop_permit")
  /\ globalCount' = globalCount - 1
  /\ UNCHANGED <<permits, serverCount, drainVars>>

DropGlobal(r) ==
  /\ Goto(r, "drop_global", "drop_notify")
  /\ globalCount' = globalCount - 1
  /\ UNCHANGED <<permits, serverCount, drainVars>>

(* notify_waiters() reaches every Notified future already created.         *)
DropNotify(r) ==
  /\ Goto(r, "drop_notify", "drop_permit")
  /\ woken' = TRUE
  /\ UNCHANGED <<counts, isShuttingDown, drainer>>

DropPermitForgotten(r) ==
  /\ End(r, "drop_permit")
  /\ UNCHANGED <<counts, drainVars>>

DropPermit(r) ==
  /\ End(r, "drop_permit")
  /\ permits' = permits + 1
  /\ UNCHANGED <<serverCount, globalCount, drainVars>>

---------------------------------------------------------------------------
(* Shutdown and drain() *)

(* The flag is set; later, the shutdown sequence awaits drain().           *)
ShutDown ==
  /\ ~isShuttingDown
  /\ isShuttingDown' = TRUE
  /\ UNCHANGED <<counts, pc, target, max, drainer, woken>>

DrainStart ==
  /\ isShuttingDown /\ drainer = "off"
  /\ drainer' = "notified"
  /\ UNCHANGED <<counts, pc, target, max, isShuttingDown, woken>>

DrainNotified ==
  /\ drainer = "notified"
  /\ drainer' = "check"
  /\ woken' = FALSE
  /\ UNCHANGED <<counts, pc, target, max, isShuttingDown>>

DrainCheckOffByOne ==
  /\ drainer = "check"
  /\ drainer' = IF globalCount <= 1 THEN "done" ELSE "wait"
  /\ UNCHANGED <<counts, pc, target, max, isShuttingDown, woken>>

DrainCheck ==
  /\ drainer = "check"
  /\ drainer' = IF globalCount = 0 THEN "done" ELSE "wait"
  /\ UNCHANGED <<counts, pc, target, max, isShuttingDown, woken>>

DrainWoken ==
  /\ drainer = "wait" /\ woken
  /\ drainer' = "notified"
  /\ UNCHANGED <<counts, pc, target, max, isShuttingDown, woken>>

Drain == DrainStart \/ DrainNotified \/ DrainCheck \/ DrainWoken

Acquire(r) == TryPermit(r) \/ CountServer(r) \/ CountGlobal(r)
DropGuard(r) == DropServer(r) \/ DropGlobal(r) \/ DropNotify(r) \/ DropPermit(r)

Next ==
  \/ \E r \in Requests :
       \/ \E s \in Servers, m \in Limits : Arrive(r, s, m)
       \/ Refuse(r) \/ Acquire(r) \/ DropGuard(r)
  \/ ShutDown
  \/ Drain

Spec == Init /\ [][Next]_vars

---------------------------------------------------------------------------
(* Properties *)

(* Neither try_acquire, its refusals, nor a guard's drop ever leaks or     *)
(* double-releases: between any two operations of any requests, the        *)
(* permits, the per-server counters and the global counter account for     *)
(* exactly the requests that hold them.  In particular no counter wraps    *)
(* below zero.                                                             *)
Accounting ==
  /\ permits >= 0
  /\ permits = GLOBAL_MAX - Cardinality(WithPermit)
  /\ \A s \in Servers : serverCount[s] = Cardinality(OnServer(s))
  /\ globalCount = Cardinality(InGlobal)

(* drain() never sleeps through the last drop: while it waits for a        *)
(* notification that has not come and the count is already zero, the       *)
(* request that made it zero is still about to notify.                     *)
NoMissedWakeup ==
  drainer = "wait" /\ ~woken /\ globalCount = 0 =>
    \E r \in Requests : pc[r] = "drop_notify"

(* drain() returns only at a moment when no request holds a guard or is in *)
(* a guard's drop with its place in the global count still to give back.   *)
DrainReturnsWhenQuiet ==
  [][drainer # "done" /\ drainer' = "done" =>
       \A r \in Requests : pc[r] \notin {"held", "drop_global"}]_vars

(* The counters implement the limits: a request counts as connected from   *)
(* the fetch_update that succeeded to the first step of the guard's drop.  *)
Connected == [r \in Requests |->
                IF pc[r] \in {"count", "held"} THEN target[r] ELSE NoServer]
L == INSTANCE ConnectionLimits WITH conns <- Connected, limit <- max
ImplementsLimits == L!Spec
=============================================================================
