-------------------------- MODULE ConnectionLimits --------------------------
(***************************************************************************)
(* What ConnectionTracker promises its callers (the design section at the  *)
(* head of gateway/src/connections.rs), with no counters: a set of open    *)
(* connections, one per request at most, that a request joins only while   *)
(* its server and the whole gateway are below their limits.                *)
(***************************************************************************)
EXTENDS Integers, FiniteSets

CONSTANTS Requests, Servers, NoServer,
          GLOBAL_MAX,       \* GATEWAY_MAX_CONNECTIONS
          Limits            \* values ServerConfig::max_connections takes

VARIABLES conns,            \* the server each request is connected to
          limit             \* the limit in the config each request resolved

vars == <<conns, limit>>

Open == {r \in Requests : conns[r] # NoServer}
OpenTo(s) == {r \in Requests : conns[r] = s}

Init ==
  /\ conns = [r \in Requests |-> NoServer]
  /\ limit = [r \in Requests |-> 0]

(* A request that is not connected resolves a config, or is over.          *)
Resolve(r, max) ==
  /\ conns[r] = NoServer
  /\ limit' = [limit EXCEPT ![r] = max]
  /\ UNCHANGED conns

Connect(r, s) ==
  /\ conns[r] = NoServer
  /\ Cardinality(Open) < GLOBAL_MAX
  /\ Cardinality(OpenTo(s)) < limit[r]
  /\ conns' = [conns EXCEPT ![r] = s]
  /\ UNCHANGED limit

Disconnect(r) ==
  /\ conns[r] # NoServer
  /\ conns' = [conns EXCEPT ![r] = NoServer]
  /\ UNCHANGED limit

Next ==
  \E r \in Requests : \/ \E max \in Limits \cup {0} : Resolve(r, max)
                      \/ \E s \in Servers : Connect(r, s)
                      \/ Disconnect(r)

Spec == Init /\ [][Next]_vars
=============================================================================
