----------------------------- MODULE ApiLifecycle -----------------------------
(***************************************************************************)
(* The life of the platform API process, from listening to exit            *)
(* (services/api/src/main.rs, shutdown.rs): axum's server with graceful    *)
(* shutdown under a timeout, the flush of the audit log, the close of the  *)
(* database pool.  Connection tasks are spawned: dropping the server does  *)
(* not stop them, and they end on their own or with the process.           *)
(***************************************************************************)
EXTENDS Naturals, FiniteSets

CONSTANTS
    Requests,         \* requests clients may send
    SERVE_TIMEOUT,    \* the timeout around the server future (35 s)
    REQUEST_TIMEOUT,  \* TimeoutLayer of the router (30 s)
    FLUSH_TIMEOUT     \* the time the audit flush gets (5 s)

VARIABLES
    phase,      \* what main is doing
    clock,      \* time since main entered the phase (since start, for the server)
    signalled,  \* SIGTERM or SIGINT has arrived
    req,        \* each request
    age,        \* how long each request has been running
    queued,     \* audit events in the logger's channel, by request
    stored,     \* audit events in the database
    timedOut,   \* history: the audit flush ran into its timeout
    forced      \* history: the requests the server timeout left running

vars == <<phase, clock, signalled, req, age, queued, stored, timedOut, forced>>

Serving == {"accepting", "draining"}

(***************************************************************************)
(* The type of the state.                                                  *)
(***************************************************************************)
TypeOK ==
    /\ phase \in Serving \cup {"flushing", "closing", "exited"}
    /\ clock \in 0 .. SERVE_TIMEOUT
    /\ signalled \in BOOLEAN
    /\ req \in [Requests -> {"new", "running", "done", "aborted"}]
    /\ age \in [Requests -> 0 .. REQUEST_TIMEOUT]
    /\ queued \subseteq Requests
    /\ stored \subseteq Requests
    /\ timedOut \in BOOLEAN
    /\ forced \subseteq Requests

Init ==
    /\ phase = "accepting"
    /\ clock = 0
    /\ signalled = FALSE
    /\ req = [r \in Requests |-> "new"]
    /\ age = [r \in Requests |-> 0]
    /\ queued = {}
    /\ stored = {}
    /\ timedOut = FALSE
    /\ forced = {}

Running == {r \in Requests : req[r] = "running"}

Accept(r) ==
    /\ phase = "accepting"
    /\ req[r] = "new"
    /\ req' = [req EXCEPT ![r] = "running"]
    /\ UNCHANGED <<phase, clock, signalled, age, queued, stored, timedOut, forced>>

(***************************************************************************)
(* A handler finishes and logs its audit event, which the channel takes    *)
(* while the writer lives.                                                 *)
(***************************************************************************)
Finish(r) ==
    /\ phase # "exited"
    /\ req[r] = "running"
    /\ req' = [req EXCEPT ![r] = "done"]
    /\ queued' = IF phase \in Serving \cup {"flushing"} THEN queued \cup {r} ELSE queued
    /\ UNCHANGED <<phase, clock, signalled, age, stored, timedOut, forced>>

(***************************************************************************)
(* The timeout layer answers for a handler that is still running.          *)
(***************************************************************************)
RequestTimesOut(r) ==
    /\ phase # "exited"
    /\ req[r] = "running"
    /\ age[r] = REQUEST_TIMEOUT
    /\ req' = [req EXCEPT ![r] = "aborted"]
    /\ UNCHANGED <<phase, clock, signalled, age, queued, stored, timedOut, forced>>

(***************************************************************************)
(* The audit writer stores what is queued (AuditLogger has the detail).    *)
(***************************************************************************)
Store ==
    /\ phase \in Serving
    /\ queued # {}
    /\ stored' = stored \cup queued
    /\ queued' = {}
    /\ UNCHANGED <<phase, clock, signalled, req, age, timedOut, forced>>

(***************************************************************************)
(* shutdown_signal resolves: the server stops accepting.                   *)
(***************************************************************************)
Signal ==
    /\ phase = "accepting"
    /\ signalled' = TRUE
    /\ phase' = "draining"
    /\ UNCHANGED <<clock, req, age, queued, stored, timedOut, forced>>

(***************************************************************************)
(* Once draining, the server future completes with its last connection.    *)
(***************************************************************************)
Drained ==
    /\ phase = "draining"
    /\ Running = {}
    /\ phase' = "flushing"
    /\ clock' = 0
    /\ UNCHANGED <<signalled, req, age, queued, stored, timedOut, forced>>

(***************************************************************************)
(* The timeout around the server future, which started with the server.    *)
(***************************************************************************)
ServeTimesOut ==
    /\ phase \in Serving
    /\ clock = SERVE_TIMEOUT
    /\ phase' = "flushing"
    /\ clock' = 0
    /\ forced' = Running
    /\ UNCHANGED <<signalled, req, age, queued, stored, timedOut>>

(***************************************************************************)
(* audit_logger.shutdown() drained the channel in time.                    *)
(***************************************************************************)
Flushed ==
    /\ phase = "flushing"
    /\ stored' = stored \cup queued
    /\ queued' = {}
    /\ phase' = "closing"
    /\ clock' = 0
    /\ UNCHANGED <<signalled, req, age, timedOut, forced>>

(***************************************************************************)
(* It did not: the rest of the events is abandoned.                        *)
(***************************************************************************)
FlushTimesOut ==
    /\ phase = "flushing"
    /\ clock = FLUSH_TIMEOUT
    /\ timedOut' = TRUE
    /\ phase' = "closing"
    /\ clock' = 0
    /\ UNCHANGED <<signalled, req, age, queued, stored, forced>>

(***************************************************************************)
(* pool.close() waits for the connections that are borrowed; then main     *)
(* returns and the process ends, with it the handlers that hold none.      *)
(***************************************************************************)
PoolClosed ==
    /\ phase = "closing"
    /\ phase' = "exited"
    /\ req' = [r \in Requests |-> IF r \in Running THEN "aborted" ELSE req[r]]
    /\ UNCHANGED <<clock, signalled, age, queued, stored, timedOut, forced>>

(***************************************************************************)
(* Deadlines are urgent: time does not pass one.                           *)
(***************************************************************************)
Deadline ==
    \/ phase \in Serving /\ clock = SERVE_TIMEOUT
    \/ phase = "flushing" /\ clock = FLUSH_TIMEOUT
    \/ \E r \in Running : age[r] = REQUEST_TIMEOUT

Tick ==
    /\ phase # "exited"
    /\ ~Deadline
    /\ clock' = IF phase = "closing" THEN 0 ELSE clock + 1
    /\ age' = [r \in Requests |-> IF req[r] = "running" THEN age[r] + 1 ELSE age[r]]
    /\ UNCHANGED <<phase, signalled, req, queued, stored, timedOut, forced>>

Next ==
    \/ \E r \in Requests : Accept(r) \/ Finish(r) \/ RequestTimesOut(r)
    \/ Store
    \/ Signal
    \/ Drained \/ ServeTimesOut
    \/ Flushed \/ FlushTimesOut
    \/ PoolClosed
    \/ Tick

Spec == Init /\ [][Next]_vars

-----------------------------------------------------------------------------

(***************************************************************************)
(* When the process has exited, the audit event of a finished request is   *)
(* in the database unless the flush timed out or the request was still     *)
(* running when the server timeout fired.                                  *)
(***************************************************************************)
EventLostOnlyIfForced ==
    phase = "exited" /\ ~timedOut =>
        {r \in Requests : req[r] = "done"} \subseteq stored \cup forced

(***************************************************************************)
(* "Run the server; stop accepting new connections on SIGTERM/SIGINT"      *)
(* (main.rs:120): it accepts until then.                                   *)
(***************************************************************************)
ServesUntilSignalled == phase # "accepting" => signalled

(***************************************************************************)
(* "In-flight requests are given up to 30 s to complete before we force    *)
(* shutdown" (main.rs:121): no request that has run for less is forced.    *)
(***************************************************************************)
GivenTimeToComplete ==
    [][\A r \in forced' \ forced : age[r] = REQUEST_TIMEOUT]_vars

=============================================================================
