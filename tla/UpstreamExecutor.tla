-------------------------- MODULE UpstreamExecutor --------------------------
(***************************************************************************)
(* UpstreamExecutor::execute (services/gateway/src/sidecar.rs) for one     *)
(* server: the circuit breaker is asked, the call goes through the sidecar *)
(* pool or, when the server needs no credential, directly, and the breaker *)
(* is told how it ended.  Callers of the breaker and requests of the pool  *)
(* are the same requests; a request's exchange runs while its breaker step *)
(* is "upstream", and nothing of it outlives the call.                     *)
(***************************************************************************)
EXTENDS CircuitBreaker, SidecarPool

CONSTANT MAX_OWED     \* bound: responses that fit in a stream nobody reads

ASSUME ExecutorAssumption == Callers = Requests /\ MAX_OWED \in Nat \ {0}

VARIABLES cancelled   \* requests whose future was dropped during the call

execVars == <<vars, poolVars, cancelled>>

ExecInit == Init /\ PoolInit /\ cancelled = {}

---------------------------------------------------------------------------
(* breaker.check(), on_success() and on_failure(): no await inside.        *)
BreakerStep(c) ==
  /\ CheckLoad(c) \/ Check(c) \/ OnSuccess(c) \/ OnFailure(c)
  /\ UNCHANGED <<poolVars, cancelled>>

(* execute_direct: a status, or a failure of any kind, or the future is    *)
(* dropped while the call is under way.                                    *)
ExecuteDirect(c) ==
  /\ phase[c] = "new"
  /\ UpstreamReturn(c)
  /\ UNCHANGED <<poolVars, cancelled>>

(* execute_via_sidecar, step by step.                                      *)
ExecuteViaSidecar(c) ==
  /\ pc[c] = "upstream"
  /\ \/ Start(c) \/ Acquire(c) \/ Drop(c)
     \/ Send(c) /\ Len(owed[stream[c]]) < MAX_OWED
     \/ Receive(c) \/ GiveUp(c) \/ ReceiveMalformed(c)
  /\ UNCHANGED <<vars, cancelled>>

(* A future dropped while it waits for a permit is gone at once; later it  *)
(* has a connection or a permit to return first.                           *)
Cancelled(c) ==
  /\ Cancel(c)
  /\ \/ phase'[c] = "new" /\ UpstreamReturn(c) /\ pc'[c] = "idle" /\ UNCHANGED cancelled
     \/ phase'[c] # "new" /\ cancelled' = cancelled \cup {c} /\ UNCHANGED vars

(* The result is matched: with a response, the status in it decides; with  *)
(* none the sidecar was unavailable or timed out; a dropped future reports *)
(* nothing.  This needs nothing shared, so it goes with the last step.     *)
Reported(c) ==
  CASE c \in cancelled -> {"idle"}
    [] got[c] = None    -> {"failure"}
    [] OTHER            -> {"success", "failure", "idle"}

Report(c) ==
  /\ ReleasePermit(c)
  /\ UpstreamReturn(c) /\ pc'[c] \in Reported(c)
  /\ cancelled' = cancelled \ {c}

Restart == SidecarRestart /\ UNCHANGED <<vars, cancelled>>
Second == Tick /\ UNCHANGED <<poolVars, cancelled>>

ExecuteStep(c) == ExecuteDirect(c) \/ ExecuteViaSidecar(c) \/ Report(c)

ExecNext ==
  \/ \E c \in Callers : BreakerStep(c) \/ ExecuteStep(c) \/ Cancelled(c)
  \/ Restart \/ Second

ExecSpec == ExecInit /\ [][ExecNext]_execVars

(* A task runs on, an exchange ends if only by its timeout, and time       *)
(* passes; requests for the server keep coming.  Nobody is obliged to      *)
(* cancel and the sidecar not to restart.                                  *)
ExecFairness ==
  /\ \A c \in Callers : WF_<<pc[c], phase[c]>>(BreakerStep(c) \/ ExecuteStep(c))
  /\ WF_openAge(Second)

ExecFairSpec == ExecSpec /\ ExecFairness

---------------------------------------------------------------------------
(* Properties, with those of the two components *)

(* What calls take from the pool is bounded and comes back: there are      *)
(* never more sockets than permits, and whenever no call is under way      *)
(* every permit is free and no stream is held, whatever connect errors,    *)
(* timeouts, malformed frames, restarts and dropped futures the earlier    *)
(* calls met (sidecar.rs:150-208, 455-519).                                *)
PoolAccounted ==
  /\ SocketsBounded
  /\ (\A c \in Callers : pc[c] # "upstream") => permits = POOL_MAX /\ Held = {}
=============================================================================
