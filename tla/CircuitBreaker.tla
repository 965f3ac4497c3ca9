--------------------------- MODULE CircuitBreaker ---------------------------
(***************************************************************************)
(* The per-server circuit breaker (gateway/src/circuit_breaker.rs) and the *)
(* calls UpstreamExecutor::execute (gateway/src/sidecar.rs) makes on it.   *)
(*                                                                         *)
(* The breaker is a struct of atomics shared by every request for one      *)
(* server.  Each action is one atomic operation of the code, so requests   *)
(* interleave exactly where threads do.  A caller's pc names the operation *)
(* it performs next; "idle" is a caller with no request, "upstream" one    *)
(* whose request was admitted and is in flight.                            *)
(*                                                                         *)
(* open_since_secs is kept as the number of seconds passed since the       *)
(* stored time, saturated at OPEN_DURATION_SECS: check() only asks whether *)
(* it has reached that value.  It starts saturated, since the field starts *)
(* as 0, the Unix epoch.  retry_after_ms is left out: execute() passes     *)
(* None to on_failure, so the field never leaves its default.              *)
(***************************************************************************)
EXTENDS Integers, FiniteSets

CONSTANTS Callers,                      \* requests that may be in progress
          FAILURE_THRESHOLD,
          HALF_OPEN_SUCCESS_THRESHOLD,
          OPEN_DURATION_SECS,
          Outcomes                      \* how an upstream call may end

ASSUME ThresholdAssumption ==
  /\ FAILURE_THRESHOLD \in Nat \ {0, 1}
  /\ HALF_OPEN_SUCCESS_THRESHOLD \in Nat \ {0}
  /\ OPEN_DURATION_SECS \in Nat \ {0}
ASSUME OutcomesAssumption ==
  Outcomes \subseteq {"ok", "failure", "client_error", "cancelled"}

VARIABLES state,        \* "Closed", "Open" or "HalfOpen"
          failures,     \* consecutive_failures
          successes,    \* consecutive_successes
          openAge,      \* seconds since open_since_secs, saturated
          probe,        \* probe_in_progress
          pc,           \* next operation of each caller
          probing,      \* callers admitted by taking the probe slot
          abandoned     \* history: a probe ended without a report since the
                        \* slot was last taken or cleared
vars == <<state, failures, successes, openAge, probe, pc, probing, abandoned>>

CheckSteps == {"open_since", "cas_half_open", "reset_successes", "reset_probe",
               "recheck", "acquire"}
SuccessSteps == {"success", "success_reset", "success_add", "success_release",
                 "cas_close", "close_failures", "close_probe"}
FailureSteps == {"failure", "failure_add", "cas_open", "open_stamp",
                 "cas_reopen", "reopen_stamp", "reopen_failures", "reopen_probe"}
Steps == {"idle", "upstream"} \cup CheckSteps \cup SuccessSteps \cup FailureSteps

TypeOK ==
  /\ state \in {"Closed", "Open", "HalfOpen"}
  /\ failures \in Nat
  /\ successes \in Nat
  /\ openAge \in 0..OPEN_DURATION_SECS
  /\ probe \in BOOLEAN
  /\ pc \in [Callers -> Steps]
  /\ probing \in SUBSET Callers
  /\ abandoned \in BOOLEAN

Init ==
  /\ state = "Closed"
  /\ failures = 0
  /\ successes = 0
  /\ openAge = OPEN_DURATION_SECS
  /\ probe = FALSE
  /\ pc = [c \in Callers |-> "idle"]
  /\ probing = {}
  /\ abandoned = FALSE

(***************************************************************************)
(* Step(c, from, to): caller c performs the operation from and goes on to  *)
(* to.  Ending a request ("idle") forgets how it was admitted.             *)
(***************************************************************************)
Step(c, from, to) ==
  /\ pc[c] = from
  /\ pc' = [pc EXCEPT ![c] = to]
  /\ probing' = IF to = "idle" THEN probing \ {c} ELSE probing

---------------------------------------------------------------------------
(* check() *)

CheckLoad(c) ==
  /\ Step(c, "idle", CASE state = "Closed"   -> "upstream"
                       [] state = "Open"     -> "open_since"
                       [] state = "HalfOpen" -> "acquire")
  /\ UNCHANGED <<state, failures, successes, openAge, probe, abandoned>>

CheckElapsed(c) ==
  /\ Step(c, "open_since",
          IF openAge >= OPEN_DURATION_SECS THEN "cas_half_open" ELSE "idle")
  /\ UNCHANGED <<state, failures, successes, openAge, probe, abandoned>>

CheckCas(c) ==
  /\ IF state = "Open"
       THEN Step(c, "cas_half_open", "reset_successes") /\ state' = "HalfOpen"
       ELSE Step(c, "cas_half_open", "recheck") /\ UNCHANGED state
  /\ UNCHANGED <<failures, successes, openAge, probe, abandoned>>

CheckResetSuccesses(c) ==
  /\ Step(c, "reset_successes", "reset_probe")
  /\ successes' = 0
  /\ UNCHANGED <<state, failures, openAge, probe, abandoned>>

CheckResetProbeSkipped(c) ==
  /\ Step(c, "reset_probe", "acquire")
  /\ abandoned' = FALSE
  /\ UNCHANGED <<state, failures, successes, openAge, probe>>

CheckResetProbe(c) ==
  /\ Step(c, "reset_probe", "acquire")
  /\ probe' = FALSE
  /\ abandoned' = FALSE
  /\ UNCHANGED <<state, failures, successes, openAge>>

CheckReload(c) ==
  /\ Step(c, "recheck", IF state = "HalfOpen" THEN "acquire" ELSE "idle")
  /\ UNCHANGED <<state, failures, successes, openAge, probe, abandoned>>

TryAcquireProbe(c) ==
  /\ pc[c] = "acquire"
  /\ pc' = [pc EXCEPT ![c] = IF probe THEN "idle" ELSE "upstream"]
  /\ probing' = IF probe THEN probing ELSE probing \cup {c}
  /\ probe' = TRUE
  /\ abandoned' = (abandoned /\ probe)
  /\ UNCHANGED <<state, failures, successes, openAge>>

---------------------------------------------------------------------------
(* execute(): the upstream call ends and its outcome is reported, or not.  *)
(* "failure" is SidecarUnavailable, Timeout, a 5xx or a 429;               *)
(* "client_error" any other non-2xx status, of which the breaker is not    *)
(* told; "cancelled" the request future dropped while in flight.           *)

UpstreamReturn(c) ==
  /\ \E o \in Outcomes :
       Step(c, "upstream", CASE o = "ok"      -> "success"
                             [] o = "failure" -> "failure"
                             [] OTHER         -> "idle")
  /\ abandoned' = (abandoned \/ (c \in probing /\ pc'[c] = "idle"))
  /\ UNCHANGED <<state, failures, successes, openAge, probe>>

---------------------------------------------------------------------------
(* on_success() *)

SuccessLoad(c) ==
  /\ Step(c, "success", CASE state = "Closed"   -> "success_reset"
                          [] state = "HalfOpen" -> "success_add"
                          [] state = "Open"     -> "idle")
  /\ UNCHANGED <<state, failures, successes, openAge, probe, abandoned>>

SuccessReset(c) ==
  /\ Step(c, "success_reset", "idle")
  /\ failures' = 0
  /\ UNCHANGED <<state, successes, openAge, probe, abandoned>>

SuccessAdd(c) ==
  /\ successes' = successes + 1
  /\ Step(c, "success_add", IF successes' >= HALF_OPEN_SUCCESS_THRESHOLD
                              THEN "cas_close" ELSE "success_release")
  /\ UNCHANGED <<state, failures, openAge, probe, abandoned>>

SuccessReleaseSkipped(c) ==
  /\ Step(c, "success_release", "idle")
  /\ UNCHANGED <<state, failures, successes, openAge, probe, abandoned>>

SuccessRelease(c) ==
  /\ Step(c, "success_release", "idle")
  /\ probe' = FALSE
  /\ abandoned' = FALSE
  /\ UNCHANGED <<state, failures, successes, openAge>>

SuccessCas(c) ==
  /\ IF state = "HalfOpen"
       THEN Step(c, "cas_close", "close_failures") /\ state' = "Closed"
       ELSE Step(c, "cas_close", "idle") /\ UNCHANGED state
  /\ UNCHANGED <<failures, successes, openAge, probe, abandoned>>

CloseFailures(c) ==
  /\ Step(c, "close_failures", "close_probe")
  /\ failures' = 0
  /\ UNCHANGED <<state, successes, openAge, probe, abandoned>>

CloseProbe(c) ==
  /\ Step(c, "close_probe", "idle")
  /\ probe' = FALSE
  /\ abandoned' = FALSE
  /\ UNCHANGED <<state, failures, successes, openAge>>

---------------------------------------------------------------------------
(* on_failure(None) *)

FailureLoad(c) ==
  /\ Step(c, "failure", CASE state = "Closed"   -> "failure_add"
                          [] state = "HalfOpen" -> "cas_reopen"
                          [] state = "Open"     -> "idle")
  /\ UNCHANGED <<state, failures, successes, openAge, probe, abandoned>>

FailureAddOffByOne(c) ==
  /\ failures' = failures + 1
  /\ Step(c, "failure_add",
          IF failures >= FAILURE_THRESHOLD THEN "cas_open" ELSE "idle")
  /\ UNCHANGED <<state, successes, openAge, probe, abandoned>>

FailureAdd(c) ==
  /\ failures' = failures + 1
  /\ Step(c, "failure_add",
          IF failures' >= FAILURE_THRESHOLD THEN "cas_open" ELSE "idle")
  /\ UNCHANGED <<state, successes, openAge, probe, abandoned>>

FailureCas(c) ==
  /\ IF state = "Closed"
       THEN Step(c, "cas_open", "open_stamp") /\ state' = "Open"
       ELSE Step(c, "cas_open", "idle") /\ UNCHANGED state
  /\ UNCHANGED <<failures, successes, openAge, probe, abandoned>>

OpenStamp(c) ==
  /\ Step(c, "open_stamp", "idle")
  /\ openAge' = 0
  /\ UNCHANGED <<state, failures, successes, probe, abandoned>>

ReopenCas(c) ==
  /\ IF state = "HalfOpen"
       THEN Step(c, "cas_reopen", "reopen_stamp") /\ state' = "Open"
       ELSE Step(c, "cas_reopen", "idle") /\ UNCHANGED state
  /\ UNCHANGED <<failures, successes, openAge, probe, abandoned>>

ReopenStamp(c) ==
  /\ Step(c, "reopen_stamp", "reopen_failures")
  /\ openAge' = 0
  /\ UNCHANGED <<state, failures, successes, probe, abandoned>>

ReopenFailures(c) ==
  /\ Step(c, "reopen_failures", "reopen_probe")
  /\ failures' = 1
  /\ UNCHANGED <<state, successes, openAge, probe, abandoned>>

ReopenProbe(c) ==
  /\ Step(c, "reopen_probe", "idle")
  /\ probe' = FALSE
  /\ abandoned' = FALSE
  /\ UNCHANGED <<state, failures, successes, openAge>>

---------------------------------------------------------------------------
(* A second passes on the clock now_unix_secs() reads. *)
Tick ==
  /\ openAge < OPEN_DURATION_SECS
  /\ openAge' = openAge + 1
  /\ UNCHANGED <<state, failures, successes, probe, pc, probing, abandoned>>

Check(c) ==
  \/ CheckElapsed(c) \/ CheckCas(c) \/ CheckResetSuccesses(c)
  \/ CheckResetProbe(c) \/ CheckReload(c) \/ TryAcquireProbe(c)

OnSuccess(c) ==
  \/ SuccessLoad(c) \/ SuccessReset(c) \/ SuccessAdd(c) \/ SuccessRelease(c)
  \/ SuccessCas(c) \/ CloseFailures(c) \/ CloseProbe(c)

OnFailure(c) ==
  \/ FailureLoad(c) \/ FailureAdd(c) \/ FailureCas(c) \/ OpenStamp(c)
  \/ ReopenCas(c) \/ ReopenStamp(c) \/ ReopenFailures(c) \/ ReopenProbe(c)

Next ==
  \/ \E c \in Callers : CheckLoad(c) \/ Check(c) \/ UpstreamReturn(c)
                          \/ OnSuccess(c) \/ OnFailure(c)
  \/ Tick

Spec == Init /\ [][Next]_vars

(***************************************************************************)
(* Fairness.  A running request runs on, an upstream call ends (execute    *)
(* bounds it with IPC_TIMEOUT_SECS) and time passes.  Arrivals is about    *)
(* the clients, not the code: requests for the server keep coming.         *)
(***************************************************************************)
Progress ==
  /\ \A c \in Callers : WF_vars(Check(c) \/ UpstreamReturn(c)
                                  \/ OnSuccess(c) \/ OnFailure(c))
  /\ WF_vars(Tick)
Arrivals == \A c \in Callers : WF_vars(CheckLoad(c))

FairSpec == Spec /\ Progress /\ Arrivals

---------------------------------------------------------------------------
(* Properties *)

(* The callers that will clear probe_in_progress if nobody else does: the  *)
(* one that won the transition to HalfOpen and has yet to clear the flag,  *)
(* and the admitted probes whose report is still to come or under way.     *)
ClearsSlot(c) ==
  \/ pc[c] \in {"reset_successes", "reset_probe"}
  \/ /\ c \in probing
     /\ pc[c] \in {"upstream", "success", "success_add", "success_release",
                   "cas_close", "failure", "cas_reopen"}

(* A taken probe slot is never orphaned while the breaker is HalfOpen,     *)
(* whatever the interleaving of check, on_success and on_failure: some     *)
(* request still in progress will clear probe_in_progress, unless a probe  *)
(* ended without reporting to the breaker (an ignored 4xx or a dropped     *)
(* request).  An orphaned slot would refuse every later request.           *)
SlotOrphanedOnlyIfAbandoned ==
  state = "HalfOpen" /\ probe /\ ~abandoned => \E c \in Callers : ClearsSlot(c)

(* Reaching a threshold is never lost between a counter's fetch_add and    *)
(* the compare_exchange that acts on it: while the breaker is Closed with  *)
(* FAILURE_THRESHOLD failures counted, some request is about to open it or *)
(* the request that closed it is about to zero the count; and likewise for *)
(* the success count of a HalfOpen breaker.  The failure half needs a      *)
(* threshold above 1, the value re-opening stores in the counter.          *)
ThresholdNeverMissed ==
  /\ state = "Closed" /\ failures >= FAILURE_THRESHOLD =>
       \E c \in Callers : pc[c] \in {"cas_open", "close_failures"}
  /\ state = "HalfOpen" /\ successes >= HALF_OPEN_SUCCESS_THRESHOLD =>
       \E c \in Callers : pc[c] \in {"cas_close", "reset_successes"}

(* Recovery: if from some time on every call that returns succeeds, the    *)
(* breaker does not stay away from Closed for good (check's lazy Open ->   *)
(* HalfOpen, then enough probe successes), unless a probe that ended       *)
(* without reporting has left the slot taken.                              *)
RecoversWhenUpstreamDoes ==
  /\ <>[][\A c \in Callers :
            pc[c] = "upstream" => pc'[c] \in {"upstream", "success"}]_pc
  /\ <>[]~abandoned
  => []<>(state = "Closed")

(* circuit_breaker.rs:16: when HalfOpen, at most one concurrent probe.     *)
AtMostOneProbe ==
  state = "HalfOpen" =>
    Cardinality({c \in probing : pc[c] = "upstream"}) <= 1

(* circuit_breaker.rs:84: probe_in_progress is true while exactly one      *)
(* probe is in flight.  Read at rest, when no caller is between two steps  *)
(* of the breaker's own code.                                              *)
ProbeFlagMeansProbeInFlight ==
  /\ state = "HalfOpen"
  /\ probe
  /\ \A c \in Callers : pc[c] \in {"idle", "upstream"}
  => \E c \in probing : pc[c] = "upstream"

(* circuit_breaker.rs:8: Open -> HalfOpen only after OPEN_DURATION_SECS.   *)
HalfOpenOnlyAfterOpenDuration ==
  [][state = "Open" /\ state' = "HalfOpen" => openAge >= OPEN_DURATION_SECS]_vars
=============================================================================
