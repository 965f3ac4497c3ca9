--------------------------- MODULE GatewayShutdown ---------------------------
(***************************************************************************)
(* How the gateway stops: the shutdown future and the sequence main() runs *)
(* after it (gateway/src/main.rs, shutdown.rs), the requests in flight     *)
(* (transport.rs, sse.rs) and the asynchronous request logger they write   *)
(* to (logging.rs), which the sequence flushes last.                       *)
(*                                                                         *)
(* A request is dispatched, which logs a record, and answered at once or   *)
(* by an SSE stream kept open for KEEPALIVE; or it opens a legacy session, *)
(* a stream that lasts while its client uses it.  axum is external: serve  *)
(* accepts until the shutdown future resolves and returns once every       *)
(* connection has ended.  Time passes in ticks of any length; the limits   *)
(* are in ticks, and time waits for what is due.                           *)
(***************************************************************************)
EXTENDS Integers, Sequences

CONSTANTS Requests,
          CHANNEL_CAPACITY,     \* of the log channel
          LB_DRAIN,             \* the load balancer's window
          DRAIN_TIMEOUT,        \* given to ConnectionTracker::drain
          REQUEST_MAX,          \* an upstream call (IPC_TIMEOUT_SECS)
          KEEPALIVE,            \* an SSE response (sse_keepalive_secs)
          SLA,                  \* the bound shutdown.rs states
          Flush                 \* the sentinel

VARIABLES phase,            \* where main() is
          timer,            \* ticks spent in the LB window or in drain
          isShuttingDown,
          elapsed,          \* ticks since the signal, saturated above SLA
          req,              \* where each request is
          age,              \* ticks it has been dispatching or streaming
          channel,          \* the log channel: records and the sentinel
          acked,            \* the writer has answered the sentinel
          written,          \* records on stdout
          accepted          \* history: records the channel took
vars == <<phase, timer, isShuttingDown, elapsed, req, age, channel, acked,
          written, accepted>>
mainVars == <<phase, timer, isShuttingDown, elapsed>>
logVars == <<channel, acked, written, accepted>>

Phases == {"serving", "lb_drain", "closing", "draining", "flush", "await_flush",
           "exited"}
RequestSteps == {"new", "auth", "dispatch", "answer", "stream", "session", "done"}

TypeOK ==
  /\ phase \in Phases
  /\ timer \in 0..LB_DRAIN + DRAIN_TIMEOUT
  /\ isShuttingDown \in BOOLEAN
  /\ elapsed \in 0..SLA + 1
  /\ req \in [Requests -> RequestSteps]
  /\ age \in [Requests -> 0..REQUEST_MAX + KEEPALIVE]
  /\ channel \in Seq(Requests \cup {Flush}) /\ Len(channel) <= CHANNEL_CAPACITY
  /\ acked \in BOOLEAN
  /\ written \subseteq Requests
  /\ accepted \subseteq Requests

Init ==
  /\ phase = "serving"
  /\ timer = 0
  /\ isShuttingDown = FALSE
  /\ elapsed = 0
  /\ req = [r \in Requests |-> "new"]
  /\ age = [r \in Requests |-> 0]
  /\ channel = <<>>
  /\ acked = FALSE
  /\ written = {}
  /\ accepted = {}

InFlight == {r \in Requests : req[r] \notin {"new", "done"}}
Guarded == {r \in Requests : req[r] \in {"dispatch", "answer", "stream", "session"}}

---------------------------------------------------------------------------
(* Requests *)

Goto(r, from, to) ==
  /\ req[r] = from
  /\ req' = [req EXCEPT ![r] = to]
  /\ age' = [age EXCEPT ![r] = 0]
  /\ UNCHANGED mainVars

(* The accept loop still runs, and the handler looks at the flag first:    *)
(* 503 once the shutdown has begun.                                        *)
Arrive(r) ==
  /\ phase \in {"serving", "lb_drain"}
  /\ Goto(r, "new", IF isShuttingDown THEN "done" ELSE "auth")
  /\ UNCHANGED logVars

(* Authentication and try_acquire: refused, or a guard for a call or for a *)
(* legacy session.                                                         *)
Admit(r, to) ==
  /\ Goto(r, "auth", to)
  /\ UNCHANGED logVars

(* dispatch() logs its record without waiting: a full channel drops it.    *)
Dispatch(r) ==
  /\ Goto(r, "dispatch", "answer")
  /\ IF Len(channel) < CHANNEL_CAPACITY
       THEN channel' = Append(channel, r) /\ accepted' = accepted \cup {r}
       ELSE UNCHANGED <<channel, accepted>>
  /\ UNCHANGED <<acked, written>>

Answer(r, to) ==
  /\ Goto(r, "answer", to)
  /\ UNCHANGED logVars

StreamEnds(r) ==
  /\ age[r] >= KEEPALIVE
  /\ Goto(r, "stream", "done")
  /\ UNCHANGED logVars

(* The client goes away: hyper drops the handler's future or its stream.   *)
(* A legacy session ends like this too, or by falling silent.              *)
Leave(r) ==
  /\ req[r] \in {"auth", "dispatch", "stream", "session"}
  /\ Goto(r, req[r], "done")
  /\ UNCHANGED logVars

---------------------------------------------------------------------------
(* The shutdown future *)

Signal ==
  /\ phase = "serving"
  /\ phase' = "lb_drain"
  /\ isShuttingDown' = TRUE
  /\ UNCHANGED <<timer, elapsed, req, age, logVars>>

LbDrainComplete ==
  /\ phase = "lb_drain" /\ timer >= LB_DRAIN
  /\ phase' = "closing"
  /\ timer' = 0
  /\ UNCHANGED <<isShuttingDown, elapsed, req, age, logVars>>

ServeReturns ==
  /\ phase = "closing" /\ InFlight = {}
  /\ phase' = "draining"
  /\ UNCHANGED <<timer, isShuttingDown, elapsed, req, age, logVars>>

---------------------------------------------------------------------------
(* run_shutdown_sequence *)

(* drain() returns, or its timeout does.  The listener task is aborted.    *)
Drained ==
  /\ phase = "draining"
  /\ Guarded # {} => timer >= DRAIN_TIMEOUT
  /\ phase' = "flush"
  /\ timer' = 0
  /\ UNCHANGED <<isShuttingDown, elapsed, req, age, logVars>>

(* flush() waits for room, unlike log().                                   *)
SendFlush ==
  /\ phase = "flush" /\ Len(channel) < CHANNEL_CAPACITY
  /\ channel' = Append(channel, Flush)
  /\ phase' = "await_flush"
  /\ UNCHANGED <<timer, isShuttingDown, elapsed, req, age, acked, written, accepted>>

Exit ==
  /\ phase = "await_flush" /\ acked
  /\ phase' = "exited"
  /\ UNCHANGED <<timer, isShuttingDown, elapsed, req, age, logVars>>

(* run_writer takes the next message.                                      *)
Write ==
  /\ phase # "exited"
  /\ channel # <<>>
  /\ channel' = Tail(channel)
  /\ IF Head(channel) = Flush
       THEN acked' = TRUE /\ UNCHANGED written
       ELSE written' = written \cup {Head(channel)} /\ UNCHANGED acked
  /\ UNCHANGED <<mainVars, req, age, accepted>>

---------------------------------------------------------------------------
(* What is due before more time passes: a call's timeout, the end of a     *)
(* stream, of the LB window, of the drain timeout, and what takes no time  *)
(* to speak of.                                                            *)
Due ==
  \/ \E r \in Requests : \/ req[r] \in {"auth", "dispatch"} /\ age[r] >= REQUEST_MAX
                         \/ req[r] = "stream" /\ age[r] >= KEEPALIVE
                         \/ req[r] = "answer"
  \/ phase = "lb_drain" /\ timer >= LB_DRAIN
  \/ phase = "closing" /\ InFlight = {}
  \/ phase = "draining" /\ (Guarded = {} \/ timer >= DRAIN_TIMEOUT)
  \/ phase \in {"flush", "await_flush"} \/ channel # <<>>

Timed == {"auth", "dispatch", "stream"}

(* Before the signal, time only matters to the requests under way.         *)
Tick ==
  /\ ~Due
  /\ isShuttingDown /\ phase # "exited"
  /\ elapsed' = IF elapsed > SLA THEN elapsed ELSE elapsed + 1
  /\ timer' = IF phase \in {"lb_drain", "draining"} THEN timer + 1 ELSE timer
  /\ age' = [r \in Requests |-> IF req[r] \in Timed THEN age[r] + 1 ELSE age[r]]
  /\ UNCHANGED <<phase, isShuttingDown, req, logVars>>

Request(r) ==
  \/ \E to \in {"dispatch", "session", "done"} : Admit(r, to)
  \/ Dispatch(r)
  \/ \E to \in {"stream", "done"} : Answer(r, to)
  \/ StreamEnds(r)

Sequence == LbDrainComplete \/ ServeReturns \/ Drained \/ SendFlush \/ Exit

Next ==
  \/ \E r \in Requests : Arrive(r) \/ Request(r) \/ Leave(r)
  \/ Signal \/ Sequence \/ Write \/ Tick

Spec == Init /\ [][Next]_vars

---------------------------------------------------------------------------
(* Properties *)

(* When the process exits, every record the log channel accepted is on     *)
(* stdout: serve has waited for the last handler, so the sentinel comes    *)
(* after the last record, and main() waits for the writer to reach it.     *)
LogsSurviveExit == phase = "exited" => accepted \subseteq written

(* No request is cut off: whatever was admitted before the flag was seen   *)
(* has ended, by itself or by its client, when the process exits, although *)
(* the drain timeout alone would allow otherwise.                          *)
NoneCutOff == phase = "exited" => InFlight = {}

(* shutdown.rs:22: "Total wall time is bounded: ... well under the         *)
(* 40-second SLA."                                                         *)
WithinSla == elapsed <= SLA
=============================================================================
