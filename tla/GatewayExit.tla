----------------------------- MODULE GatewayExit -----------------------------
(***************************************************************************)
(* The end of the gateway process over the real connection tracker: the    *)
(* shutdown future and run_shutdown_sequence (gateway/src/main.rs,         *)
(* shutdown.rs) wait for the requests of ConnectionTracker, whose handlers *)
(* write to the request logger (logging.rs), and end by flushing it.       *)
(*                                                                         *)
(* axum is external: once the shutdown future resolves, serve() returns    *)
(* when every connection has signalled its end.  A connection's task drops *)
(* the body it was sending just after that signal, and the guard in the    *)
(* body with it: drain() may still find it.                                *)
(*                                                                         *)
(* GatewayShutdown has the same sequence with its time limits, and no      *)
(* counters.                                                               *)
(***************************************************************************)
EXTENDS ConnectionTracker, Sequences

CONSTANT CHANNEL_CAPACITY   \* of the log channel

ASSUME CapacityAssumption == CHANNEL_CAPACITY \in Nat \ {0}

VARIABLES main,             \* where main() is
          logChannel,       \* "record"s, and the sentinel "flush"
          acked             \* the writer has answered the sentinel
exitVars == <<main, logChannel, acked>>
gatewayVars == <<vars, exitVars>>

MainSteps == {"serving", "lb_drain", "closing", "draining", "flush", "await_flush", "exited"}

ExitTypeOK ==
  /\ TypeOK
  /\ main \in MainSteps
  /\ logChannel \in Seq({"record", "flush"}) /\ Len(logChannel) <= CHANNEL_CAPACITY
  /\ acked \in BOOLEAN

ExitInit ==
  /\ Init
  /\ main = "serving"
  /\ logChannel = <<>>
  /\ acked = FALSE

At(from, to) == main = from /\ main' = to

---------------------------------------------------------------------------
(* Handlers and the log writer *)

(* RequestLogger::log while a request is dispatched, once per item of a    *)
(* batch: a full channel drops the record.                                 *)
Log(r) ==
  /\ main # "exited" /\ pc[r] = "held"
  /\ Len(logChannel) < CHANNEL_CAPACITY
  /\ logChannel' = Append(logChannel, "record")
  /\ UNCHANGED <<vars, main, acked>>

(* run_writer, until the process exits.                                    *)
Write ==
  /\ main # "exited"
  /\ logChannel # <<>>
  /\ logChannel' = Tail(logChannel)
  /\ acked' = (acked \/ Head(logChannel) = "flush")
  /\ UNCHANGED <<vars, main>>

(* The accept loop runs until the shutdown future resolves.                *)
Serve(r) ==
  /\ main # "exited"
  /\ \/ main \in {"serving", "lb_drain"} /\ \E s \in Servers, m \in Limits : Arrive(r, s, m)
     \/ Refuse(r) \/ Acquire(r) \/ DropGuard(r)
  /\ UNCHANGED exitVars

---------------------------------------------------------------------------
(* The shutdown future *)

Signal ==
  /\ At("serving", "lb_drain")
  /\ ShutDown
  /\ UNCHANGED <<logChannel, acked>>

LbDrainComplete ==
  /\ At("lb_drain", "closing")
  /\ UNCHANGED <<vars, logChannel, acked>>

Ended(r) == pc[r] \in {"idle", "drop_global", "drop_notify", "drop_permit"}

ServeReturns ==
  /\ At("closing", "draining")
  /\ \A r \in Requests : Ended(r)
  /\ UNCHANGED <<vars, logChannel, acked>>

---------------------------------------------------------------------------
(* run_shutdown_sequence *)

DrainStep ==
  /\ main = "draining"
  /\ Drain
  /\ UNCHANGED exitVars

(* drain() has returned, or the 30 seconds are over and the future is      *)
(* dropped.  The listener task is aborted.                                 *)
Drained ==
  /\ At("draining", "flush")
  /\ drainer = "done"
  /\ UNCHANGED <<vars, logChannel, acked>>

DrainTimesOut ==
  /\ At("draining", "flush")
  /\ drainer \in {"notified", "check", "wait"}
  /\ UNCHANGED <<vars, logChannel, acked>>

(* flush() waits for room, unlike log(), and then for the writer.          *)
SendFlush ==
  /\ At("flush", "await_flush")
  /\ Len(logChannel) < CHANNEL_CAPACITY
  /\ logChannel' = Append(logChannel, "flush")
  /\ UNCHANGED <<vars, acked>>

ExitNow ==
  /\ At("await_flush", "exited")
  /\ UNCHANGED <<vars, logChannel, acked>>

Exit ==
  /\ At("await_flush", "exited")
  /\ acked
  /\ UNCHANGED <<vars, logChannel, acked>>

Serves(r) == (Acquire(r) \/ DropGuard(r)) /\ main # "exited" /\ UNCHANGED exitVars
Main == LbDrainComplete \/ ServeReturns \/ DrainStep \/ Drained \/ SendFlush \/ Exit

ExitNext ==
  \/ \E r \in Requests : Serve(r) \/ Log(r)
  \/ Write \/ Signal \/ Main \/ DrainTimesOut

ExitSpec == ExitInit /\ [][ExitNext]_gatewayVars

(* try_acquire and drop are synchronous, and what a guard is held for      *)
(* ends: an upstream call is bounded by IPC_TIMEOUT_SECS, a stream by its  *)
(* keepalive or, for a legacy session, by its client falling silent.       *)
(* main() and the writer are polled.  The drain timeout need not fire.     *)
ExitFairSpec ==
  /\ ExitSpec
  /\ \A r \in Requests : WF_gatewayVars(Serves(r))
  /\ WF_gatewayVars(Main)
  /\ WF_gatewayVars(Write)

---------------------------------------------------------------------------
(* Properties *)

(* No record is lost by the exit: when the process exits, everything the   *)
(* log channel accepted has been written, because serve() outlasts every   *)
(* handler, so the sentinel is the last message, and main() waits for the  *)
(* writer to reach it (main.rs:252-291, logging.rs:190-204).               *)
LogsSurviveExit ==
  main = "exited" => logChannel = <<>> /\ \A r \in Requests : pc[r] # "held"

(* The gateway exits once signalled: no order of drops, notifications and  *)
(* drain()'s checks, and no full log channel, keeps the sequence waiting   *)
(* forever (shutdown.rs:99-151, connections.rs:242-258).                   *)
ExitsOnceSignalled == isShuttingDown ~> main = "exited"
=============================================================================
