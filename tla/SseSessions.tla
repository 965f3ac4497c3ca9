----------------------------- MODULE SseSessions -----------------------------
(***************************************************************************)
(* The legacy SSE transport (gateway/src/sse.rs): the session registry,    *)
(* GET /sse/:slug, which opens a session and streams from its channel,     *)
(* POST /messages/:slug, which dispatches a call and pushes its response   *)
(* into that channel, and the sweeper that closes idle sessions.           *)
(*                                                                         *)
(* A message is a "response" or the sweeper's "cancelled".  last_activity  *)
(* is kept as the time passed since, saturated just above the timeout.     *)
(* Connection limits are ConnectionTracker's: here try_acquire may refuse. *)
(***************************************************************************)
EXTENDS Integers, Sequences, FiniteSets

CONSTANTS Sessions,             \* session ids, each used once
          Posts,                \* POST handlers that may be running
          None,
          MAX_SSE_SESSIONS,
          CHANNEL_CAPACITY,     \* of a session's channel (64)
          SESSION_TIMEOUT       \* in ticks of any length

ASSUME NoneAssumption == None \notin Sessions
ASSUME LimitsAssumption ==
  {MAX_SSE_SESSIONS, CHANNEL_CAPACITY, SESSION_TIMEOUT} \subseteq Nat \ {0}

VARIABLES conn,             \* where each session's GET is
          registered,       \* keys of the registry
          age,              \* time since last_activity, saturated
          queue,            \* a session's channel
          target,           \* the session a POST is for
          timedOut,         \* sessions the sweeper found idle, not yet closed
          sweeping,         \* the one it has sent "cancelled" to
          isShuttingDown,
          told,             \* history: sessions whose client got "cancelled"
          full,             \* history: sessions whose channel was full then
          silence           \* history: time since a POST last ended
vars == <<conn, registered, age, queue, target, timedOut, sweeping,
          isShuttingDown, told, full, silence>>
sweepVars == <<timedOut, sweeping>>
historyVars == <<told, full, silence>>

Age == 0..SESSION_TIMEOUT + 1
Message == {"response", "cancelled"}

TypeOK ==
  /\ conn \in [Sessions -> {"new", "auth", "refused", "open", "closed", "left"}]
  /\ registered \subseteq Sessions
  /\ age \in [Sessions -> Age]
  /\ queue \in [Sessions -> Seq(Message)]
  /\ \A s \in Sessions : Len(queue[s]) <= CHANNEL_CAPACITY
  /\ target \in [Posts -> Sessions \cup {None}]
  /\ timedOut \subseteq Sessions
  /\ sweeping \in Sessions \cup {None}
  /\ isShuttingDown \in BOOLEAN
  /\ told \subseteq Sessions
  /\ full \subseteq Sessions
  /\ silence \in [Sessions -> Age]

Init ==
  /\ conn = [s \in Sessions |-> "new"]
  /\ registered = {}
  /\ age = [s \in Sessions |-> 0]
  /\ queue = [s \in Sessions |-> <<>>]
  /\ target = [p \in Posts |-> None]
  /\ timedOut = {}
  /\ sweeping = None
  /\ isShuttingDown = FALSE
  /\ told = {}
  /\ full = {}
  /\ silence = [s \in Sessions |-> 0]

Goto(s, from, to) == conn[s] = from /\ conn' = [conn EXCEPT ![s] = to]

(* try_send: refused by a full channel, and by one whose stream is gone.   *)
Push(s, m) ==
  queue' = IF conn[s] = "open" /\ Len(queue[s]) < CHANNEL_CAPACITY
             THEN [queue EXCEPT ![s] = Append(@, m)] ELSE queue

---------------------------------------------------------------------------
(* sse_connect_handler *)

(* The shutdown and capacity checks, before authentication is awaited.     *)
Connect(s) ==
  /\ ~isShuttingDown
  /\ Cardinality(registered) < MAX_SSE_SESSIONS
  /\ Goto(s, "new", "auth")
  /\ UNCHANGED <<registered, age, queue, target, sweepVars, isShuttingDown, historyVars>>

Refuse(s) ==
  /\ Goto(s, "auth", "refused")
  /\ UNCHANGED <<registered, age, queue, target, sweepVars, isShuttingDown, historyVars>>

Register(s) ==
  /\ Goto(s, "auth", "open")
  /\ registered' = registered \cup {s}
  /\ age' = [age EXCEPT ![s] = 0]
  /\ silence' = [silence EXCEPT ![s] = 0]
  /\ UNCHANGED <<queue, target, sweepVars, isShuttingDown, told, full>>

(* The stream sends the client the next message.                           *)
StreamMessage(s) ==
  /\ conn[s] = "open" /\ queue[s] # <<>>
  /\ queue' = [queue EXCEPT ![s] = Tail(@)]
  /\ told' = IF Head(queue[s]) = "cancelled" THEN told \cup {s} ELSE told
  /\ UNCHANGED <<conn, registered, age, target, sweepVars, isShuttingDown, full, silence>>

(* recv() returns None: the registry's handle, the only sender, is gone    *)
(* and the channel is empty.  The guard is dropped with the stream.        *)
StreamEndIfTold(s) ==
  /\ s \in told /\ queue[s] = <<>>
  /\ Goto(s, "open", "closed")
  /\ UNCHANGED <<registered, age, queue, target, sweepVars, isShuttingDown, historyVars>>

StreamEnd(s) ==
  /\ s \notin registered /\ queue[s] = <<>>
  /\ Goto(s, "open", "closed")
  /\ UNCHANGED <<registered, age, queue, target, sweepVars, isShuttingDown, historyVars>>

(* The client goes away: hyper drops the stream, with its receiver and its *)
(* guard.  Nothing removes the session from the registry.                  *)
ClientLeaves(s) ==
  /\ Goto(s, "open", "left")
  /\ queue' = [queue EXCEPT ![s] = <<>>]
  /\ UNCHANGED <<registered, age, target, sweepVars, isShuttingDown, historyVars>>

---------------------------------------------------------------------------
(* sse_messages_handler *)

Post(p, s) ==
  /\ target[p] = None
  /\ s \in registered
  /\ target' = [target EXCEPT ![p] = s]
  /\ UNCHANGED <<conn, registered, age, queue, sweepVars, isShuttingDown, historyVars>>

PostEnds(p) ==
  /\ target[p] # None
  /\ target' = [target EXCEPT ![p] = None]
  /\ silence' = [silence EXCEPT ![target[p]] = 0]

(* "initialized" has neither result nor error, and nothing is pushed.      *)
PostNotification(p) ==
  /\ PostEnds(p)
  /\ UNCHANGED <<conn, registered, age, queue, sweepVars, isShuttingDown, told, full>>

(* SessionRegistry::send, its result ignored: 202 in any case.             *)
PostResponse(p) ==
  /\ PostEnds(p)
  /\ IF target[p] \in registered
       THEN Push(target[p], "response") /\ age' = [age EXCEPT ![target[p]] = 0]
       ELSE UNCHANGED <<queue, age>>
  /\ UNCHANGED <<conn, registered, sweepVars, isShuttingDown, told, full>>

(* The POST's own client goes away while the call is dispatched.           *)
PostDropped(p) ==
  /\ target[p] # None
  /\ target' = [target EXCEPT ![p] = None]
  /\ UNCHANGED <<conn, registered, age, queue, sweepVars, isShuttingDown, historyVars>>

---------------------------------------------------------------------------
(* sweep(), every SWEEP_INTERVAL_SECS: first the idle sessions are         *)
(* collected, then each is sent a cancellation and removed.                *)

SweepCollect ==
  /\ timedOut = {} /\ sweeping = None
  /\ timedOut' = {s \in registered : age[s] > SESSION_TIMEOUT}
  /\ timedOut' # {}
  /\ UNCHANGED <<conn, registered, age, queue, target, sweeping, isShuttingDown,
                 historyVars>>

SweepCancelSilently(s) ==
  /\ sweeping = None
  /\ s \in timedOut
  /\ sweeping' = s
  /\ UNCHANGED <<conn, registered, age, queue, target, timedOut, isShuttingDown,
                 historyVars>>

SweepCancel(s) ==
  /\ sweeping = None
  /\ s \in timedOut
  /\ Push(s, "cancelled")
  /\ full' = IF queue' = queue THEN full \cup {s} ELSE full
  /\ sweeping' = s
  /\ UNCHANGED <<conn, registered, age, target, timedOut, isShuttingDown, told, silence>>

SweepKeepingEntry(s) ==
  /\ sweeping = s
  /\ sweeping' = None
  /\ timedOut' = timedOut \ {s}
  /\ UNCHANGED <<conn, registered, age, queue, target, isShuttingDown, historyVars>>

SweepRemove(s) ==
  /\ sweeping = s
  /\ registered' = registered \ {s}
  /\ sweeping' = None
  /\ timedOut' = timedOut \ {s}
  /\ UNCHANGED <<conn, age, queue, target, isShuttingDown, historyVars>>

---------------------------------------------------------------------------
Later(a) == IF a > SESSION_TIMEOUT THEN a ELSE a + 1

(* Time passes; a session not yet registered, or gone, has no age.         *)
Tick ==
  /\ \E s \in registered : age[s] <= SESSION_TIMEOUT \/ silence[s] <= SESSION_TIMEOUT
  /\ age' = [s \in Sessions |-> IF s \in registered THEN Later(age[s]) ELSE age[s]]
  /\ silence' = [s \in Sessions |->
                   IF s \in registered THEN Later(silence[s]) ELSE silence[s]]
  /\ UNCHANGED <<conn, registered, queue, target, sweepVars, isShuttingDown, told, full>>

Signal ==
  /\ ~isShuttingDown
  /\ isShuttingDown' = TRUE
  /\ UNCHANGED <<conn, registered, age, queue, target, sweepVars, historyVars>>

Stream(s) == StreamMessage(s) \/ StreamEnd(s)
PostRuns(p) == PostNotification(p) \/ PostResponse(p) \/ PostDropped(p)
Sweep == SweepCollect \/ \E s \in Sessions : SweepCancel(s) \/ SweepRemove(s)

Next ==
  \/ \E s \in Sessions :
       Connect(s) \/ Refuse(s) \/ Register(s) \/ Stream(s) \/ ClientLeaves(s)
  \/ \E p \in Posts : (\E s \in Sessions : Post(p, s)) \/ PostRuns(p)
  \/ Sweep \/ Tick \/ Signal

Spec == Init /\ [][Next]_vars

(* Tasks are polled, the sweeper's timer fires, time passes.               *)
FairSpec ==
  /\ Spec
  /\ \A s \in Sessions : WF_vars(Refuse(s) \/ Register(s)) /\ WF_vars(Stream(s))
  /\ \A p \in Posts : WF_vars(PostRuns(p))
  /\ WF_vars(Sweep) /\ WF_vars(Tick)

---------------------------------------------------------------------------
(* Properties *)

(* A session the gateway closes has told its client so first: its stream   *)
(* hands over the sweeper's cancellation, and everything before it, before *)
(* it ends; unless the channel had no room for it.                         *)
ClosedClientTold ==
  \A s \in Sessions : conn[s] = "closed" => s \in told \cup full

(* A session that was opened does not stay registered without a stream: a  *)
(* client's departure alone removes nothing, but once nobody posts to the  *)
(* session the sweeper does, and its slot is free again.                   *)
DeadSessionsSwept ==
  \A s \in Sessions :
    <>[][~\E p \in Posts : target'[p] = s /\ target[p] # s]_vars
      => (conn[s] = "left" ~> s \notin registered)

(* A stream never outlives its session: removed from the registry, it      *)
(* drains its channel and ends, and lets go of its connection guard.       *)
StreamsEnd ==
  \A s \in Sessions : (conn[s] = "open" /\ s \notin registered) ~> conn[s] # "open"

---------------------------------------------------------------------------
(* What comments of the code say, and the code does not do. *)

(* sse.rs:58: MAX_SSE_SESSIONS is the "Maximum concurrent SSE sessions".   *)
SessionsWithinLimit == Cardinality(registered) <= MAX_SSE_SESSIONS

(* sse.rs:75: last_activity is "Updated on every POST".                    *)
ActivityOnEveryPost == \A s \in registered : age[s] <= silence[s]

(* sse.rs:153: sweep closes "sessions that have been idle for >            *)
(* SESSION_TIMEOUT_SECS".                                                  *)
SweepSparesActive ==
  [][\A s \in registered \ registered' : age[s] > SESSION_TIMEOUT]_vars

(* sse.rs:26: a session closes when the "Gateway shuts down                *)
(* (is_shutting_down flag set)".                                           *)
ClosesOnShutdown == \A s \in Sessions : isShuttingDown ~> conn[s] # "open"
=============================================================================
