----------------------------- MODULE SidecarPool -----------------------------
(***************************************************************************)
(* The pool of Unix-socket connections to the credential sidecar and the   *)
(* exchange execute_via_sidecar runs over one (gateway/src/sidecar.rs).    *)
(*                                                                         *)
(* A frame is abstracted to the request it belongs to: the sidecar answers *)
(* the requests written on a stream in order, so owed[st], the requests    *)
(* written on st whose responses have not been read, is all there is to    *)
(* know of its two directions.  A call runs from "new" back to "new", where *)
(* the next one of this request may start.                                 *)
(***************************************************************************)
EXTENDS Integers, Sequences, FiniteSets

CONSTANTS Requests, Streams, None, POOL_MAX

ASSUME PoolAssumption == POOL_MAX \in Nat \ {0}
ASSUME NoneAssumption == None \notin Requests \cup Streams
ASSUME FiniteAssumption == IsFiniteSet(Requests)

VARIABLES permits,      \* free permits of the semaphore
          idle,         \* streams in the idle channel, oldest first
          phase,           \* where each request is
          stream,       \* the stream of its PooledConnection
          owed,         \* per stream: requests written, responses not read
          dead,         \* streams the sidecar has closed
          got,          \* whose response each request was given
          tainted       \* history: streams returned to the pool while a
                        \* response on them was still owed
poolVars == <<permits, idle, phase, stream, owed, dead, got, tainted>>
streamVars == <<owed, dead, tainted>>

Phases == {"new", "wait", "permit", "connect", "send", "recv", "drop", "release"}
Held == {stream[r] : r \in Requests} \ {None}
Idle == {idle[i] : i \in 1..Len(idle)}
Connecting == {r \in Requests : phase[r] = "connect"}

PoolTypeOK ==
  /\ permits \in 0..POOL_MAX
  /\ idle \in Seq(Streams)
  /\ phase \in [Requests -> Phases]
  /\ stream \in [Requests -> Streams \cup {None}]
  /\ owed \in [Streams -> Seq(Requests)]
  /\ dead \subseteq Streams
  /\ got \in [Requests -> Requests \cup {None}]
  /\ tainted \subseteq Streams

PoolInit ==
  /\ permits = POOL_MAX
  /\ idle = <<>>
  /\ phase = [r \in Requests |-> "new"]
  /\ stream = [r \in Requests |-> None]
  /\ owed = [st \in Streams |-> <<>>]
  /\ dead = {}
  /\ got = [r \in Requests |-> None]
  /\ tainted = {}

Goto(r, from, to) == phase[r] = from /\ phase' = [phase EXCEPT ![r] = to]

---------------------------------------------------------------------------
(* acquire() *)

Start(r) ==
  /\ Goto(r, "new", "wait")
  /\ UNCHANGED <<permits, idle, stream, streamVars, got>>

AcquirePermit(r) ==
  /\ Goto(r, "wait", "permit")
  /\ permits > 0
  /\ permits' = permits - 1
  /\ UNCHANGED <<idle, stream, streamVars, got>>

TakeIdle(r) ==
  /\ IF idle # <<>>
       THEN /\ Goto(r, "permit", "send")
            /\ stream' = [stream EXCEPT ![r] = Head(idle)]
            /\ idle' = Tail(idle)
       ELSE /\ Goto(r, "permit", "connect")
            /\ UNCHANGED <<stream, idle>>
  /\ UNCHANGED <<permits, streamVars, got>>

(* A new socket is any that is not in use: their names mean nothing.       *)
Fresh == Streams \ (Held \cup Idle)
Connect(r) ==
  /\ Goto(r, "connect", "send")
  /\ Fresh # {}
  /\ stream' = [stream EXCEPT ![r] = CHOOSE st \in Fresh : TRUE]
  /\ UNCHANGED <<permits, idle, streamVars, got>>

ConnectFails(r) ==
  /\ Goto(r, "connect", "release")
  /\ UNCHANGED <<permits, idle, stream, streamVars, got>>

---------------------------------------------------------------------------
(* send_recv under the timeout *)

Send(r) ==
  /\ Goto(r, "send", "recv")
  /\ stream[r] \notin dead
  /\ owed' = [owed EXCEPT ![stream[r]] = Append(@, r)]
  /\ UNCHANGED <<permits, idle, stream, dead, got, tainted>>

Receive(r) ==
  /\ Goto(r, "recv", "drop")
  /\ owed[stream[r]] # <<>>
  /\ got' = [got EXCEPT ![r] = Head(owed[stream[r]])]
  /\ owed' = [owed EXCEPT ![stream[r]] = Tail(@)]
  /\ UNCHANGED <<permits, idle, stream, dead, tainted>>

(* discard(): the stream is closed, and what was on it is gone.            *)
Discard(r) ==
  /\ stream' = [stream EXCEPT ![r] = None]
  /\ owed' = [owed EXCEPT ![stream[r]] = <<>>]
  /\ dead' = dead \ {stream[r]}
  /\ tainted' = tainted \ {stream[r]}

(* IPC_TIMEOUT_SECS pass without an answer, or the stream fails.           *)
GiveUpKeepingStream(r) ==
  /\ phase[r] \in {"send", "recv"}
  /\ phase' = [phase EXCEPT ![r] = "drop"]
  /\ UNCHANGED <<permits, idle, stream, streamVars, got>>

GiveUp(r) ==
  /\ phase[r] \in {"send", "recv"}
  /\ phase' = [phase EXCEPT ![r] = "drop"]
  /\ Discard(r)
  /\ UNCHANGED <<permits, idle, got>>

(* A response that does not parse is an error of the stream too.           *)
ReceiveMalformed(r) ==
  /\ Goto(r, "recv", "drop")
  /\ owed[stream[r]] # <<>>
  /\ Discard(r)
  /\ UNCHANGED <<permits, idle, got>>

(* The client goes away and the handler's future is dropped at an await:   *)
(* a PooledConnection it already has is dropped as it is, with a response  *)
(* to come or, cut off while sending, perhaps half a frame on it.          *)
Cancel(r) ==
  /\ phase[r] \in {"wait", "permit", "connect", "send", "recv"}
  /\ phase' = [phase EXCEPT ![r] = CASE phase[r] = "wait" -> "new"
                               [] phase[r] \in {"permit", "connect"} -> "release"
                               [] phase[r] \in {"send", "recv"} -> "drop"]
  /\ \/ phase[r] # "recv" /\ UNCHANGED tainted
     \/ phase[r] \in {"send", "recv"} /\ tainted' = tainted \cup {stream[r]}
  /\ UNCHANGED <<permits, idle, stream, owed, dead, got>>

---------------------------------------------------------------------------
(* PooledConnection::drop, then its permit, and the call returns *)

Drop(r) ==
  /\ Goto(r, "drop", "release")
  /\ idle' = IF stream[r] # None THEN Append(idle, stream[r]) ELSE idle
  /\ stream' = [stream EXCEPT ![r] = None]
  /\ UNCHANGED <<permits, streamVars, got>>

ReleasePermitIfAnswered(r) ==
  /\ Goto(r, "release", "new")
  /\ permits' = IF got[r] # None THEN permits + 1 ELSE permits
  /\ got' = [got EXCEPT ![r] = None]
  /\ UNCHANGED <<idle, stream, streamVars>>

ReleasePermit(r) ==
  /\ Goto(r, "release", "new")
  /\ permits' = permits + 1
  /\ got' = [got EXCEPT ![r] = None]
  /\ UNCHANGED <<idle, stream, streamVars>>

---------------------------------------------------------------------------
(* The sidecar restarts: every stream it had is closed.  Responses it had  *)
(* written can still be read by whoever is reading; the others are lost.   *)
BeingRead == {stream[r] : r \in {q \in Requests : phase[q] = "recv"}}

SidecarRestart ==
  /\ dead # Held \cup Idle
  /\ dead' = Held \cup Idle
  /\ \E readable \in {{}, BeingRead} :
       /\ owed' = [st \in Streams |-> IF st \in readable THEN owed[st] ELSE <<>>]
       /\ tainted' = tainted \cap Held
  /\ UNCHANGED <<permits, idle, phase, stream, got>>

Acquire(r) == AcquirePermit(r) \/ TakeIdle(r) \/ Connect(r) \/ ConnectFails(r)
Exchange(r) == Send(r) \/ Receive(r) \/ GiveUp(r) \/ ReceiveMalformed(r)
DropConnection(r) == Drop(r) \/ ReleasePermit(r)

PoolNext ==
  \/ \E r \in Requests :
       Start(r) \/ Acquire(r) \/ Exchange(r) \/ Cancel(r) \/ DropConnection(r)
  \/ SidecarRestart

PoolSpec == PoolInit /\ [][PoolNext]_poolVars

---------------------------------------------------------------------------
(* Properties *)

(* At most POOL_MAX sockets are open or being opened, idle ones included:  *)
(* a stream goes back to the channel before its permit is released, so a   *)
(* request that finds the channel empty may open one.                      *)
SocketsBounded ==
  Cardinality(Held \cup Idle) + Cardinality(Connecting) <= POOL_MAX

(* A request is given its own response, whatever timeouts, I/O errors,     *)
(* malformed frames and sidecar restarts earlier users of the stream met:  *)
(* only a stream returned by a request dropped between sending and         *)
(* receiving can hand out another request's response.                      *)
OwnResponseUnlessTainted ==
  \A r \in Requests :
    phase[r] = "drop" /\ got[r] \notin {r, None} => stream[r] \in tainted

(* sidecar.rs:192: "Healthy connections are returned to the idle pool;     *)
(* broken ones are discarded."  A stream whose last response was never     *)
(* read is not healthy: its next user would read that one.                 *)
IdleStreamsHealthy == \A st \in Idle : owed[st] = <<>>
=============================================================================
