---------------------------- MODULE AuditLogger ----------------------------
(***************************************************************************)
(* The batched audit logger of libs/common/src/audit.rs, shared by the     *)
(* Platform API and the credential injector: log() puts an event in a      *)
(* bounded channel, a background task moves events from the channel to a   *)
(* buffer and writes the buffer to PostgreSQL in one transaction, when it  *)
(* is full, when the timer fires, and a last time on shutdown().           *)
(*                                                                         *)
(* PostgreSQL is external: a failed statement aborts its transaction, later*)
(* statements fail too, and COMMIT then rolls back without an error.       *)
(***************************************************************************)
EXTENDS Integers, Sequences, Functions

CONSTANTS Events,             \* events that may be logged, each once
          Bad,                \* events whose INSERT fails
          Callers,            \* calls of shutdown()
          CHANNEL_CAPACITY,
          BATCH_SIZE

ASSUME EventsAssumption == Bad \subseteq Events
ASSUME CapacityAssumption == CHANNEL_CAPACITY \in Nat /\ BATCH_SIZE \in Nat \ {0}

VARIABLES channel,      \* events sent to the writer
          open,         \* the receiver has not been dropped
          buffer,       \* the writer's buffer
          writer,       \* where the writer task is
          batch,        \* the batch being written, INSERTs still to run
          inserted,     \* events whose INSERT succeeded in this transaction
          aborted,      \* a statement of this transaction has failed
          signal,       \* shutdown signal: "held", "sent" or "taken"
          handle,       \* the task handle has not been taken
          caller,       \* where each shutdown() is
          table,        \* rows of audit_log, in commit order
          logged,       \* history: events passed to log(), in order
          refused,      \* history: events log() dropped
          failed,       \* history: events of batches that did not commit
          inTime        \* history: events accepted before shutdown()
vars == <<channel, open, buffer, writer, batch, inserted, aborted, signal,
          handle, caller, table, logged, refused, failed, inTime>>
flushVars == <<batch, inserted, aborted>>
shutdownVars == <<signal, handle, caller>>
historyVars == <<logged, refused, inTime>>

WriterSteps == {"select", "flush", "commit", "last_flush", "last_commit", "closing",
                "exited"}
CallerSteps == {"idle", "signalled", "joining", "joined", "gave_up"}

TypeOK ==
  /\ channel \in Seq(Events) /\ Len(channel) <= CHANNEL_CAPACITY
  /\ open \in BOOLEAN
  /\ buffer \in Seq(Events)
  /\ writer \in WriterSteps
  /\ batch \in Seq(Events)
  /\ inserted \in Seq(Events)
  /\ aborted \in BOOLEAN
  /\ signal \in {"held", "sent", "taken"}
  /\ handle \in BOOLEAN
  /\ caller \in [Callers -> CallerSteps]
  /\ table \in Seq(Events)
  /\ logged \in Seq(Events)
  /\ refused \subseteq Events /\ failed \subseteq Events /\ inTime \subseteq Events

Init ==
  /\ channel = <<>> /\ open = TRUE
  /\ buffer = <<>>
  /\ writer = "select"
  /\ batch = <<>> /\ inserted = <<>> /\ aborted = FALSE
  /\ signal = "held" /\ handle = TRUE
  /\ caller = [c \in Callers |-> "idle"]
  /\ table = <<>>
  /\ logged = <<>> /\ refused = {} /\ failed = {} /\ inTime = {}

---------------------------------------------------------------------------
(* log() *)

Log(e) ==
  /\ e \notin Range(logged)
  /\ logged' = Append(logged, e)
  /\ IF open /\ Len(channel) < CHANNEL_CAPACITY
       THEN /\ channel' = Append(channel, e)
            /\ inTime' = IF signal = "held" THEN inTime \cup {e} ELSE inTime
            /\ UNCHANGED refused
       ELSE /\ refused' = refused \cup {e}                \* Full or Closed
            /\ UNCHANGED <<channel, inTime>>
  /\ UNCHANGED <<open, buffer, writer, flushVars, shutdownVars, table, failed>>

---------------------------------------------------------------------------
(* run_writer: a biased select, so a pending shutdown comes first.         *)

StartFlush(events, to) ==
  /\ batch' = events
  /\ inserted' = <<>>
  /\ aborted' = FALSE
  /\ buffer' = <<>>
  /\ writer' = to

Receive ==
  /\ writer = "select" /\ signal # "sent"
  /\ channel # <<>>
  /\ channel' = Tail(channel)
  /\ LET full == Append(buffer, Head(channel))
     IN  IF Len(full) >= BATCH_SIZE
           THEN StartFlush(full, "flush")
           ELSE buffer' = full /\ UNCHANGED <<writer, flushVars>>
  /\ UNCHANGED <<open, shutdownVars, table, historyVars, failed>>

TimerFiresWhenFull ==
  /\ writer = "select" /\ signal # "sent"
  /\ Len(buffer) >= BATCH_SIZE
  /\ StartFlush(buffer, "flush")
  /\ UNCHANGED <<channel, open, shutdownVars, table, historyVars, failed>>

TimerFires ==
  /\ writer = "select" /\ signal # "sent"
  /\ buffer # <<>>
  /\ StartFlush(buffer, "flush")
  /\ UNCHANGED <<channel, open, shutdownVars, table, historyVars, failed>>

DrainKeepingChannel ==
  /\ writer = "select" /\ signal = "sent"
  /\ signal' = "taken"
  /\ StartFlush(buffer, IF buffer = <<>> THEN "closing" ELSE "last_flush")
  /\ UNCHANGED <<channel, open, handle, caller, table, historyVars, failed>>

(* Shutdown: the channel is emptied into the buffer, which is flushed.     *)
Drain ==
  /\ writer = "select" /\ signal = "sent"
  /\ signal' = "taken"
  /\ LET rest == buffer \o channel
     IN  StartFlush(rest, IF rest = <<>> THEN "closing" ELSE "last_flush")
  /\ channel' = <<>>
  /\ UNCHANGED <<open, handle, caller, table, historyVars, failed>>

(* The task ends and drops the receiver, with what came meanwhile.         *)
Close ==
  /\ writer = "closing"
  /\ writer' = "exited"
  /\ open' = FALSE
  /\ channel' = <<>>
  /\ UNCHANGED <<buffer, flushVars, shutdownVars, table, historyVars, failed>>

---------------------------------------------------------------------------
(* flush_batch *)

AfterFlush == IF writer \in {"last_flush", "last_commit"} THEN "closing" ELSE "select"

(* begin() fails: the batch is given up.                                   *)
BeginFails ==
  /\ writer \in {"flush", "last_flush"} /\ inserted = <<>> /\ ~aborted
  /\ failed' = failed \cup Range(batch)
  /\ batch' = <<>>
  /\ writer' = AfterFlush
  /\ UNCHANGED <<channel, open, buffer, inserted, aborted, shutdownVars, table,
                 historyVars>>

Insert ==
  /\ writer \in {"flush", "last_flush"}
  /\ batch # <<>>
  /\ batch' = Tail(batch)
  /\ IF aborted \/ Head(batch) \in Bad
       THEN /\ aborted' = TRUE
            /\ failed' = failed \cup {Head(batch)}
            /\ UNCHANGED inserted
       ELSE /\ inserted' = Append(inserted, Head(batch))
            /\ UNCHANGED <<aborted, failed>>
  /\ writer' = IF Len(batch) > 1 THEN writer
               ELSE IF writer = "flush" THEN "commit" ELSE "last_commit"
  /\ UNCHANGED <<channel, open, buffer, shutdownVars, table, historyVars>>

CommitRetrying ==
  /\ writer \in {"commit", "last_commit"}
  /\ ~aborted
  /\ table' = table \o inserted
  /\ \/ inserted' = <<>> /\ writer' = AfterFlush
     \/ UNCHANGED <<inserted, writer>>
  /\ UNCHANGED <<channel, open, buffer, batch, aborted, shutdownVars, failed,
                 historyVars>>

Commit ==
  /\ writer \in {"commit", "last_commit"}
  /\ \/ ~aborted /\ table' = table \o inserted /\ UNCHANGED failed
     \/ failed' = failed \cup Range(inserted) /\ UNCHANGED table
  /\ inserted' = <<>>
  /\ aborted' = FALSE
  /\ writer' = AfterFlush
  /\ UNCHANGED <<channel, open, buffer, batch, shutdownVars, historyVars>>

---------------------------------------------------------------------------
(* shutdown(): the first call sends the signal; the first to get there     *)
(* takes the handle and waits for the task; the others return.             *)

ShutdownSignal(c) ==
  /\ caller[c] = "idle"
  /\ caller' = [caller EXCEPT ![c] = "signalled"]
  /\ signal' = IF signal = "held" THEN "sent" ELSE signal
  /\ UNCHANGED <<channel, open, buffer, writer, flushVars, handle, table,
                 historyVars, failed>>

ShutdownTake(c) ==
  /\ caller[c] = "signalled"
  /\ caller' = [caller EXCEPT ![c] = IF handle THEN "joining" ELSE "gave_up"]
  /\ handle' = FALSE
  /\ UNCHANGED <<channel, open, buffer, writer, flushVars, signal, table,
                 historyVars, failed>>

ShutdownJoin(c) ==
  /\ caller[c] = "joining"
  /\ writer = "exited"
  /\ caller' = [caller EXCEPT ![c] = "joined"]
  /\ UNCHANGED <<channel, open, buffer, writer, flushVars, signal, handle, table,
                 historyVars, failed>>

ShutdownTimeout(c) ==
  /\ caller[c] = "joining"
  /\ caller' = [caller EXCEPT ![c] = "gave_up"]
  /\ UNCHANGED <<channel, open, buffer, writer, flushVars, signal, handle, table,
                 historyVars, failed>>

Writer == Receive \/ TimerFires \/ Drain \/ Close \/ BeginFails \/ Insert \/ Commit
Shutdown(c) == ShutdownSignal(c) \/ ShutdownTake(c) \/ ShutdownJoin(c)
                 \/ ShutdownTimeout(c)

Next == \/ \E e \in Events : Log(e)
        \/ Writer
        \/ \E c \in Callers : Shutdown(c)

Spec == Init /\ [][Next]_vars

(* The writer task is polled and its timer keeps firing.                   *)
FairSpec == Spec /\ WF_vars(Writer)

---------------------------------------------------------------------------
(* Properties *)

Accepted == {e \in Range(logged) : e \notin refused}

(* When a shutdown() that waited for the writer returns, every event       *)
(* accepted before the first shutdown() is in the table, except those of a *)
(* transaction that failed: whatever batch, buffer or channel it was in    *)
(* when the signal came.                                                   *)
ShutdownFlushes ==
  (\E c \in Callers : caller[c] = "joined") =>
    inTime \subseteq Range(table) \cup failed

(* log() was called for event e, and later for f.                          *)
Before(e, f) ==
  \E p, q \in 1..Len(logged) : p < q /\ logged[p] = e /\ logged[q] = f

(* Events are written at most once, and in the order they were logged:     *)
(* batches never overtake each other, and no failure leads to a retry.     *)
OnceInOrder ==
  /\ Range(table) \subseteq Accepted
  /\ \A i, j \in 1..Len(table) : i < j => table[i] # table[j] /\ Before(table[i], table[j])

(* An accepted event does not stay in memory: unless it came too late for  *)
(* the writer's last drain, it is written or given up with its batch.      *)
AcceptedIsSettled ==
  \A e \in Events :
    e \in Accepted ~> e \in Range(table) \cup failed \/ writer = "exited"

(* audit.rs:364: "Individual insert errors are logged but do not abort the *)
(* transaction: we attempt to commit whatever succeeded."  When a          *)
(* transaction with a failed INSERT ends, the others' rows are in.         *)
InsertErrorsAreIndividual ==
  [][aborted /\ ~aborted' => Range(inserted) \subseteq Range(table')]_vars
=============================================================================
