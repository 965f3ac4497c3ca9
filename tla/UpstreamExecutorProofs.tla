----------------------- MODULE UpstreamExecutorProofs -----------------------
(***************************************************************************)
(* Proofs about UpstreamExecutor and its two components.                   *)
(***************************************************************************)
EXTENDS UpstreamExecutor, FiniteSetTheorems, TLAPS

---------------------------------------------------------------------------
(* The breaker *)

(* Every field of the breaker and every caller's position keep their type  *)
(* through every interleaving of the atomic operations.                    *)
THEOREM TypeCorrect == Spec => []TypeOK
<1> USE ThresholdAssumption
    DEF TypeOK, Steps, CheckSteps, SuccessSteps, FailureSteps
<1>1. Init => TypeOK
  <2> SUFFICES ASSUME Init PROVE TypeOK
    OBVIOUS
  <2>1. probe \in BOOLEAN /\ abandoned \in BOOLEAN
    BY Zenon DEF Init
  <2>2. openAge \in 0..OPEN_DURATION_SECS
    BY SMT DEF Init
  <2>3. QED
    BY <2>1, <2>2, SMT DEF Init
<1>2. TypeOK /\ [Next]_vars => TypeOK'
  <2> SUFFICES ASSUME TypeOK, [Next]_vars PROVE TypeOK'
    OBVIOUS
  <2>1. ASSUME NEW c \in Callers, CheckLoad(c) PROVE TypeOK'
    BY <2>1 DEF CheckLoad, Step
  <2>2. ASSUME NEW c \in Callers, Check(c) PROVE TypeOK'
    <3> USE DEF Check, CheckElapsed, CheckCas, CheckResetSuccesses,
                CheckResetProbe, CheckReload, TryAcquireProbe
    <3>1. probe' \in BOOLEAN /\ abandoned' \in BOOLEAN
      BY <2>2, Zenon
    <3>2. QED
      BY <2>2, <3>1, SMT DEF Step
  <2>3. ASSUME NEW c \in Callers, UpstreamReturn(c) PROVE TypeOK'
    <3>1. abandoned' \in BOOLEAN
      BY <2>3 DEF UpstreamReturn
    <3>2. QED
      BY <2>3, <3>1 DEF UpstreamReturn, Step
  <2>4. ASSUME NEW c \in Callers, OnSuccess(c) PROVE TypeOK'
    <3> USE DEF OnSuccess, SuccessLoad, SuccessReset, SuccessAdd,
                SuccessRelease, SuccessCas, CloseFailures, CloseProbe
    <3>1. probe' \in BOOLEAN /\ abandoned' \in BOOLEAN
      BY <2>4, Zenon
    <3>2. QED
      BY <2>4, <3>1, SMT DEF Step
  <2>5. ASSUME NEW c \in Callers, OnFailure(c) PROVE TypeOK'
    <3> USE DEF OnFailure, FailureLoad, FailureAdd, FailureCas, OpenStamp,
                ReopenCas, ReopenStamp, ReopenFailures, ReopenProbe
    <3>1. probe' \in BOOLEAN /\ abandoned' \in BOOLEAN
      BY <2>5, Zenon
    <3>2. QED
      BY <2>5, <3>1, SMT DEF Step
  <2>6. CASE Tick
    BY <2>6 DEF Tick
  <2>7. CASE UNCHANGED vars
    BY <2>7 DEF vars
  <2>8. QED
    BY <2>1, <2>2, <2>3, <2>4, <2>5, <2>6, <2>7 DEF Next
<1>3. QED
  BY <1>1, <1>2, PTL DEF Spec

(* A threshold reached is never missed: some caller is about to act on it. *)
THEOREM ThresholdsHold == Spec => []ThresholdNeverMissed
<1> USE ThresholdAssumption
<1>1. Init => ThresholdNeverMissed
  BY DEF Init, ThresholdNeverMissed
<1>2. TypeOK /\ ThresholdNeverMissed /\ [Next]_vars => ThresholdNeverMissed'
  <2> SUFFICES ASSUME TypeOK, ThresholdNeverMissed, [Next]_vars
               PROVE  ThresholdNeverMissed'
    OBVIOUS
  <2> USE DEF TypeOK, ThresholdNeverMissed
  <2>1. ASSUME NEW c \in Callers, CheckLoad(c) PROVE ThresholdNeverMissed'
    BY <2>1 DEF CheckLoad, Step
  <2>2. ASSUME NEW c \in Callers, Check(c) PROVE ThresholdNeverMissed'
    <3>1. CASE CheckElapsed(c)
      BY <3>1 DEF CheckElapsed, Step
    <3>2. CASE CheckCas(c)
      BY <3>2 DEF CheckCas, Step
    <3>3. CASE CheckResetSuccesses(c)
      BY <3>3 DEF CheckResetSuccesses, Step
    <3>4. CASE CheckResetProbe(c)
      BY <3>4 DEF CheckResetProbe, Step
    <3>5. CASE CheckReload(c)
      BY <3>5 DEF CheckReload, Step
    <3>6. CASE TryAcquireProbe(c)
      BY <3>6 DEF TryAcquireProbe
    <3>7. QED
      BY <2>2, <3>1, <3>2, <3>3, <3>4, <3>5, <3>6 DEF Check
  <2>3. ASSUME NEW c \in Callers, UpstreamReturn(c) PROVE ThresholdNeverMissed'
    BY <2>3 DEF UpstreamReturn, Step
  <2>4. ASSUME NEW c \in Callers, OnSuccess(c) PROVE ThresholdNeverMissed'
    <3>1. CASE SuccessLoad(c)
      BY <3>1 DEF SuccessLoad, Step
    <3>2. CASE SuccessReset(c)
      BY <3>2 DEF SuccessReset, Step
    <3>3. CASE SuccessAdd(c)
      BY <3>3 DEF SuccessAdd, Step
    <3>4. CASE SuccessRelease(c)
      BY <3>4 DEF SuccessRelease, Step
    <3>5. CASE SuccessCas(c)
      BY <3>5 DEF SuccessCas, Step
    <3>6. CASE CloseFailures(c)
      BY <3>6 DEF CloseFailures, Step
    <3>7. CASE CloseProbe(c)
      BY <3>7 DEF CloseProbe, Step
    <3>8. QED
      BY <2>4, <3>1, <3>2, <3>3, <3>4, <3>5, <3>6, <3>7 DEF OnSuccess
  <2>5. ASSUME NEW c \in Callers, OnFailure(c) PROVE ThresholdNeverMissed'
    <3>1. CASE FailureLoad(c)
      BY <3>1 DEF FailureLoad, Step
    <3>2. CASE FailureAdd(c)
      BY <3>2 DEF FailureAdd, Step
    <3>3. CASE FailureCas(c)
      BY <3>3 DEF FailureCas, Step
    <3>4. CASE OpenStamp(c)
      BY <3>4 DEF OpenStamp, Step
    <3>5. CASE ReopenCas(c)
      BY <3>5 DEF ReopenCas, Step
    <3>6. CASE ReopenStamp(c)
      BY <3>6 DEF ReopenStamp, Step
    <3>7. CASE ReopenFailures(c)
      BY <3>7 DEF ReopenFailures, Step
    <3>8. CASE ReopenProbe(c)
      BY <3>8 DEF ReopenProbe, Step
    <3>9. QED
      BY <2>5, <3>1, <3>2, <3>3, <3>4, <3>5, <3>6, <3>7, <3>8 DEF OnFailure
  <2>6. CASE Tick
    BY <2>6 DEF Tick
  <2>7. CASE UNCHANGED vars
    BY <2>7 DEF vars
  <2>8. QED
    BY <2>1, <2>2, <2>3, <2>4, <2>5, <2>6, <2>7 DEF Next
<1>3. QED
  BY <1>1, <1>2, TypeCorrect, PTL DEF Spec

(* The probe slot of a HalfOpen breaker is never orphaned by the           *)
(* interleaving of the breaker's own operations; only a probe that ends    *)
(* without reporting can do that.                                          *)
THEOREM SlotNotOrphaned == Spec => []SlotOrphanedOnlyIfAbandoned
<1>1. Init => SlotOrphanedOnlyIfAbandoned
  BY DEF Init, SlotOrphanedOnlyIfAbandoned
<1>2. TypeOK /\ SlotOrphanedOnlyIfAbandoned /\ [Next]_vars
        => SlotOrphanedOnlyIfAbandoned'
  <2> SUFFICES ASSUME TypeOK, SlotOrphanedOnlyIfAbandoned, [Next]_vars
               PROVE  SlotOrphanedOnlyIfAbandoned'
    OBVIOUS
  <2> USE DEF TypeOK, SlotOrphanedOnlyIfAbandoned, ClearsSlot
  <2>1. ASSUME NEW c \in Callers, CheckLoad(c) PROVE SlotOrphanedOnlyIfAbandoned'
    BY <2>1 DEF CheckLoad, Step
  <2>2. ASSUME NEW c \in Callers, Check(c) PROVE SlotOrphanedOnlyIfAbandoned'
    <3>1. CASE CheckElapsed(c)
      BY <3>1 DEF CheckElapsed, Step
    <3>2. CASE CheckCas(c)
      BY <3>2 DEF CheckCas, Step
    <3>3. CASE CheckResetSuccesses(c)
      BY <3>3 DEF CheckResetSuccesses, Step
    <3>4. CASE CheckResetProbe(c)
      BY <3>4 DEF CheckResetProbe, Step
    <3>5. CASE CheckReload(c)
      BY <3>5 DEF CheckReload, Step
    <3>6. CASE TryAcquireProbe(c)
      BY <3>6 DEF TryAcquireProbe
    <3>7. QED
      BY <2>2, <3>1, <3>2, <3>3, <3>4, <3>5, <3>6 DEF Check
  <2>3. ASSUME NEW c \in Callers, UpstreamReturn(c)
        PROVE  SlotOrphanedOnlyIfAbandoned'
    BY <2>3, Zenon DEF UpstreamReturn, Step
  <2>4. ASSUME NEW c \in Callers, OnSuccess(c) PROVE SlotOrphanedOnlyIfAbandoned'
    <3>1. CASE SuccessLoad(c)
      BY <3>1 DEF SuccessLoad, Step
    <3>2. CASE SuccessReset(c)
      BY <3>2 DEF SuccessReset, Step
    <3>3. CASE SuccessAdd(c)
      BY <3>3 DEF SuccessAdd, Step
    <3>4. CASE SuccessRelease(c)
      BY <3>4 DEF SuccessRelease, Step
    <3>5. CASE SuccessCas(c)
      BY <3>5 DEF SuccessCas, Step
    <3>6. CASE CloseFailures(c)
      BY <3>6 DEF CloseFailures, Step
    <3>7. CASE CloseProbe(c)
      BY <3>7 DEF CloseProbe, Step
    <3>8. QED
      BY <2>4, <3>1, <3>2, <3>3, <3>4, <3>5, <3>6, <3>7 DEF OnSuccess
  <2>5. ASSUME NEW c \in Callers, OnFailure(c) PROVE SlotOrphanedOnlyIfAbandoned'
    <3>1. CASE FailureLoad(c)
      BY <3>1 DEF FailureLoad, Step
    <3>2. CASE FailureAdd(c)
      BY <3>2 DEF FailureAdd, Step
    <3>3. CASE FailureCas(c)
      BY <3>3 DEF FailureCas, Step
    <3>4. CASE OpenStamp(c)
      BY <3>4 DEF OpenStamp, Step
    <3>5. CASE ReopenCas(c)
      BY <3>5 DEF ReopenCas, Step
    <3>6. CASE ReopenStamp(c)
      BY <3>6 DEF ReopenStamp, Step
    <3>7. CASE ReopenFailures(c)
      BY <3>7 DEF ReopenFailures, Step
    <3>8. CASE ReopenProbe(c)
      BY <3>8 DEF ReopenProbe, Step
    <3>9. QED
      BY <2>5, <3>1, <3>2, <3>3, <3>4, <3>5, <3>6, <3>7, <3>8 DEF OnFailure
  <2>6. CASE Tick
    BY <2>6 DEF Tick
  <2>7. CASE UNCHANGED vars
    BY <2>7 DEF vars
  <2>8. QED
    BY <2>1, <2>2, <2>3, <2>4, <2>5, <2>6, <2>7 DEF Next
<1>3. QED
  BY <1>1, <1>2, TypeCorrect, PTL DEF Spec

---------------------------------------------------------------------------
(* The pool *)

(* The requests that hold a permit of the pool, and those that hold a      *)
(* connection or are opening one (sidecar.rs).                             *)
WithPermit == {r \in Requests : phase[r] \notin {"new", "wait"}}
WithSocket == {r \in Requests : phase[r] = "connect" \/ stream[r] # None}

(* A connection is held by one request, or is idle once, and never both; it*)
(* is held from the time it is obtained until it is dropped.               *)
OneHolder ==
  /\ \A r, q \in Requests : stream[r] = stream[q] /\ stream[r] # None => r = q
  /\ \A i, j \in 1..Len(idle) : idle[i] = idle[j] => i = j
  /\ \A r \in Requests, i \in 1..Len(idle) : stream[r] # idle[i]
  /\ \A r \in Requests : phase[r] \in {"send", "recv"} => stream[r] # None
  /\ \A r \in Requests : stream[r] # None => phase[r] \in {"send", "recv", "drop"}

(* What the sidecar may still owe on the connection of request r, by the   *)
(* step r is in.                                                           *)
Clean(r) ==
  /\ phase[r] = "send" => owed[stream[r]] = <<>>
  /\ phase[r] = "recv" => owed[stream[r]] \in {<<>>, <<r>>}
  /\ phase[r] = "drop" => owed[stream[r]] = <<>> /\ got[r] \in {r, None}

(* Nothing is owed on a connection that is not tainted and that nobody     *)
(* holds; the holder of one is owed at most its own response.              *)
NothingOwed ==
  /\ \A st \in Streams : st \notin tainted /\ (\A r \in Requests : stream[r] # st) => owed[st] = <<>>
  /\ \A r \in Requests : stream[r] # None /\ stream[r] \notin tainted => Clean(r)
  /\ \A r \in Requests : phase[r] \notin {"drop", "release"} => got[r] = None
  /\ \A r \in Requests : phase[r] = "drop" /\ stream[r] = None => got[r] = None

(* Permits are neither lost nor made up, and there are no more connections *)
(* than permits.                                                           *)
Counted ==
  /\ permits + Cardinality(WithPermit) = POOL_MAX
  /\ Len(idle) + Cardinality(WithSocket) <= POOL_MAX

(* The inductive invariant of the pool.                                    *)
PoolInv == PoolTypeOK /\ OneHolder /\ NothingOwed /\ Counted

(* A request that holds a permit leaves room for it to come back: the      *)
(* semaphore of the pool is never over-filled.                             *)
LEMMA PermitsFree ==
  ASSUME PoolTypeOK, Counted, NEW r \in Requests, phase[r] \notin {"new", "wait"}
  PROVE  permits + 1 \in 0..POOL_MAX
<1>1. IsFiniteSet(WithPermit) /\ r \in WithPermit
  BY FiniteAssumption, FS_Subset DEF WithPermit
<1>2. Cardinality(WithPermit) \in Nat /\ Cardinality(WithPermit) # 0
  BY <1>1, FS_CardinalityType, FS_EmptySet
<1>3. QED
  BY <1>2, PoolAssumption DEF PoolTypeOK, Counted

(* Taking the oldest element off a queue: an idle connection (try_recv on  *)
(* the idle channel), a response owed on a connection.                     *)
LEMMA TailOfSeq ==
  ASSUME NEW S, NEW s \in Seq(S), s # <<>>
  PROVE  /\ Len(s) \in Nat /\ Len(s) >= 1 /\ Len(Tail(s)) = Len(s) - 1
         /\ Tail(s) \in Seq(S) /\ Head(s) = s[1] /\ s[1] \in S
         /\ \A i \in 1..Len(Tail(s)) : Tail(s)[i] = s[i + 1] /\ i + 1 \in 2..Len(s)
OBVIOUS

(* Adding an element at the end of a queue: an idle connection that is     *)
(* returned, a response that is owed.                                      *)
LEMMA AppendToSeq ==
  ASSUME NEW S, NEW s \in Seq(S), NEW e \in S
  PROVE  /\ Len(s) \in Nat /\ Len(Append(s, e)) = Len(s) + 1
         /\ Append(s, e) \in Seq(S) /\ Append(s, e)[Len(s) + 1] = e
         /\ \A i \in 1..Len(s) : Append(s, e)[i] = s[i]
         /\ \A i \in 1..Len(Append(s, e)) : i \in 1..Len(s) \/ i = Len(s) + 1
OBVIOUS

(* A step of the pool keeps the type of its state.                         *)
LEMMA TypesKept == ASSUME PoolInv, [PoolNext]_poolVars PROVE PoolTypeOK'
<1> USE PoolAssumption, NoneAssumption DEF PoolInv, PoolTypeOK, Phases, streamVars, Goto
<1>1. ASSUME NEW r \in Requests, Start(r) \/ ConnectFails(r) PROVE PoolTypeOK'
  BY <1>1, Zenon DEF Start, ConnectFails
<1>2. ASSUME NEW r \in Requests, AcquirePermit(r) PROVE PoolTypeOK'
  BY <1>2 DEF AcquirePermit
<1>3. ASSUME NEW r \in Requests, TakeIdle(r) PROVE PoolTypeOK'
  <2>1. CASE idle # <<>>
    <3>1. Head(idle) \in Streams /\ Tail(idle) \in Seq(Streams)
      BY <2>1, TailOfSeq
    <3>2. idle' = Tail(idle) /\ stream' = [stream EXCEPT ![r] = Head(idle)]
      BY <1>3, <2>1 DEF TakeIdle
    <3>3. phase' = [phase EXCEPT ![r] = "send"] /\ UNCHANGED <<permits, owed, dead, tainted, got>>
      BY <1>3, <2>1 DEF TakeIdle
    <3>4. QED
      BY <3>1, <3>2, <3>3
  <2>2. CASE idle = <<>>
    BY <1>3, <2>2 DEF TakeIdle
  <2>3. QED
    BY <2>1, <2>2
<1>4. ASSUME NEW r \in Requests, Connect(r) PROVE PoolTypeOK'
  <2>1. PICK st \in Streams : stream' = [stream EXCEPT ![r] = st]
    BY <1>4, Zenon DEF Connect, Fresh
  <2>2. phase' = [phase EXCEPT ![r] = "send"] /\ UNCHANGED <<permits, idle, streamVars, got>>
    BY <1>4 DEF Connect
  <2>3. QED
    BY <2>1, <2>2
<1>5. ASSUME NEW r \in Requests, Send(r) PROVE PoolTypeOK'
  <2>1. owed' \in [Streams -> Seq(Requests)]
    BY <1>5 DEF Send, OneHolder
  <2>2. QED
    BY <1>5, <2>1 DEF Send
<1>6. ASSUME NEW r \in Requests, Receive(r) PROVE PoolTypeOK'
  <2>1. stream[r] \in Streams
    BY <1>6 DEF Receive, OneHolder
  <2>2. Head(owed[stream[r]]) \in Requests /\ Tail(owed[stream[r]]) \in Seq(Requests)
    BY <1>6, <2>1 DEF Receive
  <2>3. QED
    BY <1>6, <2>2, Zenon DEF Receive
<1>7. ASSUME NEW r \in Requests, GiveUp(r) \/ ReceiveMalformed(r) PROVE PoolTypeOK'
  <2>1. <<>> \in Seq(Requests)
    OBVIOUS
  <2>2. owed' \in [Streams -> Seq(Requests)]
    BY <1>7, <2>1, Zenon DEF GiveUp, ReceiveMalformed, Discard
  <2>3. phase' \in [Requests -> Phases] /\ stream' \in [Requests -> Streams \cup {None}]
    BY <1>7, Zenon DEF GiveUp, ReceiveMalformed, Discard
  <2>4. QED
    BY <1>7, <2>2, <2>3 DEF GiveUp, ReceiveMalformed, Discard
<1>8. ASSUME NEW r \in Requests, Cancel(r) PROVE PoolTypeOK'
  <2>1. tainted' \subseteq Streams
    BY <1>8 DEF Cancel, OneHolder
  <2>2. phase' \in [Requests -> Phases]
    BY <1>8 DEF Cancel
  <2>3. QED
    BY <1>8, <2>1, <2>2 DEF Cancel
<1>9. ASSUME NEW r \in Requests, Drop(r) PROVE PoolTypeOK'
  <2>1. idle' \in Seq(Streams)
    BY <1>9 DEF Drop
  <2>2. QED
    BY <1>9, <2>1 DEF Drop
<1>10. ASSUME NEW r \in Requests, ReleasePermit(r) PROVE PoolTypeOK'
  BY <1>10, PermitsFree DEF ReleasePermit
<1>11. CASE SidecarRestart
  <2>1. <<>> \in Seq(Requests)
    OBVIOUS
  <2>2. Held \cup Idle \subseteq Streams
    BY DEF Held, Idle
  <2>3. QED
    BY <1>11, <2>1, <2>2 DEF SidecarRestart
<1>12. CASE UNCHANGED poolVars
  BY <1>12 DEF poolVars
<1>13. QED
  BY <1>1, <1>2, <1>3, <1>4, <1>5, <1>6, <1>7, <1>8, <1>9, <1>10, <1>11, <1>12
     DEF PoolNext, Acquire, Exchange, DropConnection

(* No step of the pool gives a connection a second holder: acquire takes it*)
(* off the idle queue, and what returns it gives it up.                    *)
LEMMA OneHolderKept == ASSUME PoolInv, [PoolNext]_poolVars PROVE OneHolder'
<1> USE NoneAssumption DEF PoolInv, PoolTypeOK, OneHolder, streamVars, Goto
<1>1. ASSUME NEW r \in Requests, Start(r) \/ AcquirePermit(r) \/ ConnectFails(r) PROVE OneHolder'
  BY <1>1 DEF Start, AcquirePermit, ConnectFails
<1>2. ASSUME NEW r \in Requests, TakeIdle(r) PROVE OneHolder'
  <2>1. CASE idle = <<>>
    BY <1>2, <2>1 DEF TakeIdle
  <2>2. CASE idle # <<>>
    <3> HIDE DEF OneHolder
    <3>a. idle' = Tail(idle) /\ stream' = [stream EXCEPT ![r] = Head(idle)]
      BY <1>2, <2>2 DEF TakeIdle
    <3>1. /\ Len(idle) \in Nat /\ Len(idle) >= 1 /\ Len(idle') = Len(idle) - 1
          /\ \A i \in 1..Len(idle') : idle'[i] = idle[i + 1] /\ i + 1 \in 2..Len(idle)
          /\ idle[1] \in Streams /\ Head(idle) = idle[1]
      BY <3>a, <2>2, TailOfSeq
    <3>2. /\ stream' = [stream EXCEPT ![r] = idle[1]]
          /\ phase' = [phase EXCEPT ![r] = "send"]
          /\ phase[r] = "permit"
      BY <1>2, <2>2, <3>a, <3>1 DEF TakeIdle
    <3> USE DEF OneHolder
    <3>3. \A i, j \in 1..Len(idle') : idle'[i] = idle'[j] => i = j
      <4> SUFFICES ASSUME NEW i \in 1..Len(idle'), NEW j \in 1..Len(idle'), idle'[i] = idle'[j]
                   PROVE  i = j
        OBVIOUS
      <4>1. idle[i + 1] = idle[j + 1] /\ i + 1 \in 1..Len(idle) /\ j + 1 \in 1..Len(idle)
        BY <3>1
      <4>2. i + 1 = j + 1
        BY <4>1
      <4>3. QED
        BY <3>1, <4>2
    <3>4. stream[r] = None /\ \A q \in Requests : stream[q] # idle[1]
      <4>1. 1 \in 1..Len(idle)
        BY <3>1
      <4>2. QED
        BY <3>2, <4>1, Zenon
    <3>5. \A q \in Requests, i \in 1..Len(idle') : stream'[q] # idle'[i]
      <4> SUFFICES ASSUME NEW q \in Requests, NEW i \in 1..Len(idle')
                   PROVE  stream'[q] # idle'[i]
        OBVIOUS
      <4>1. idle'[i] = idle[i + 1] /\ i + 1 \in 1..Len(idle) /\ i + 1 # 1 /\ 1 \in 1..Len(idle)
        BY <3>1
      <4>2. QED
        BY <3>2, <4>1
    <3>6. \A q, p \in Requests : stream'[q] = stream'[p] /\ stream'[q] # None => q = p
      BY <3>2, <3>4
    <3>7. \A q \in Requests : phase'[q] \in {"send", "recv"} => stream'[q] # None
      BY <3>1, <3>2
    <3>8. \A q \in Requests : stream'[q] # None => phase'[q] \in {"send", "recv", "drop"}
      BY <3>1, <3>2
    <3>9. QED
      BY <3>3, <3>5, <3>6, <3>7, <3>8
  <2>3. QED
    BY <2>1, <2>2
<1>3. ASSUME NEW r \in Requests, Connect(r) PROVE OneHolder'
  <2>1. PICK st \in Fresh : stream' = [stream EXCEPT ![r] = st]
    BY <1>3, Zenon DEF Connect
  <2>2. st \in Streams /\ (\A q \in Requests : stream[q] # st) /\ \A i \in 1..Len(idle) : idle[i] # st
    BY <2>1 DEF Fresh, Held, Idle
  <2>3. phase' = [phase EXCEPT ![r] = "send"] /\ UNCHANGED idle
    BY <1>3 DEF Connect
  <2>4. QED
    BY <2>1, <2>2, <2>3
<1>4. ASSUME NEW r \in Requests, Send(r) \/ Receive(r) PROVE OneHolder'
  <2>1. /\ UNCHANGED <<idle, stream>> /\ phase[r] \in {"send", "recv"}
        /\ phase' = [phase EXCEPT ![r] = IF phase[r] = "send" THEN "recv" ELSE "drop"]
    BY <1>4 DEF Send, Receive
  <2>2. QED
    BY <2>1
<1>5. ASSUME NEW r \in Requests, GiveUp(r) \/ ReceiveMalformed(r) PROVE OneHolder'
  <2>1. /\ UNCHANGED idle /\ stream' = [stream EXCEPT ![r] = None]
        /\ phase' = [phase EXCEPT ![r] = "drop"]
    BY <1>5 DEF GiveUp, ReceiveMalformed, Discard
  <2>2. QED
    BY <2>1
<1>6. ASSUME NEW r \in Requests, Cancel(r) PROVE OneHolder'
  <2>1. /\ UNCHANGED <<idle, stream>>
        /\ phase[r] \in {"wait", "permit", "connect", "send", "recv"}
        /\ \A q \in Requests : q # r => phase'[q] = phase[q]
    BY <1>6 DEF Cancel
  <2>2. /\ phase'[r] \in {"new", "release", "drop"}
        /\ phase[r] \in {"send", "recv"} => phase'[r] = "drop"
    BY <1>6 DEF Cancel
  <2>3. QED
    BY <2>1, <2>2
<1>7. ASSUME NEW r \in Requests, Drop(r) PROVE OneHolder'
  <2>1. CASE stream[r] = None
    BY <1>7, <2>1 DEF Drop
  <2>2. CASE stream[r] # None
    <3>1. /\ Len(idle') = Len(idle) + 1 /\ Len(idle) \in Nat
          /\ \A i \in 1..Len(idle) : idle'[i] = idle[i]
          /\ idle'[Len(idle) + 1] = stream[r]
      BY <1>7, <2>2, AppendToSeq DEF Drop
    <3>2. \A i \in 1..Len(idle') : i \in 1..Len(idle) \/ i = Len(idle) + 1
      BY <3>1
    <3>3. \A i, j \in 1..Len(idle') : idle'[i] = idle'[j] => i = j
      <4> SUFFICES ASSUME NEW i \in 1..Len(idle'), NEW j \in 1..Len(idle'), idle'[i] = idle'[j]
                   PROVE  i = j
        OBVIOUS
      <4>1. CASE i \in 1..Len(idle) /\ j \in 1..Len(idle)
        BY <3>1, <4>1
      <4>2. CASE i \notin 1..Len(idle) /\ j \in 1..Len(idle)
        <5>1. idle'[i] = stream[r] /\ stream[r] # idle[j]
          BY <3>1, <3>2, <4>2
        <5>2. QED
          BY <3>1, <4>2, <5>1, Zenon
      <4>3. CASE i \in 1..Len(idle) /\ j \notin 1..Len(idle)
        <5>1. idle'[j] = stream[r] /\ stream[r] # idle[i]
          BY <3>1, <3>2, <4>3
        <5>2. QED
          BY <3>1, <4>3, <5>1
      <4>4. QED
        BY <3>2, <4>1, <4>2, <4>3
    <3>4. \A q \in Requests, i \in 1..Len(idle') : stream'[q] # idle'[i]
      BY <1>7, <2>2, <3>1, <3>2 DEF Drop
    <3>5. QED
      BY <1>7, <3>3, <3>4 DEF Drop
  <2>3. QED
    BY <2>1, <2>2
<1>8. ASSUME NEW r \in Requests, ReleasePermit(r) PROVE OneHolder'
  BY <1>8 DEF ReleasePermit
<1>9. CASE SidecarRestart \/ UNCHANGED poolVars
  BY <1>9 DEF SidecarRestart, poolVars
<1>10. QED
  BY <1>1, <1>2, <1>3, <1>4, <1>5, <1>6, <1>7, <1>8, <1>9
     DEF PoolNext, Acquire, Exchange, DropConnection

(* No step of the pool puts back a connection on which a response is owed, *)
(* unless it is tainted.                                                   *)
LEMMA NothingOwedKept == ASSUME PoolInv, [PoolNext]_poolVars PROVE NothingOwed'
<1> USE NoneAssumption DEF PoolInv, PoolTypeOK, OneHolder, NothingOwed, Clean, streamVars, Goto
<1>1. ASSUME NEW r \in Requests, Start(r) \/ AcquirePermit(r) \/ ConnectFails(r) PROVE NothingOwed'
  <2>1. /\ UNCHANGED <<stream, owed, tainted, got>>
        /\ \A q \in Requests : q # r => phase'[q] = phase[q]
        /\ phase'[r] \in {"wait", "permit", "release"} /\ phase[r] \in {"new", "wait", "connect"}
    BY <1>1 DEF Start, AcquirePermit, ConnectFails
  <2>2. QED
    BY <2>1, Zenon
<1>2. ASSUME NEW r \in Requests, TakeIdle(r) PROVE NothingOwed'
  <2>1. CASE idle = <<>>
    BY <1>2, <2>1 DEF TakeIdle
  <2>2. CASE idle # <<>>
    <3>1. PICK st \in Streams : st = Head(idle) /\ \A q \in Requests : stream[q] # st
      <4>1. Head(idle) = idle[1] /\ 1 \in 1..Len(idle) /\ idle[1] \in Streams
        BY <2>2, TailOfSeq
      <4>2. \A q \in Requests : stream[q] # idle[1]
        BY <4>1
      <4>3. QED
        BY <4>1, <4>2
    <3>2. /\ stream' = [stream EXCEPT ![r] = st] /\ phase' = [phase EXCEPT ![r] = "send"]
          /\ UNCHANGED <<owed, tainted, got>> /\ phase[r] = "permit"
      BY <1>2, <2>2, <3>1 DEF TakeIdle
    <3>3. QED
      BY <3>1, <3>2
  <2>3. QED
    BY <2>1, <2>2
<1>3. ASSUME NEW r \in Requests, Connect(r) PROVE NothingOwed'
  <2>1. PICK st \in Fresh : stream' = [stream EXCEPT ![r] = st]
    BY <1>3, Zenon DEF Connect
  <2>2. st \in Streams /\ (\A q \in Requests : stream[q] # st)
    BY <2>1 DEF Fresh, Held, Idle
  <2>3. /\ phase' = [phase EXCEPT ![r] = "send"] /\ UNCHANGED <<owed, tainted, got>>
        /\ phase[r] = "connect"
    BY <1>3 DEF Connect
  <2>4. QED
    BY <2>1, <2>2, <2>3
<1>4. ASSUME NEW r \in Requests, Send(r) PROVE NothingOwed'
  <2>1. PICK st \in Streams : st = stream[r]
    BY <1>4 DEF Send
  <2>2. /\ phase' = [phase EXCEPT ![r] = "recv"] /\ UNCHANGED <<stream, tainted, got>>
        /\ phase[r] = "send" /\ \A x \in Streams : x # st => owed'[x] = owed[x]
    BY <1>4, <2>1 DEF Send
  <2>3. st \notin tainted => owed'[st] = <<r>>
    <3>1. owed'[st] = Append(owed[st], r)
      BY <1>4, <2>1 DEF Send
    <3>2. st \notin tainted => owed[st] = <<>>
      BY <2>1, <2>2
    <3>3. Append(<<>>, r) = <<r>>
      OBVIOUS
    <3>4. QED
      BY <3>1, <3>2, <3>3
  <2>4. \A q \in Requests : q # r => stream[q] # st
    BY <2>1
  <2>5. \A x \in Streams : x \notin tainted' /\ (\A q \in Requests : stream'[q] # x) => owed'[x] = <<>>
    BY <2>1, <2>2
  <2>6. stream'[r] \notin tainted' => Clean(r)'
    BY <2>1, <2>2, <2>3, Zenon
  <2>7. ASSUME NEW q \in Requests, q # r, stream'[q] # None, stream'[q] \notin tainted'
        PROVE  Clean(q)'
    <3>1. Clean(q) /\ owed'[stream[q]] = owed[stream[q]] /\ phase'[q] = phase[q]
      BY <2>2, <2>4, <2>7
    <3>2. QED
      BY <2>2, <3>1
  <2>8. QED
    BY <2>2, <2>5, <2>6, <2>7
<1>5. ASSUME NEW r \in Requests, Receive(r) PROVE NothingOwed'
  <2>1. PICK st \in Streams : st = stream[r]
    BY <1>5 DEF Receive
  <2>2. /\ phase' = [phase EXCEPT ![r] = "drop"] /\ UNCHANGED <<stream, tainted>>
        /\ phase[r] = "recv" /\ \A x \in Streams : x # st => owed'[x] = owed[x]
        /\ \A q \in Requests : q # r => got'[q] = got[q]
    BY <1>5, <2>1 DEF Receive
  <2>3. st \notin tainted => owed'[st] = <<>> /\ got'[r] = r
    <3>1. owed'[st] = Tail(owed[st]) /\ got'[r] = Head(owed[st]) /\ owed[st] # <<>>
      BY <1>5, <2>1 DEF Receive
    <3>2. st \notin tainted => owed[st] = <<r>>
      BY <2>1, <2>2, <3>1
    <3>3. Tail(<<r>>) = <<>> /\ Head(<<r>>) = r
      OBVIOUS
    <3>4. QED
      BY <3>1, <3>2, <3>3, Zenon
  <2>4. QED
    BY <2>1, <2>2, <2>3
<1>6. ASSUME NEW r \in Requests, GiveUp(r) \/ ReceiveMalformed(r) PROVE NothingOwed'
  <2>1. PICK st \in Streams : st = stream[r]
    BY <1>6 DEF GiveUp, ReceiveMalformed
  <2>2. /\ phase' = [phase EXCEPT ![r] = "drop"] /\ stream' = [stream EXCEPT ![r] = None]
        /\ UNCHANGED got /\ tainted' = tainted \ {st} /\ phase[r] \in {"send", "recv"}
    BY <1>6, <2>1 DEF GiveUp, ReceiveMalformed, Discard
  <2>3. \A x \in Streams : owed'[x] = IF x = st THEN <<>> ELSE owed[x]
    BY <1>6, <2>1 DEF GiveUp, ReceiveMalformed, Discard
  <2>4. QED
    BY <2>1, <2>2, <2>3
<1>7. ASSUME NEW r \in Requests, Cancel(r) PROVE NothingOwed'
  <2>1. /\ UNCHANGED <<owed, stream, got>>
        /\ phase[r] \in {"wait", "permit", "connect", "send", "recv"}
        /\ \A q \in Requests : q # r => phase'[q] = phase[q]
    BY <1>7 DEF Cancel
  <2>2. /\ phase'[r] \in {"new", "release", "drop"}
        /\ phase[r] \in {"send", "recv"} <=> phase'[r] = "drop"
    BY <1>7 DEF Cancel
  <2>3. \/ UNCHANGED tainted /\ phase[r] # "recv"
        \/ tainted' = tainted \cup {stream[r]}
    BY <1>7 DEF Cancel
  <2>4. QED
    BY <2>1, <2>2, <2>3
<1>8. ASSUME NEW r \in Requests, Drop(r) PROVE NothingOwed'
  <2>1. /\ phase' = [phase EXCEPT ![r] = "release"] /\ stream' = [stream EXCEPT ![r] = None]
        /\ UNCHANGED <<owed, tainted, got>> /\ phase[r] = "drop"
    BY <1>8 DEF Drop
  <2>2. QED
    BY <2>1
<1>9. ASSUME NEW r \in Requests, ReleasePermit(r) PROVE NothingOwed'
  <2>1. /\ phase' = [phase EXCEPT ![r] = "new"] /\ got' = [got EXCEPT ![r] = None]
        /\ UNCHANGED <<owed, tainted, stream>> /\ phase[r] = "release"
    BY <1>9 DEF ReleasePermit
  <2>2. QED
    BY <2>1
<1>10. CASE SidecarRestart
  <2>1. UNCHANGED <<phase, stream, got>> /\ tainted' = tainted \cap Held
    BY <1>10 DEF SidecarRestart
  <2>2. \A st \in Streams : owed'[st] = <<>> \/ (st \in BeingRead /\ owed'[st] = owed[st])
    BY <1>10 DEF SidecarRestart
  <2>3. \A st \in BeingRead : \E r \in Requests : stream[r] = st
    BY DEF BeingRead
  <2>4. \A r \in Requests : stream[r] \in tainted => stream[r] \in tainted'
    BY <2>1 DEF Held
  <2>5. \A st \in Streams : st \notin tainted' /\ (\A r \in Requests : stream'[r] # st) => owed'[st] = <<>>
    BY <2>1, <2>2, <2>3
  <2>6. \A r \in Requests : stream'[r] # None /\ stream'[r] \notin tainted' => Clean(r)'
    BY <2>1, <2>2, <2>4
  <2>7. QED
    BY <2>1, <2>5, <2>6
<1>11. CASE UNCHANGED poolVars
  BY <1>11 DEF poolVars
<1>12. QED
  BY <1>1, <1>2, <1>3, <1>4, <1>5, <1>6, <1>7, <1>8, <1>9, <1>10, <1>11, Zenon
     DEF PoolNext, Acquire, Exchange, DropConnection

(* The sets of requests that are counted are finite, before and after a    *)
(* step.                                                                   *)
LEMMA CountedSets ==
  /\ IsFiniteSet(WithPermit) /\ Cardinality(WithPermit) \in Nat
  /\ IsFiniteSet(WithSocket) /\ Cardinality(WithSocket) \in Nat
  /\ IsFiniteSet(WithPermit') /\ IsFiniteSet(WithSocket')
<1>1. /\ WithPermit \subseteq Requests /\ WithSocket \subseteq Requests
      /\ WithPermit' \subseteq Requests /\ WithSocket' \subseteq Requests
  BY DEF WithPermit, WithSocket
<1>2. QED
  BY <1>1, FiniteAssumption, FS_Subset, FS_CardinalityType

(* A step of the pool moves a permit with the request that takes it or     *)
(* gives it back.                                                          *)
LEMMA CountedKept == ASSUME PoolInv, [PoolNext]_poolVars PROVE Counted'
<1> USE PoolAssumption, NoneAssumption DEF PoolInv, PoolTypeOK, OneHolder, streamVars, Goto
<1>1. ASSUME WithPermit' = WithPermit, WithSocket' = WithSocket, UNCHANGED <<permits, idle>>
      PROVE  Counted'
  BY <1>1 DEF Counted
<1>2. ASSUME NEW r \in Requests,
             WithPermit' = WithPermit, WithSocket' = WithSocket \ {r}, r \in WithSocket,
             UNCHANGED <<permits, idle>>
      PROVE  Counted'
  <2>1. Cardinality(WithSocket') = Cardinality(WithSocket) - 1
    BY <1>2, CountedSets, FS_RemoveElement
  <2>2. Len(idle) \in Nat
    OBVIOUS
  <2>3. QED
    BY <1>2, <2>1, <2>2, CountedSets DEF Counted
<1>3. ASSUME NEW r \in Requests, Start(r) PROVE Counted'
  BY <1>1, <1>3 DEF Start, WithPermit, WithSocket
<1>4. ASSUME NEW r \in Requests, AcquirePermit(r) PROVE Counted'
  <2>1. WithPermit' = WithPermit \cup {r} /\ r \notin WithPermit /\ WithSocket' = WithSocket
    BY <1>4 DEF AcquirePermit, WithPermit, WithSocket
  <2>2. Cardinality(WithPermit') = Cardinality(WithPermit) + 1
    BY <2>1, CountedSets, FS_AddElement
  <2>3. QED
    BY <1>4, <2>1, <2>2, CountedSets DEF Counted, AcquirePermit
<1>5. ASSUME NEW r \in Requests, TakeIdle(r) PROVE Counted'
  <2>1. WithPermit' = WithPermit /\ permits' = permits
    BY <1>5 DEF TakeIdle, WithPermit
  <2>2. CASE idle = <<>>
    <3>1. WithSocket' \subseteq WithPermit
      BY <1>5, <2>2 DEF TakeIdle, WithPermit, WithSocket
    <3>2. Cardinality(WithSocket') <= Cardinality(WithPermit) /\ Cardinality(WithSocket') \in Nat
      BY <3>1, CountedSets, FS_Subset, FS_CardinalityType
    <3>3. idle' = <<>> /\ Len(<<>>) = 0
      BY <1>5, <2>2 DEF TakeIdle
    <3>4. QED
      BY <2>1, <3>2, <3>3, CountedSets DEF Counted
  <2>3. CASE idle # <<>>
    <3>1. stream' = [stream EXCEPT ![r] = Head(idle)] /\ idle' = Tail(idle)
      BY <1>5, <2>3 DEF TakeIdle
    <3>2. Head(idle) # None /\ Len(idle') = Len(idle) - 1 /\ Len(idle) \in Nat
      <4>1. Head(idle) \in Streams /\ Len(Tail(idle)) = Len(idle) - 1 /\ Len(idle) \in Nat
        BY <2>3, TailOfSeq
      <4>2. QED
        BY <3>1, <4>1
    <3>3. phase' = [phase EXCEPT ![r] = "send"] /\ phase[r] = "permit"
      BY <1>5, <2>3 DEF TakeIdle
    <3>4. WithSocket' = WithSocket \cup {r} /\ r \notin WithSocket
      BY <3>1, <3>2, <3>3, Zenon DEF WithSocket
    <3>5. Cardinality(WithSocket') = Cardinality(WithSocket) + 1
      BY <3>4, CountedSets, FS_AddElement
    <3>6. QED
      BY <2>1, <3>2, <3>5, CountedSets DEF Counted
  <2>4. QED
    BY <2>2, <2>3
<1>6. ASSUME NEW r \in Requests, Connect(r) PROVE Counted'
  <2>1. PICK st \in Streams : stream' = [stream EXCEPT ![r] = st]
    BY <1>6, Zenon DEF Connect, Fresh
  <2>2. /\ phase' = [phase EXCEPT ![r] = "send"] /\ UNCHANGED <<permits, idle>>
        /\ phase[r] = "connect"
    BY <1>6 DEF Connect
  <2>3. WithPermit' = WithPermit /\ WithSocket' = WithSocket
    BY <2>1, <2>2 DEF WithPermit, WithSocket
  <2>4. QED
    BY <1>1, <2>2, <2>3
<1>7. ASSUME NEW r \in Requests, ConnectFails(r) PROVE Counted'
  <2>1. WithPermit' = WithPermit /\ WithSocket' = WithSocket \ {r} /\ r \in WithSocket
    BY <1>7, Zenon DEF ConnectFails, WithPermit, WithSocket
  <2>2. QED
    BY <1>2, <1>7, <2>1 DEF ConnectFails
<1>8. ASSUME NEW r \in Requests, Send(r) \/ Receive(r) PROVE Counted'
  <2>1. WithPermit' = WithPermit /\ WithSocket' = WithSocket
    BY <1>8 DEF Send, Receive, WithPermit, WithSocket
  <2>2. QED
    BY <1>1, <1>8, <2>1 DEF Send, Receive
<1>9. ASSUME NEW r \in Requests, GiveUp(r) \/ ReceiveMalformed(r) PROVE Counted'
  <2>1. /\ phase' = [phase EXCEPT ![r] = "drop"] /\ stream' = [stream EXCEPT ![r] = None]
        /\ phase[r] \in {"send", "recv"} /\ UNCHANGED <<permits, idle>>
    BY <1>9 DEF GiveUp, ReceiveMalformed, Discard
  <2>2. WithPermit' = WithPermit /\ WithSocket' = WithSocket \ {r} /\ r \in WithSocket
    BY <2>1 DEF WithPermit, WithSocket
  <2>3. QED
    BY <1>2, <2>1, <2>2
<1>10. ASSUME NEW r \in Requests, Cancel(r) PROVE Counted'
  <2>1. /\ UNCHANGED <<stream, permits, idle>>
        /\ phase[r] \in {"wait", "permit", "connect", "send", "recv"}
        /\ \A q \in Requests : q # r => phase'[q] = phase[q]
    BY <1>10 DEF Cancel
  <2>2. phase'[r] = CASE phase[r] = "wait" -> "new"
                      [] phase[r] \in {"permit", "connect"} -> "release"
                      [] phase[r] \in {"send", "recv"} -> "drop"
    BY <1>10 DEF Cancel
  <2>3. WithPermit' = WithPermit
    BY <2>1, <2>2 DEF WithPermit
  <2>4. CASE phase[r] = "connect"
    <3>1. WithSocket' = WithSocket \ {r} /\ r \in WithSocket
      BY <2>1, <2>2, <2>4 DEF WithSocket
    <3>2. QED
      BY <1>2, <2>1, <2>3, <3>1
  <2>5. CASE phase[r] # "connect"
    <3>1. WithSocket' = WithSocket
      BY <2>1, <2>2, <2>5 DEF WithSocket
    <3>2. QED
      BY <1>1, <2>1, <2>3, <3>1
  <2>6. QED
    BY <2>4, <2>5
<1>11. ASSUME NEW r \in Requests, Drop(r) PROVE Counted'
  <2>1. WithPermit' = WithPermit /\ UNCHANGED permits
    BY <1>11 DEF Drop, WithPermit
  <2>2. CASE stream[r] = None
    <3>1. WithSocket' = WithSocket /\ idle' = idle
      BY <1>11, <2>2 DEF Drop, WithSocket
    <3>2. QED
      BY <1>1, <2>1, <3>1
  <2>3. CASE stream[r] # None
    <3>1. WithSocket' = WithSocket \ {r} /\ r \in WithSocket /\ idle' = Append(idle, stream[r])
      BY <1>11, <2>3 DEF Drop, WithSocket
    <3>2. Cardinality(WithSocket') = Cardinality(WithSocket) - 1
      BY <3>1, CountedSets, FS_RemoveElement
    <3>3. Len(idle') = Len(idle) + 1 /\ Len(idle) \in Nat
      BY <2>3, <3>1, AppendToSeq
    <3>4. QED
      BY <2>1, <3>2, <3>3, CountedSets DEF Counted
  <2>4. QED
    BY <2>2, <2>3
<1>12. ASSUME NEW r \in Requests, ReleasePermit(r) PROVE Counted'
  <2>1. WithPermit' = WithPermit \ {r} /\ r \in WithPermit /\ WithSocket' = WithSocket
    BY <1>12 DEF ReleasePermit, WithPermit, WithSocket
  <2>2. Cardinality(WithPermit') = Cardinality(WithPermit) - 1
    BY <2>1, CountedSets, FS_RemoveElement
  <2>3. QED
    BY <1>12, <2>1, <2>2, CountedSets DEF Counted, ReleasePermit
<1>13. CASE SidecarRestart \/ UNCHANGED poolVars
  BY <1>1, <1>13 DEF SidecarRestart, poolVars, WithPermit, WithSocket
<1>14. QED
  BY <1>3, <1>4, <1>5, <1>6, <1>7, <1>8, <1>9, <1>10, <1>11, <1>12, <1>13
     DEF PoolNext, Acquire, Exchange, DropConnection

---------------------------------------------------------------------------
(* What the pool promises *)

(* The invariant of the pool holds throughout, whatever is cancelled and   *)
(* whichever response is late.                                             *)
LEMMA PoolInvHolds == PoolSpec => []PoolInv
<1>1. PoolInit => PoolInv
  <2> SUFFICES ASSUME PoolInit PROVE PoolInv
    OBVIOUS
  <2>1. WithPermit = {} /\ WithSocket = {}
    BY DEF PoolInit, WithPermit, WithSocket
  <2>2. Counted
    BY <2>1, FS_EmptySet, PoolAssumption DEF Counted, PoolInit
  <2>3. PoolTypeOK /\ OneHolder /\ NothingOwed
    BY NoneAssumption, PoolAssumption
       DEF PoolInit, PoolTypeOK, Phases, OneHolder, NothingOwed, Clean
  <2>4. QED
    BY <2>2, <2>3 DEF PoolInv
<1>2. PoolInv /\ [PoolNext]_poolVars => PoolInv'
  BY TypesKept, OneHolderKept, NothingOwedKept, CountedKept DEF PoolInv
<1>3. QED
  BY <1>1, <1>2, PTL DEF PoolSpec

(* There are n numbers from 1 to n: the idle queue has as many connections *)
(* as its length.                                                          *)
LEMMA UpToSize ==
  ASSUME NEW n \in Nat
  PROVE  IsFiniteSet(1..n) /\ Cardinality(1..n) = n
<1>1. IsFiniteSet(1..n) /\ Cardinality(1..n) = IF 1 > n THEN 0 ELSE n - 1 + 1
  <2>1. 1 \in Int /\ n \in Int
    OBVIOUS
  <2>2. QED
    BY ONLY <2>1, FS_Interval, Zenon
<1>2. QED
  BY <1>1

(* The counts bound the number of open connections by the size of the pool.*)
LEMMA BoundedByCount == ASSUME PoolInv PROVE SocketsBounded
<1> DEFINE Holding == {r \in Requests : stream[r] # None}
<1> USE DEF PoolInv, PoolTypeOK
<1>1. Holding \subseteq Requests /\ Connecting \subseteq Requests
  BY DEF Connecting
<1>2. /\ IsFiniteSet(Holding) /\ Cardinality(Holding) \in Nat
      /\ IsFiniteSet(Connecting) /\ Cardinality(Connecting) \in Nat
  BY <1>1, FiniteAssumption, FS_Subset, FS_CardinalityType
<1>3. IsFiniteSet(Held) /\ Cardinality(Held) <= Cardinality(Holding)
  <2> DEFINE f == [r \in Holding |-> stream[r]]
  <2>1. f \in [Holding -> Held]
    BY DEF Held
  <2>2. \A st \in Held : \E r \in Holding : f[r] = st
    BY DEF Held
  <2>3. f \in Surjection(Holding, Held)
    BY <2>1, <2>2, Zenon DEF Surjection
  <2>4. QED
    BY <1>2, <2>3, FS_Surjection
<1>4. IsFiniteSet(Idle) /\ Cardinality(Idle) <= Len(idle) /\ Len(idle) \in Nat
  <2>1. Len(idle) \in Nat /\ idle \in [1..Len(idle) -> Streams]
    OBVIOUS
  <2>2. idle \in Surjection(1..Len(idle), Idle)
    BY <2>1 DEF Surjection, Idle
  <2>3. IsFiniteSet(1..Len(idle)) /\ Cardinality(1..Len(idle)) = Len(idle)
    BY <2>1, UpToSize
  <2>4. QED
    BY <2>1, <2>2, <2>3, FS_Surjection
<1>5. Cardinality(Held \cup Idle) <= Cardinality(Holding) + Len(idle)
  <2>1. Cardinality(Held \cap Idle) \in Nat
    <3>1. Held \cap Idle \subseteq Held
      OBVIOUS
    <3>2. QED
      BY <1>3, <3>1, FS_Subset, FS_CardinalityType
  <2>2. Cardinality(Held) \in Nat /\ Cardinality(Idle) \in Nat
    BY <1>3, <1>4, FS_CardinalityType
  <2>3. Cardinality(Held \cup Idle) = Cardinality(Held) + Cardinality(Idle) - Cardinality(Held \cap Idle)
    BY <1>3, <1>4, FS_Union
  <2>4. QED
    BY <1>2, <1>3, <1>4, <2>1, <2>2, <2>3
<1>6. Cardinality(WithSocket) = Cardinality(Holding) + Cardinality(Connecting)
  <2>1. WithSocket = Holding \cup Connecting /\ Holding \cap Connecting = {}
    BY Zenon DEF WithSocket, Connecting, OneHolder
  <2>2. Cardinality(WithSocket) = Cardinality(Holding) + Cardinality(Connecting) - Cardinality({})
    BY <1>2, <2>1, FS_Union, Zenon
  <2>3. QED
    BY <1>2, <2>2, FS_EmptySet
<1>7. Cardinality(Held \cup Idle) \in Nat
  BY <1>3, <1>4, FS_Union, FS_CardinalityType, Zenon
<1>8. QED
  BY <1>2, <1>4, <1>5, <1>6, <1>7, PoolAssumption DEF SocketsBounded, Counted

---------------------------------------------------------------------------
(* The executor *)

(***************************************************************************)
(* A call of execute takes the breaker through the steps of CircuitBreaker *)
(* and the pool through those of SidecarPool, so everything proved of      *)
(* either holds of the executor.                                           *)
(***************************************************************************)
THEOREM ExecutorComposes == ExecSpec => Spec /\ PoolSpec
<1>1. ExecInit => Init /\ PoolInit
  BY DEF ExecInit
<1>2. [ExecNext]_execVars => [PoolNext]_poolVars
  BY ExecutorAssumption
     DEF ExecNext, execVars, BreakerStep, ExecuteStep, ExecuteDirect, ExecuteViaSidecar, Report,
         Cancelled, Restart, Second, PoolNext, Exchange, DropConnection
<1>3. [ExecNext]_execVars => [Next]_vars
  BY DEF ExecNext, execVars, BreakerStep, ExecuteStep, ExecuteDirect, ExecuteViaSidecar, Report,
         Cancelled, Restart, Second, Next
<1>4. QED
  BY <1>1, <1>2, <1>3, PTL DEF ExecSpec, Spec, PoolSpec

(***************************************************************************)
(* Whatever timeouts, I/O errors, malformed frames, restarts of the        *)
(* sidecar and dropped futures the earlier users of a stream met, a        *)
(* request is given its own response: another's can only come from a       *)
(* stream that a request dropped in mid-exchange has returned.             *)
(***************************************************************************)
THEOREM RightResponse == ExecSpec => []OwnResponseUnlessTainted
<1>1. PoolInv => OwnResponseUnlessTainted
  BY NoneAssumption DEF PoolInv, NothingOwed, Clean, OwnResponseUnlessTainted
<1>2. QED
  BY <1>1, ExecutorComposes, PoolInvHolds, PTL

(***************************************************************************)
(* Only a request that is in its call is in an exchange.                   *)
(***************************************************************************)
Inside == \A c \in Callers : phase[c] # "new" => pc[c] = "upstream"

(* The executor calls the pool only for a request the breaker has let      *)
(* through (sidecar.rs, execute).                                          *)
LEMMA InsideHolds == ExecSpec => []Inside
<1> USE ExecutorAssumption
<1>1. ExecInit => Inside
  BY DEF ExecInit, PoolInit, Inside
<1>2. TypeOK /\ PoolTypeOK /\ Inside /\ [ExecNext]_execVars => Inside'
  <2> SUFFICES ASSUME TypeOK, PoolTypeOK, Inside, [ExecNext]_execVars PROVE Inside'
    OBVIOUS
  <2> USE DEF Inside, TypeOK, PoolTypeOK
  <2>1. ASSUME NEW c \in Callers, BreakerStep(c) PROVE Inside'
    <3>1. pc[c] # "upstream" /\ (\A d \in Callers : d # c => pc'[d] = pc[d]) /\ UNCHANGED phase
      BY <2>1 DEF BreakerStep, CheckLoad, Check, CheckElapsed, CheckCas, CheckResetSuccesses,
                  CheckResetProbe, CheckReload, TryAcquireProbe,
                  OnSuccess, SuccessLoad, SuccessReset, SuccessAdd,
                  SuccessRelease, SuccessCas, CloseFailures, CloseProbe,
                  OnFailure, FailureLoad, FailureAdd, FailureCas, OpenStamp,
                  ReopenCas, ReopenStamp, ReopenFailures, ReopenProbe, Step, poolVars
    <3>2. QED
      BY <3>1
  <2>2. ASSUME NEW c \in Callers, ExecuteDirect(c) PROVE Inside'
    BY <2>2 DEF ExecuteDirect, UpstreamReturn, Step, poolVars
  <2>3. ASSUME NEW c \in Callers, ExecuteViaSidecar(c) PROVE Inside'
    <3>1. UNCHANGED pc /\ pc[c] = "upstream" /\ \A d \in Callers : d # c => phase'[d] = phase[d]
      BY <2>3 DEF ExecuteViaSidecar, vars, Start, Acquire, AcquirePermit, TakeIdle, Connect,
                  ConnectFails, Drop, Send, Receive, GiveUp, ReceiveMalformed, Goto
    <3>2. QED
      BY <3>1
  <2>4. ASSUME NEW c \in Callers, Report(c) PROVE Inside'
    BY <2>4 DEF Report, ReleasePermit, Goto, UpstreamReturn, Step
  <2>5. ASSUME NEW c \in Callers, Cancelled(c) PROVE Inside'
    <3>1. phase[c] # "new" /\ \A d \in Callers : d # c => phase'[d] = phase[d]
      BY <2>5 DEF Cancelled, Cancel
    <3>2. UNCHANGED pc \/ (phase'[c] = "new" /\ \A d \in Callers : d # c => pc'[d] = pc[d])
      BY <2>5 DEF Cancelled, UpstreamReturn, Step, vars
    <3>3. QED
      BY <3>1, <3>2
  <2>6. CASE Restart \/ Second \/ UNCHANGED execVars
    BY <2>6 DEF Restart, SidecarRestart, Second, Tick, execVars, vars, poolVars
  <2>7. QED
    BY <2>1, <2>2, <2>3, <2>4, <2>5, <2>6 DEF ExecNext, ExecuteStep
<1>3. PoolInv => PoolTypeOK
  BY DEF PoolInv
<1>4. QED
  BY <1>1, <1>2, <1>3, ExecutorComposes, TypeCorrect, PoolInvHolds, PTL DEF ExecSpec

(***************************************************************************)
(* There are never more sockets than permits, and while no call is under   *)
(* way every permit is free and no stream is held.                         *)
(***************************************************************************)
THEOREM PoolReturned == ExecSpec => []PoolAccounted
<1>1. PoolInv /\ Inside => PoolAccounted
  <2> SUFFICES ASSUME PoolInv, Inside, \A c \in Callers : pc[c] # "upstream"
               PROVE  permits = POOL_MAX /\ Held = {}
    BY BoundedByCount DEF PoolAccounted
  <2>1. \A r \in Requests : phase[r] = "new"
    BY ExecutorAssumption DEF Inside
  <2>2. WithPermit = {} /\ \A r \in Requests : stream[r] = None
    BY <2>1 DEF WithPermit, PoolInv, OneHolder
  <2>3. QED
    BY <2>2, FS_EmptySet, PoolAssumption DEF Held, PoolInv, Counted, PoolTypeOK
<1>2. QED
  BY <1>1, InsideHolds, ExecutorComposes, PoolInvHolds, PTL
=============================================================================
