-------------------------- MODULE GatewayExitProofs ---------------------------
(***************************************************************************)
(* Proofs about ConnectionTracker and GatewayExit for any finite set of    *)
(* requests, any servers, limits and channel capacity, and about           *)
(* GatewayShutdown for any requests, capacity and timeouts. Accounting is  *)
(* inductive relative to the type invariant of the tracker. Every step of  *)
(* the exit is a step of the tracker or leaves it alone, so the theorems of*)
(* the tracker carry over; what is new is that the exit loses no log       *)
(* record.                                                                 *)
(*                                                                         *)
(* A module that is brought in by INSTANCE takes the names it has in common*)
(* with this module from it; no theorem is about two of the components at  *)
(* once.                                                                   *)
(***************************************************************************)
EXTENDS GatewayExit, FiniteSetTheorems, TLAPS


-----------------------------------------------------------------------------
(* The tracker                                                             *)

(* Every variable of the tracker keeps its type, and a request names a     *)
(* server exactly while it is in progress.                                 *)
THEOREM TypeCorrect == Spec => []TypeOK
<1> USE ServersAssumption, LimitAssumption
    DEF TypeOK, RequestSteps, DrainSteps
<1>1. Init => TypeOK
  <2> SUFFICES ASSUME Init PROVE TypeOK
    OBVIOUS
  <2>1. isShuttingDown \in BOOLEAN /\ woken \in BOOLEAN
    BY Zenon DEF Init
  <2>2. QED
    BY <2>1, SMT DEF Init
<1>2. TypeOK /\ [Next]_vars => TypeOK'
  <2> SUFFICES ASSUME TypeOK, [Next]_vars PROVE TypeOK'
    OBVIOUS
  <2> USE DEF counts, drainVars, Goto, End
  <2>1. ASSUME NEW r \in Requests, NEW s \in Servers, NEW m \in Limits,
               Arrive(r, s, m)
        PROVE  TypeOK'
    BY <2>1 DEF Arrive
  <2>2. ASSUME NEW r \in Requests, Refuse(r) PROVE TypeOK'
    BY <2>2 DEF Refuse
  <2>3. ASSUME NEW r \in Requests, Acquire(r) PROVE TypeOK'
    <3>1. CASE TryPermit(r)
      BY <3>1 DEF TryPermit
    <3>2. CASE CountServer(r)
      BY <3>2 DEF CountServer
    <3>3. CASE CountGlobal(r)
      BY <3>3 DEF CountGlobal
    <3>4. QED
      BY <2>3, <3>1, <3>2, <3>3 DEF Acquire
  <2>4. ASSUME NEW r \in Requests, DropGuard(r) PROVE TypeOK'
    <3>1. CASE DropServer(r)
      BY <3>1 DEF DropServer
    <3>2. CASE DropGlobal(r)
      BY <3>2 DEF DropGlobal
    <3>3. CASE DropNotify(r)
      <4>1. woken' \in BOOLEAN
        BY <3>3, Zenon DEF DropNotify
      <4>2. QED
        BY <3>3, <4>1 DEF DropNotify
    <3>4. CASE DropPermit(r)
      BY <3>4 DEF DropPermit
    <3>5. QED
      BY <2>4, <3>1, <3>2, <3>3, <3>4 DEF DropGuard
  <2>5. CASE ShutDown
    <3>1. isShuttingDown' \in BOOLEAN
      BY <2>5, Zenon DEF ShutDown
    <3>2. QED
      BY <2>5, <3>1 DEF ShutDown
  <2>6. CASE Drain
    <3>1. woken' \in BOOLEAN
      BY <2>6, Zenon DEF Drain, DrainStart, DrainNotified, DrainCheck, DrainWoken
    <3>2. QED
      BY <2>6, <3>1 DEF Drain, DrainStart, DrainNotified, DrainCheck, DrainWoken
  <2>7. CASE UNCHANGED vars
    BY <2>7 DEF vars
  <2>8. QED
    BY <2>1, <2>2, <2>3, <2>4, <2>5, <2>6, <2>7 DEF Next
<1>3. QED
  BY <1>1, <1>2, PTL DEF Spec

(* The sets the counters stand for are finite, and their sizes numbers.    *)
LEMMA CountedFinite ==
  /\ IsFiniteSet(WithPermit) /\ Cardinality(WithPermit) \in Nat
  /\ IsFiniteSet(InGlobal) /\ Cardinality(InGlobal) \in Nat
  /\ \A s : IsFiniteSet(OnServer(s)) /\ Cardinality(OnServer(s)) \in Nat
<1>1. WithPermit \subseteq Requests /\ InGlobal \subseteq Requests
  BY DEF WithPermit, InGlobal
<1>2. \A s : OnServer(s) \subseteq Requests
  BY DEF OnServer
<1>3. QED
  BY <1>1, <1>2, RequestsAssumption, FS_Subset, FS_CardinalityType

(* A step that changes none of a request's permit, server or global        *)
(* standing, nor any counter, preserves Accounting.                        *)
LEMMA SameSetsSameCounts ==
  ASSUME Accounting, UNCHANGED counts,
         WithPermit' = WithPermit, InGlobal' = InGlobal,
         \A s \in Servers : OnServer(s)' = OnServer(s)
  PROVE  Accounting'
BY DEF Accounting, counts

(* The permits, the per-server counters and the global counter account for *)
(* exactly the requests that hold them.                                    *)
THEOREM AccountingHolds == Spec => []Accounting
<1> USE LimitAssumption, ServersAssumption
<1>1. Init => Accounting
  <2> SUFFICES ASSUME Init PROVE Accounting
    OBVIOUS
  <2>1. WithPermit = {} /\ InGlobal = {} /\ \A s \in Servers : OnServer(s) = {}
    BY DEF Init, WithPermit, InGlobal, OnServer
  <2>2. QED
    BY <2>1, FS_EmptySet DEF Init, Accounting
<1>2. TypeOK /\ Accounting /\ [Next]_vars => Accounting'
  <2> SUFFICES ASSUME TypeOK, Accounting, [Next]_vars PROVE Accounting'
    OBVIOUS
  <2> USE DEF TypeOK, RequestSteps
  <2>1. ASSUME NEW r \in Requests, NEW s \in Servers, NEW m \in Limits,
               Arrive(r, s, m)
        PROVE  Accounting'
    <3>1. /\ WithPermit' = WithPermit /\ InGlobal' = InGlobal
          /\ \A x \in Servers : OnServer(x)' = OnServer(x)
      BY <2>1 DEF Arrive, WithPermit, InGlobal, OnServer
    <3>2. QED
      BY <2>1, <3>1, SameSetsSameCounts DEF Arrive
  <2>2. ASSUME NEW r \in Requests, Refuse(r) PROVE Accounting'
    <3>1. /\ WithPermit' = WithPermit /\ InGlobal' = InGlobal
          /\ \A x \in Servers : OnServer(x)' = OnServer(x)
      BY <2>2 DEF Refuse, End, WithPermit, InGlobal, OnServer
    <3>2. QED
      BY <2>2, <3>1, SameSetsSameCounts DEF Refuse
  <2>3. ASSUME NEW r \in Requests, TryPermit(r) PROVE Accounting'
    <3>1. /\ InGlobal' = InGlobal
          /\ \A x \in Servers : OnServer(x)' = OnServer(x)
      BY <2>3 DEF TryPermit, Goto, End, InGlobal, OnServer
    <3>2. CASE permits > 0
      <4>1. WithPermit' = WithPermit \cup {r} /\ r \notin WithPermit
        BY <2>3, <3>2 DEF TryPermit, Goto, WithPermit
      <4>2. Cardinality(WithPermit') = Cardinality(WithPermit) + 1
        BY <4>1, CountedFinite, FS_AddElement
      <4>3. QED
        BY <2>3, <3>1, <3>2, <4>2, CountedFinite DEF TryPermit, Accounting
    <3>3. CASE ~(permits > 0)
      <4>1. WithPermit' = WithPermit
        BY <2>3, <3>3 DEF TryPermit, End, WithPermit
      <4>2. QED
        BY <2>3, <3>1, <3>3, <4>1, SameSetsSameCounts DEF TryPermit, counts
    <3>4. QED
      BY <3>2, <3>3
  <2>4. ASSUME NEW r \in Requests, CountServer(r) PROVE Accounting'
    <3>1. WithPermit' = WithPermit /\ InGlobal' = InGlobal
      BY <2>4 DEF CountServer, Goto, WithPermit, InGlobal
    <3>2. PICK t \in Servers : t = target[r]
      BY <2>4 DEF CountServer
    <3>3. CASE serverCount[target[r]] < max[r]
      <4>1. /\ OnServer(t)' = OnServer(t) \cup {r} /\ r \notin OnServer(t)
            /\ \A x \in Servers \ {t} : OnServer(x)' = OnServer(x)
        BY <2>4, <3>2, <3>3 DEF CountServer, Goto, OnServer
      <4>2. Cardinality(OnServer(t)') = Cardinality(OnServer(t)) + 1
        BY <4>1, CountedFinite, FS_AddElement
      <4>3. serverCount' = [serverCount EXCEPT ![t] = @ + 1]
        BY <2>4, <3>2, <3>3 DEF CountServer
      <4>4. ASSUME NEW x \in Servers
            PROVE  serverCount'[x] = Cardinality(OnServer(x))'
        BY <4>1, <4>2, <4>3, CountedFinite DEF Accounting
      <4>5. QED
        BY <2>4, <3>1, <4>4 DEF CountServer, Accounting
    <3>4. CASE ~(serverCount[target[r]] < max[r])
      <4>1. \A x \in Servers : OnServer(x)' = OnServer(x)
        BY <2>4, <3>4 DEF CountServer, Goto, OnServer
      <4>2. QED
        BY <2>4, <3>1, <3>4, <4>1, SameSetsSameCounts DEF CountServer, counts
    <3>5. QED
      BY <3>3, <3>4
  <2>5. ASSUME NEW r \in Requests, CountGlobal(r) PROVE Accounting'
    <3>1. /\ WithPermit' = WithPermit
          /\ \A x \in Servers : OnServer(x)' = OnServer(x)
          /\ InGlobal' = InGlobal \cup {r} /\ r \notin InGlobal
      BY <2>5 DEF CountGlobal, Goto, WithPermit, InGlobal, OnServer
    <3>2. Cardinality(InGlobal') = Cardinality(InGlobal) + 1
      BY <3>1, CountedFinite, FS_AddElement
    <3>3. QED
      BY <2>5, <3>1, <3>2, CountedFinite DEF CountGlobal, Accounting
  <2>6. ASSUME NEW r \in Requests, DropServer(r) PROVE Accounting'
    <3>1. PICK t \in Servers : t = target[r]
      BY <2>6 DEF DropServer, Goto
    <3>2. /\ WithPermit' = WithPermit /\ InGlobal' = InGlobal
          /\ OnServer(t)' = OnServer(t) \ {r} /\ r \in OnServer(t)
          /\ \A x \in Servers \ {t} : OnServer(x)' = OnServer(x)
      BY <2>6, <3>1 DEF DropServer, Goto, WithPermit, InGlobal, OnServer
    <3>3. Cardinality(OnServer(t)') = Cardinality(OnServer(t)) - 1
      BY <3>2, CountedFinite, FS_RemoveElement
    <3>4. ASSUME NEW x \in Servers
          PROVE  serverCount'[x] = Cardinality(OnServer(x))'
      BY <2>6, <3>1, <3>2, <3>3, CountedFinite DEF DropServer, Accounting
    <3>5. QED
      BY <2>6, <3>2, <3>4 DEF DropServer, Accounting
  <2>7. ASSUME NEW r \in Requests, DropGlobal(r) PROVE Accounting'
    <3>1. /\ WithPermit' = WithPermit
          /\ \A x \in Servers : OnServer(x)' = OnServer(x)
          /\ InGlobal' = InGlobal \ {r} /\ r \in InGlobal
      BY <2>7 DEF DropGlobal, Goto, WithPermit, InGlobal, OnServer
    <3>2. Cardinality(InGlobal') = Cardinality(InGlobal) - 1
      BY <3>1, CountedFinite, FS_RemoveElement
    <3>3. QED
      BY <2>7, <3>1, <3>2, CountedFinite DEF DropGlobal, Accounting
  <2>8. ASSUME NEW r \in Requests, DropNotify(r) PROVE Accounting'
    <3>1. /\ WithPermit' = WithPermit /\ InGlobal' = InGlobal
          /\ \A x \in Servers : OnServer(x)' = OnServer(x)
      BY <2>8 DEF DropNotify, Goto, WithPermit, InGlobal, OnServer
    <3>2. QED
      BY <2>8, <3>1, SameSetsSameCounts DEF DropNotify
  <2>9. ASSUME NEW r \in Requests, DropPermit(r) PROVE Accounting'
    <3>1. /\ WithPermit' = WithPermit \ {r} /\ r \in WithPermit
          /\ InGlobal' = InGlobal
          /\ \A x \in Servers : OnServer(x)' = OnServer(x)
      BY <2>9 DEF DropPermit, End, WithPermit, InGlobal, OnServer
    <3>2. Cardinality(WithPermit') = Cardinality(WithPermit) - 1
      BY <3>1, CountedFinite, FS_RemoveElement
    <3>3. QED
      BY <2>9, <3>1, <3>2, CountedFinite DEF DropPermit, Accounting
  <2>10. CASE ShutDown \/ Drain \/ UNCHANGED vars
    <3>1. UNCHANGED <<counts, pc, target>>
      BY <2>10 DEF ShutDown, Drain, DrainStart, DrainNotified, DrainCheck,
                   DrainWoken, vars, counts
    <3>2. /\ WithPermit' = WithPermit /\ InGlobal' = InGlobal
          /\ \A x \in Servers : OnServer(x)' = OnServer(x)
      BY <3>1 DEF WithPermit, InGlobal, OnServer
    <3>3. QED
      BY <3>1, <3>2, SameSetsSameCounts
  <2>11. QED
    BY <2>1, <2>2, <2>3, <2>4, <2>5, <2>6, <2>7, <2>8, <2>9, <2>10
    DEF Next, Acquire, DropGuard
<1>3. QED
  BY <1>1, <1>2, TypeCorrect, PTL DEF Spec

(* drain() never waits for a notification nobody is going to send.         *)
THEOREM NoMissedWakeupHolds == Spec => []NoMissedWakeup
<1>1. Init => NoMissedWakeup
  BY DEF Init, NoMissedWakeup
<1>2. TypeOK /\ Accounting /\ NoMissedWakeup /\ [Next]_vars => NoMissedWakeup'
  <2> SUFFICES ASSUME TypeOK, Accounting, NoMissedWakeup, [Next]_vars
               PROVE  NoMissedWakeup'
    OBVIOUS
  <2>0. globalCount \in Nat
    BY CountedFinite DEF Accounting
  <2> USE DEF TypeOK, NoMissedWakeup, counts, drainVars, Goto, End
  <2>1. ASSUME NEW r \in Requests, NEW s \in Servers, NEW m \in Limits,
               Arrive(r, s, m)
        PROVE  NoMissedWakeup'
    BY <2>1 DEF Arrive
  <2>2. ASSUME NEW r \in Requests, Refuse(r) PROVE NoMissedWakeup'
    BY <2>2 DEF Refuse
  <2>3. ASSUME NEW r \in Requests, Acquire(r) PROVE NoMissedWakeup'
    <3>1. CASE TryPermit(r)
      BY <3>1 DEF TryPermit
    <3>2. CASE CountServer(r)
      BY <3>2 DEF CountServer
    <3>3. CASE CountGlobal(r)
      BY <2>0, <3>3 DEF CountGlobal
    <3>4. QED
      BY <2>3, <3>1, <3>2, <3>3 DEF Acquire
  <2>4. ASSUME NEW r \in Requests, DropGuard(r) PROVE NoMissedWakeup'
    <3>1. CASE DropServer(r)
      BY <3>1 DEF DropServer
    <3>2. CASE DropGlobal(r)
      BY <3>2 DEF DropGlobal
    <3>3. CASE DropNotify(r)
      BY <3>3 DEF DropNotify
    <3>4. CASE DropPermit(r)
      BY <3>4 DEF DropPermit
    <3>5. QED
      BY <2>4, <3>1, <3>2, <3>3, <3>4 DEF DropGuard
  <2>5. CASE ShutDown
    BY <2>5 DEF ShutDown
  <2>6. CASE Drain
    BY <2>6 DEF Drain, DrainStart, DrainNotified, DrainCheck, DrainWoken
  <2>7. CASE UNCHANGED vars
    BY <2>7 DEF vars
  <2>8. QED
    BY <2>1, <2>2, <2>3, <2>4, <2>5, <2>6, <2>7 DEF Next
<1>3. QED
  BY <1>1, <1>2, TypeCorrect, AccountingHolds, PTL DEF Spec

(* drain() returns only when no request holds a guard: the zero it reads   *)
(* is the number of requests in global_count, which every guard is in.     *)
THEOREM DrainReturnsQuiet == Spec => DrainReturnsWhenQuiet
<1>1. Accounting /\ [Next]_vars
        => [drainer # "done" /\ drainer' = "done" =>
              \A r \in Requests : pc[r] \notin {"held", "drop_global"}]_vars
  <2> SUFFICES ASSUME Accounting, [Next]_vars, drainer # "done", drainer' = "done"
               PROVE  \A r \in Requests : pc[r] \notin {"held", "drop_global"}
    OBVIOUS
  <2>1. DrainCheck
    BY DEF Next, vars, Arrive, Refuse, Acquire, TryPermit, CountServer,
           CountGlobal, DropGuard, DropServer, DropGlobal, DropNotify,
           DropPermit, ShutDown, Drain, DrainStart, DrainNotified,
           DrainWoken, drainVars
  <2>2. globalCount = 0
    BY <2>1 DEF DrainCheck
  <2>3. InGlobal = {}
    BY <2>2, CountedFinite, FS_EmptySet DEF Accounting
  <2>4. QED
    BY <2>3 DEF InGlobal
<1>2. QED
  BY <1>1, AccountingHolds, PTL DEF Spec, DrainReturnsWhenQuiet

(* The abstract module counts sets as this one does.                       *)
LEMMA SameCardinality == \A S : L!Cardinality(S) = Cardinality(S)
BY Zenon DEF L!Cardinality, Cardinality, L!IsFiniteSet, IsFiniteSet

(* The tracker implements ConnectionLimits: a request is let in only while *)
(* its server and the gateway are below their limits, although the two     *)
(* checks and the counting are separate steps.                             *)
THEOREM Implementation == Spec => ImplementsLimits
<1> USE ServersAssumption, LimitAssumption
<1>1. Init => L!Init
  BY DEF Init, L!Init, Connected
<1>2. TypeOK /\ Accounting /\ [Next]_vars => [L!Next]_(L!vars)
  <2> SUFFICES ASSUME TypeOK, Accounting, [Next]_vars PROVE [L!Next]_(L!vars)
    OBVIOUS
  <2> USE DEF TypeOK, RequestSteps
  <2>1. ASSUME NEW r \in Requests, CountServer(r) PROVE [L!Next]_(L!vars)
    <3>1. CASE serverCount[target[r]] < max[r]
      <4>1. PICK t \in Servers : t = target[r]
        BY <2>1 DEF CountServer
      <4>2. Connected[r] = NoServer
        BY <2>1 DEF CountServer, Connected
      <4>3. Connected' = [Connected EXCEPT ![r] = t] /\ max' = max
        BY <2>1, <3>1, <4>1 DEF CountServer, Goto, Connected
      <4>4. Cardinality(L!OpenTo(t)) < max[r]
        <5>1. L!OpenTo(t) = OnServer(t)
          BY <4>1 DEF L!OpenTo, OnServer, Connected
        <5>2. QED
          BY <3>1, <4>1, <5>1 DEF Accounting
      <4>5. Cardinality(L!Open) < GLOBAL_MAX
        <5>1. L!Open \subseteq WithPermit \ {r}
          BY <2>1 DEF L!Open, WithPermit, Connected, CountServer
        <5>2. r \in WithPermit
          BY <2>1 DEF WithPermit, CountServer
        <5>3. /\ IsFiniteSet(WithPermit \ {r})
              /\ Cardinality(WithPermit \ {r}) = Cardinality(WithPermit) - 1
          BY <5>2, CountedFinite, FS_RemoveElement
        <5>4. /\ Cardinality(L!Open) <= Cardinality(WithPermit \ {r})
              /\ IsFiniteSet(L!Open)
          BY <5>1, <5>3, FS_Subset
        <5>5. Cardinality(L!Open) \in Nat
          BY <5>4, FS_CardinalityType
        <5>6. QED
          BY <5>3, <5>4, <5>5, CountedFinite DEF Accounting
      <4>6. QED
        <5>1. L!Connect(r, t)
          BY <4>2, <4>3, <4>4, <4>5, SameCardinality DEF L!Connect
        <5>2. QED
          BY <4>1, <5>1, Zenon DEF L!Next
    <3>2. CASE ~(serverCount[target[r]] < max[r])
      BY <2>1, <3>2 DEF CountServer, Goto, Connected, L!vars
    <3>3. QED
      BY <3>1, <3>2
  <2>2. ASSUME NEW r \in Requests, DropServer(r) PROVE [L!Next]_(L!vars)
    <3>1. target[r] \in Servers
      BY <2>2 DEF DropServer, Goto
    <3>2. Connected[r] # NoServer
      BY <2>2, <3>1 DEF DropServer, Goto, Connected
    <3>3. Connected' = [Connected EXCEPT ![r] = NoServer] /\ max' = max
      BY <2>2 DEF DropServer, Goto, Connected
    <3>4. QED
      BY <3>2, <3>3 DEF L!Next, L!Disconnect
  <2>3. ASSUME NEW r \in Requests, NEW m \in Limits \cup {0},
               max' = [max EXCEPT ![r] = m],
               Connected[r] = NoServer, Connected' = Connected
        PROVE  [L!Next]_(L!vars)
    BY <2>3 DEF L!Next, L!Resolve
  <2>4. ASSUME NEW r \in Requests, NEW s \in Servers, NEW m \in Limits, Arrive(r, s, m)
        PROVE  [L!Next]_(L!vars)
    BY <2>3, <2>4 DEF Arrive, Connected
  <2>5. ASSUME NEW r \in Requests, Refuse(r) \/ DropPermit(r)
        PROVE  [L!Next]_(L!vars)
    BY <2>3, <2>5 DEF Refuse, DropPermit, End, Connected
  <2>6. ASSUME NEW r \in Requests, TryPermit(r) PROVE [L!Next]_(L!vars)
    <3>1. CASE permits > 0
      BY <2>6, <3>1 DEF TryPermit, Goto, Connected, L!vars
    <3>2. CASE ~(permits > 0)
      BY <2>3, <2>6, <3>2 DEF TryPermit, End, Connected
    <3>3. QED
      BY <3>1, <3>2
  <2>7. ASSUME NEW r \in Requests, CountGlobal(r) \/ DropGlobal(r) \/ DropNotify(r)
        PROVE  [L!Next]_(L!vars)
    BY <2>7 DEF CountGlobal, DropGlobal, DropNotify, Goto, Connected, L!vars
  <2>8. CASE ShutDown \/ Drain \/ UNCHANGED vars
    BY <2>8 DEF ShutDown, Drain, DrainStart, DrainNotified, DrainCheck,
                DrainWoken, vars, Connected, L!vars
  <2>9. QED
    BY <2>1, <2>2, <2>4, <2>5, <2>6, <2>7, <2>8 DEF Next, Acquire, DropGuard
<1>3. QED
  BY <1>1, <1>2, TypeCorrect, AccountingHolds, PTL
  DEF Spec, ImplementsLimits, L!Spec

-----------------------------------------------------------------------------
(* The exit                                                                *)

(* A step of the gateway is a step of its tracker or leaves it alone.      *)
LEMMA TrackerSteps == [ExitNext]_gatewayVars => [Next]_vars
<1>1. ASSUME NEW r \in Requests, Serve(r) PROVE Next
  BY <1>1 DEF Serve, Next
<1>2. ASSUME NEW r \in Requests, Log(r) PROVE UNCHANGED vars
  BY <1>2 DEF Log
<1>3. Write => UNCHANGED vars
  BY DEF Write
<1>4. Signal => Next
  BY DEF Signal, Next
<1>5. Main => Next \/ UNCHANGED vars
  BY DEF Main, LbDrainComplete, ServeReturns, DrainStep, Drained, SendFlush, Exit, Next
<1>6. DrainTimesOut => UNCHANGED vars
  BY DEF DrainTimesOut
<1>7. QED
  BY <1>1, <1>2, <1>3, <1>4, <1>5, <1>6 DEF ExitNext, gatewayVars

(* The gateway from start to exit is a behaviour of the tracker, so its    *)
(* limits, its accounting and what drain() promises hold throughout: no    *)
(* step of main(), of the log or of its writer gets in their way.          *)
THEOREM ExitKeepsTracker ==
  ExitSpec => ImplementsLimits /\ []Accounting /\ DrainReturnsWhenQuiet
<1>1. ExitInit => Init
  BY DEF ExitInit
<1>2. ExitSpec => Spec
  BY <1>1, TrackerSteps, PTL DEF ExitSpec, Spec
<1>3. QED
  BY <1>2, Implementation, AccountingHolds, DrainReturnsQuiet, PTL

---------------------------------------------------------------------------
(* serve() returned only after the last handler, and none starts again.    *)
HandlersOver ==
  main \in {"draining", "flush", "await_flush", "exited"} =>
    \A r \in Requests : Ended(r)

(* The sentinel is in the channel only while main() waits for it, and then *)
(* it is the last message; once acknowledged, the channel stays empty.     *)
SentinelLast ==
  /\ main \notin {"await_flush", "exited"} =>
       ~acked /\ \A i \in 1..Len(logChannel) : logChannel[i] # "flush"
  /\ main = "await_flush" /\ ~acked =>
       /\ Len(logChannel) > 0
       /\ \A i \in 1..Len(logChannel) : logChannel[i] = "flush" <=> i = Len(logChannel)
  /\ acked => Len(logChannel) = 0
  /\ main = "exited" => acked

(* The inductive invariant of the exit.                                    *)
ExitInv ==
  /\ pc \in [Requests -> RequestSteps]
  /\ logChannel \in Seq({"record", "flush"})
  /\ HandlersOver
  /\ SentinelLast

(* The invariant holds when the gateway starts to serve.                   *)
LEMMA ExitInitially == ExitInit => ExitInv
<1> SUFFICES ASSUME ExitInit PROVE ExitInv
  OBVIOUS
<1>1. logChannel = <<>> /\ Len(logChannel) = 0 /\ ~acked /\ main = "serving"
  BY DEF ExitInit
<1>2. pc \in [Requests -> RequestSteps]
  BY DEF ExitInit, Init, RequestSteps
<1>3. QED
  BY <1>1, <1>2 DEF ExitInv, HandlersOver, SentinelLast

(* No step of a request or of drain() starts a handler again.              *)
LEMMA TrackerKeeps ==
  ASSUME ExitInv, UNCHANGED exitVars,
         \/ \E r \in Requests : Serve(r)
         \/ Drain
  PROVE  ExitInv'
<1> USE DEF ExitInv
<1>1. UNCHANGED <<main, logChannel, acked>>
  BY DEF exitVars
<1>2. SentinelLast'
  BY <1>1 DEF SentinelLast
<1>3. CASE Drain
  BY <1>1, <1>2, <1>3 DEF Drain, DrainStart, DrainNotified, DrainCheck, DrainWoken,
                          HandlersOver, Ended
<1>4. ASSUME NEW r \in Requests, Serve(r) PROVE ExitInv'
  <2> USE DEF RequestSteps
  <2>1. ASSUME NEW s \in Servers, NEW m \in Limits, main \in {"serving", "lb_drain"},
               Arrive(r, s, m)
        PROVE  ExitInv'
    BY <1>1, <1>2, <2>1 DEF Arrive, HandlersOver
  <2>2. CASE Refuse(r)
    BY <1>1, <1>2, <2>2 DEF Refuse, End, HandlersOver, Ended
  <2>3. CASE Acquire(r)
    BY <1>1, <1>2, <2>3 DEF Acquire, TryPermit, CountServer, CountGlobal, Goto, End,
                            HandlersOver, Ended
  <2>4. CASE DropGuard(r)
    BY <1>1, <1>2, <2>4 DEF DropGuard, DropServer, DropGlobal, DropNotify, DropPermit,
                            Goto, End, HandlersOver, Ended
  <2>5. QED
    BY <1>4, <2>1, <2>2, <2>3, <2>4 DEF Serve
<1>5. QED
  BY <1>3, <1>4

(* A record enters while a handler runs, so before the sentinel does.      *)
LEMMA LogKeeps ==
  ASSUME ExitInv, NEW r \in Requests, Log(r)
  PROVE  ExitInv'
<1> USE DEF ExitInv
<1>1. /\ pc[r] = "held"
      /\ logChannel' = Append(logChannel, "record")
      /\ UNCHANGED <<pc, main, acked>>
  BY DEF Log, vars
<1>2. main \notin {"draining", "flush", "await_flush", "exited"}
  BY <1>1 DEF HandlersOver, Ended
<1>3. /\ logChannel' \in Seq({"record", "flush"})
      /\ Len(logChannel') = Len(logChannel) + 1
      /\ logChannel'[Len(logChannel')] = "record"
      /\ \A i \in 1..Len(logChannel) : logChannel'[i] = logChannel[i]
      /\ Len(logChannel) \in Nat
  BY <1>1
<1>4. SentinelLast'
  BY <1>1, <1>2, <1>3 DEF SentinelLast
<1>5. QED
  BY <1>1, <1>2, <1>3, <1>4 DEF HandlersOver

(* flush() puts the sentinel behind every record.                          *)
LEMMA SendFlushKeeps ==
  ASSUME ExitInv, SendFlush
  PROVE  ExitInv'
<1> USE DEF ExitInv
<1>1. /\ main = "flush" /\ main' = "await_flush"
      /\ logChannel' = Append(logChannel, "flush")
      /\ UNCHANGED <<pc, acked>>
  BY DEF SendFlush, At, vars
<1>2. /\ logChannel' \in Seq({"record", "flush"})
      /\ Len(logChannel') = Len(logChannel) + 1
      /\ logChannel'[Len(logChannel')] = "flush"
      /\ \A i \in 1..Len(logChannel) : logChannel'[i] = logChannel[i]
      /\ Len(logChannel) \in Nat
  BY <1>1
<1>3. SentinelLast'
  BY <1>1, <1>2 DEF SentinelLast
<1>4. QED
  BY <1>1, <1>2, <1>3 DEF HandlersOver, Ended

(* The writer reaches the sentinel only when it is alone in the channel.   *)
LEMMA WriteKeeps ==
  ASSUME ExitInv, Write
  PROVE  ExitInv'
<1> USE DEF ExitInv
<1>1. /\ main # "exited"
      /\ logChannel # <<>> /\ logChannel' = Tail(logChannel)
      /\ UNCHANGED <<pc, main>>
  BY DEF Write, vars
<1>2. /\ Len(logChannel) \in Nat \ {0}
      /\ Len(logChannel') = Len(logChannel) - 1
      /\ \A i \in 1..Len(logChannel') : logChannel'[i] = logChannel[i + 1]
      /\ logChannel' \in Seq({"record", "flush"})
      /\ Head(logChannel) = logChannel[1]
  BY <1>1
<1>3. ~acked
  BY <1>2 DEF SentinelLast
<1>4. HandlersOver'
  BY <1>1 DEF HandlersOver, Ended
<1>5. CASE logChannel[1] = "flush"
  <2>1. acked'
    BY <1>2, <1>5 DEF Write
  <2>2. 1 \in 1..Len(logChannel)
    BY <1>2
  <2>3. main = "await_flush"
    BY <1>1, <1>5, <2>2 DEF SentinelLast
  <2>4. Len(logChannel) = 1
    BY <1>3, <1>5, <2>2, <2>3 DEF SentinelLast
  <2>5. QED
    BY <1>1, <1>2, <1>4, <2>1, <2>3, <2>4 DEF SentinelLast
<1>6. CASE logChannel[1] # "flush"
  <2>1. ~acked'
    BY <1>2, <1>3, <1>6 DEF Write
  <2>2. CASE main = "await_flush"
    <3>1. \A i \in 1..Len(logChannel) : logChannel[i] = "flush" <=> i = Len(logChannel)
      BY <1>3, <2>2 DEF SentinelLast
    <3>2. Len(logChannel) > 1
      BY <1>2, <1>6, <3>1
    <3>3. \A i \in 1..Len(logChannel') : logChannel'[i] = "flush" <=> i = Len(logChannel')
      BY <1>2, <3>1
    <3>4. main' = "await_flush" /\ Len(logChannel') > 0
      BY <1>1, <1>2, <2>2, <3>2
    <3>5. QED
      BY <1>1, <1>2, <1>4, <2>1, <3>3, <3>4 DEF SentinelLast
  <2>3. CASE main # "await_flush"
    <3>1. \A i \in 1..Len(logChannel) : logChannel[i] # "flush"
      BY <1>1, <2>3 DEF SentinelLast
    <3>2. \A i \in 1..Len(logChannel') : logChannel'[i] # "flush"
      BY <1>2, <3>1
    <3>3. main' \notin {"await_flush", "exited"}
      BY <1>1, <2>3
    <3>4. QED
      BY <1>1, <1>2, <1>4, <2>1, <3>2, <3>3 DEF SentinelLast
  <2>4. QED
    BY <2>2, <2>3
<1>7. QED
  BY <1>5, <1>6

(* Every step of the requests, of main() and of the writer keeps it.       *)
LEMMA ExitInductive == ExitInv /\ [ExitNext]_gatewayVars => ExitInv'
<1> SUFFICES ASSUME ExitInv, [ExitNext]_gatewayVars PROVE ExitInv'
  OBVIOUS
<1>1. ASSUME NEW r \in Requests, Serve(r) PROVE ExitInv'
  BY <1>1, TrackerKeeps DEF Serve
<1>2. ASSUME NEW r \in Requests, Log(r) PROVE ExitInv'
  BY <1>2, LogKeeps
<1>3. CASE Write
  BY <1>3, WriteKeeps
<1>4. CASE SendFlush
  BY <1>4, SendFlushKeeps
<1>5. CASE DrainStep
  BY <1>5, TrackerKeeps DEF DrainStep
<1>6. CASE Signal \/ LbDrainComplete
  BY <1>6 DEF Signal, ShutDown, LbDrainComplete, At, vars, ExitInv, HandlersOver, SentinelLast
<1>7. CASE ServeReturns
  BY <1>7 DEF ServeReturns, At, vars, ExitInv, HandlersOver, Ended, SentinelLast
<1>8. CASE Drained \/ DrainTimesOut
  BY <1>8 DEF Drained, DrainTimesOut, At, vars, ExitInv, HandlersOver, Ended, SentinelLast
<1>9. CASE Exit
  BY <1>9 DEF Exit, At, vars, ExitInv, HandlersOver, Ended, SentinelLast
<1>10. CASE UNCHANGED gatewayVars
  BY <1>10 DEF gatewayVars, vars, exitVars, ExitInv, HandlersOver, Ended, SentinelLast
<1>11. QED
  BY <1>1, <1>2, <1>3, <1>4, <1>5, <1>6, <1>7, <1>8, <1>9, <1>10 DEF ExitNext, Main

(* When the process exits no handler is at work and everything the log     *)
(* channel accepted is written, even if the drain timeout fires with       *)
(* guards still counted.                                                   *)
THEOREM ExitLosesNoRecord == ExitSpec => []LogsSurviveExit
<1>1. ExitInv => LogsSurviveExit
  <2> SUFFICES ASSUME ExitInv, main = "exited"
               PROVE  logChannel = <<>> /\ \A r \in Requests : pc[r] # "held"
    BY DEF LogsSurviveExit
  <2>1. Len(logChannel) = 0 /\ logChannel \in Seq({"record", "flush"})
    BY DEF ExitInv, SentinelLast
  <2>2. logChannel = <<>>
    BY <2>1
  <2>3. QED
    BY <2>2 DEF ExitInv, HandlersOver, Ended
<1>2. QED
  BY ExitInitially, ExitInductive, <1>1, PTL DEF ExitSpec

-----------------------------------------------------------------------------
(* The shutdown. Only the sentinel must differ from every record.          *)

CONSTANTS DRAIN_TIMEOUT, Flush, KEEPALIVE, LB_DRAIN, REQUEST_MAX, SLA
VARIABLES accepted, age, channel, elapsed, phase, req, timer, written
Shutdown == INSTANCE GatewayShutdown

(* What the proofs need of the type invariant.                             *)
ShutdownShapes ==
  /\ phase \in Shutdown!Phases
  /\ req \in [Requests -> Shutdown!RequestSteps]
  /\ channel \in Seq(Requests \cup {Flush})
  /\ acked \in BOOLEAN
  /\ accepted \subseteq Requests

(* serve() returned only after the last handler and no handler starts      *)
(* again: from then on nobody is in flight.                                *)
QuietAfterServe ==
  phase \in {"draining", "flush", "await_flush", "exited"} =>
    \A r \in Requests : req[r] \in {"new", "done"}

(* The sentinel is in the channel only while main() waits for it, as the   *)
(* last message; once it is acknowledged the channel is empty for good.    *)
ShutdownSentinelLast ==
  /\ phase \notin {"await_flush", "exited"} =>
       ~acked /\ \A i \in 1..Len(channel) : channel[i] # Flush
  /\ phase = "await_flush" /\ ~acked =>
       /\ Len(channel) > 0
       /\ \A i \in 1..Len(channel) : channel[i] = Flush <=> i = Len(channel)
  /\ acked => Len(channel) = 0
  /\ phase = "exited" => acked

(* A record the channel took is on stdout or still in the channel.         *)
RecordsTraced ==
  \A r \in accepted : r \in written \/ \E i \in 1..Len(channel) : channel[i] = r

(* The inductive invariant of the shutdown.                                *)
ShutdownInv == ShutdownShapes /\ QuietAfterServe /\ ShutdownSentinelLast /\ RecordsTraced

(* The invariant holds when the gateway starts.                            *)
LEMMA ShutdownInitially == Shutdown!Init => ShutdownInv
<1> SUFFICES ASSUME Shutdown!Init PROVE ShutdownInv
  OBVIOUS
<1>1. channel = <<>> /\ Len(channel) = 0
  BY DEF Shutdown!Init
<1>2. ShutdownShapes
  <2>1. acked \in BOOLEAN
    BY Zenon DEF Shutdown!Init
  <2>2. QED
    BY <1>1, <2>1 DEF Shutdown!Init, ShutdownShapes, Shutdown!Phases, Shutdown!RequestSteps
<1>3. ShutdownSentinelLast
  BY <1>1 DEF Shutdown!Init, ShutdownSentinelLast
<1>4. QED
  BY <1>2, <1>3 DEF Shutdown!Init, ShutdownInv, QuietAfterServe, RecordsTraced

(* A step that leaves the log alone and keeps nobody in flight after serve *)
(* keeps the invariant.                                                    *)
LEMMA RequestMoves ==
  ASSUME ShutdownInv, NEW r \in Requests, NEW from, NEW to \in Shutdown!RequestSteps,
         Shutdown!Goto(r, from, to), UNCHANGED Shutdown!logVars,
         from \in {"new", "done"} =>
           phase \notin {"draining", "flush", "await_flush", "exited"}
  PROVE  ShutdownInv'
  BY DEF ShutdownInv, ShutdownShapes, QuietAfterServe, ShutdownSentinelLast, RecordsTraced, Shutdown!Goto, Shutdown!mainVars,
         Shutdown!logVars

(* A record enters the channel behind the others, before any sentinel.     *)
LEMMA DispatchKeeps ==
  ASSUME Flush \notin Requests, ShutdownInv, NEW r \in Requests, Shutdown!Dispatch(r)
  PROVE  ShutdownInv'
<1> USE DEF ShutdownInv, ShutdownShapes, QuietAfterServe
<1>1. /\ req[r] = "dispatch"
      /\ req' = [req EXCEPT ![r] = "answer"]
      /\ UNCHANGED <<phase, acked, written>>
  BY DEF Shutdown!Dispatch, Shutdown!Goto, Shutdown!mainVars
<1>2. phase \notin {"draining", "flush", "await_flush", "exited"}
  BY <1>1
<1>3. QuietAfterServe' /\ req' \in [Requests -> Shutdown!RequestSteps]
  BY <1>1, <1>2 DEF Shutdown!RequestSteps
<1>4. CASE UNCHANGED <<channel, accepted>>
  BY <1>1, <1>3, <1>4 DEF ShutdownSentinelLast, RecordsTraced
<1>5. CASE channel' = Append(channel, r) /\ accepted' = accepted \cup {r}
  <2>1. /\ channel' \in Seq(Requests \cup {Flush})
        /\ Len(channel') = Len(channel) + 1
        /\ channel'[Len(channel')] = r
        /\ \A i \in 1..Len(channel) : channel'[i] = channel[i]
    BY <1>5
  <2>2. Len(channel) \in Nat
    OBVIOUS
  <2>3. ShutdownSentinelLast'
    BY <1>1, <1>2, <2>1, <2>2 DEF ShutdownSentinelLast
  <2>4. RecordsTraced'
    BY <1>1, <1>5, <2>1, <2>2 DEF RecordsTraced
  <2>5. QED
    BY <1>1, <1>3, <1>5, <2>1, <2>3, <2>4
<1>6. QED
  BY <1>4, <1>5 DEF Shutdown!Dispatch

(* The sentinel goes in last, when no handler can write any more.          *)
LEMMA ShutdownSendFlushKeeps ==
  ASSUME Flush \notin Requests, ShutdownInv, Shutdown!SendFlush
  PROVE  ShutdownInv'
<1> USE DEF ShutdownInv, ShutdownShapes
<1>1. /\ phase = "flush" /\ phase' = "await_flush"
      /\ channel' = Append(channel, Flush)
      /\ UNCHANGED <<req, acked, written, accepted>>
  BY DEF Shutdown!SendFlush
<1>2. /\ channel' \in Seq(Requests \cup {Flush})
      /\ Len(channel') = Len(channel) + 1
      /\ channel'[Len(channel')] = Flush
      /\ \A i \in 1..Len(channel) : channel'[i] = channel[i]
      /\ Len(channel) \in Nat
  BY <1>1
<1>3. ShutdownSentinelLast'
  BY <1>1, <1>2 DEF ShutdownSentinelLast
<1>4. RecordsTraced'
  BY <1>1, <1>2 DEF RecordsTraced
<1>5. QED
  BY <1>1, <1>2, <1>3, <1>4 DEF QuietAfterServe, Shutdown!Phases

(* The writer takes the oldest message: a record goes to stdout, and the   *)
(* sentinel is reached only when it is alone.                              *)
LEMMA ShutdownWriteKeeps ==
  ASSUME Flush \notin Requests, ShutdownInv, Shutdown!Write
  PROVE  ShutdownInv'
<1> USE DEF ShutdownInv, ShutdownShapes
<1>1. /\ phase # "exited"
      /\ channel # <<>> /\ channel' = Tail(channel)
      /\ UNCHANGED <<phase, req, accepted>>
  BY DEF Shutdown!Write, Shutdown!mainVars
<1>2. /\ Len(channel) \in Nat \ {0}
      /\ Len(channel') = Len(channel) - 1
      /\ \A i \in 1..Len(channel') : channel'[i] = channel[i + 1]
      /\ channel' \in Seq(Requests \cup {Flush})
      /\ Head(channel) = channel[1]
  BY <1>1
<1>3. CASE Head(channel) = Flush
  <2>1. phase = "await_flush" /\ ~acked /\ Len(channel) = 1
    <3>1. 1 \in 1..Len(channel) /\ channel[1] = Flush
      BY <1>2, <1>3
    <3>2. phase = "await_flush"
      BY <1>1, <3>1 DEF ShutdownSentinelLast
    <3>3. ~acked
      BY <1>2 DEF ShutdownSentinelLast
    <3>4. QED
      BY <3>1, <3>2, <3>3 DEF ShutdownSentinelLast
  <2>2. acked' = TRUE /\ written' = written
    BY <1>3 DEF Shutdown!Write
  <2>3. RecordsTraced'
    BY <1>1, <1>2, <1>3, <2>1, <2>2 DEF RecordsTraced
  <2>4. QED
    BY <1>1, <1>2, <2>1, <2>2, <2>3 DEF ShutdownSentinelLast, QuietAfterServe
<1>4. CASE Head(channel) # Flush
  <2>1. written' = written \cup {Head(channel)} /\ acked' = acked
    BY <1>4 DEF Shutdown!Write
  <2>2. ~acked /\ ~acked'
    BY <1>2, <2>1 DEF ShutdownSentinelLast
  <2>3. phase = "await_flush" => Len(channel) > 1
    BY <1>2, <1>4, <2>2 DEF ShutdownSentinelLast
  <2>4. ShutdownSentinelLast'
    <3>1. CASE phase = "await_flush"
      <4>1. \A i \in 1..Len(channel) : channel[i] = Flush <=> i = Len(channel)
        BY <2>2, <3>1 DEF ShutdownSentinelLast
      <4>2. \A i \in 1..Len(channel') : channel'[i] = Flush <=> i = Len(channel')
        BY <1>2, <4>1
      <4>3. QED
        <5>1. phase' = "await_flush" /\ Len(channel') > 0
          BY <1>1, <1>2, <2>3, <3>1
        <5>2. QED
          BY <2>2, <4>2, <5>1 DEF ShutdownSentinelLast
    <3>2. CASE phase # "await_flush"
      <4>1. \A i \in 1..Len(channel) : channel[i] # Flush
        BY <1>1, <3>2 DEF ShutdownSentinelLast
      <4>2. \A i \in 1..Len(channel') : channel'[i] # Flush
        BY <1>2, <4>1
      <4>3. QED
        <5>1. phase' \notin {"await_flush", "exited"}
          BY <1>1, <3>2
        <5>2. QED
          BY <2>2, <4>2, <5>1 DEF ShutdownSentinelLast
    <3>3. QED
      BY <3>1, <3>2
  <2>5. RecordsTraced'
    <3> SUFFICES ASSUME NEW r \in accepted, r \notin written'
                 PROVE  \E i \in 1..Len(channel') : channel'[i] = r
      BY <1>1 DEF RecordsTraced
    <3>1. PICK i \in 1..Len(channel) : channel[i] = r
      BY <2>1 DEF RecordsTraced
    <3>2. i # 1
      BY <1>2, <2>1, <3>1
    <3>3. i - 1 \in 1..Len(channel') /\ channel'[i - 1] = r
      BY <1>2, <3>1, <3>2
    <3>4. QED
      BY <3>3
  <2>6. QED
    BY <1>1, <1>2, <2>1, <2>4, <2>5 DEF QuietAfterServe
<1>5. QED
  BY <1>3, <1>4

(* Every step of requests, main() and the writer keeps the invariant.      *)
LEMMA ShutdownInductive ==
  ASSUME Flush \notin Requests
  PROVE  ShutdownInv /\ [Shutdown!Next]_(Shutdown!vars) => ShutdownInv'
<1> SUFFICES ASSUME ShutdownInv, [Shutdown!Next]_(Shutdown!vars) PROVE ShutdownInv'
  OBVIOUS
<1>1. ASSUME NEW r \in Requests, Shutdown!Arrive(r) PROVE ShutdownInv'
  <2>1. \E to \in Shutdown!RequestSteps : Shutdown!Goto(r, "new", to)
    BY <1>1 DEF Shutdown!Arrive, Shutdown!RequestSteps
  <2>2. QED
    BY <1>1, <2>1, RequestMoves DEF Shutdown!Arrive
<1>2. ASSUME NEW r \in Requests, Shutdown!Request(r) PROVE ShutdownInv'
  <2>1. ASSUME NEW to \in {"dispatch", "session", "done"}, Shutdown!Admit(r, to) PROVE ShutdownInv'
    BY <2>1, RequestMoves DEF Shutdown!Admit, Shutdown!RequestSteps
  <2>2. CASE Shutdown!Dispatch(r)
    BY <2>2, DispatchKeeps
  <2>3. ASSUME NEW to \in {"stream", "done"}, Shutdown!Answer(r, to) PROVE ShutdownInv'
    BY <2>3, RequestMoves DEF Shutdown!Answer, Shutdown!RequestSteps
  <2>4. CASE Shutdown!StreamEnds(r)
    BY <2>4, RequestMoves DEF Shutdown!StreamEnds, Shutdown!RequestSteps
  <2>5. QED
    BY <1>2, <2>1, <2>2, <2>3, <2>4 DEF Shutdown!Request
<1>3. ASSUME NEW r \in Requests, Shutdown!Leave(r) PROVE ShutdownInv'
  BY <1>3, RequestMoves DEF Shutdown!Leave, Shutdown!RequestSteps
<1>4. CASE Shutdown!Signal
  BY <1>4 DEF Shutdown!Signal, ShutdownInv, ShutdownShapes, QuietAfterServe, ShutdownSentinelLast, RecordsTraced,
              Shutdown!logVars, Shutdown!Phases
<1>5. CASE Shutdown!LbDrainComplete
  BY <1>5 DEF Shutdown!LbDrainComplete, ShutdownInv, ShutdownShapes, QuietAfterServe, ShutdownSentinelLast,
              RecordsTraced, Shutdown!logVars, Shutdown!Phases
<1>6. CASE Shutdown!ServeReturns
  <2>1. \A r \in Requests : req[r] \in {"new", "done"}
    BY <1>6 DEF Shutdown!ServeReturns, Shutdown!InFlight
  <2>2. QED
    BY <1>6, <2>1 DEF Shutdown!ServeReturns, ShutdownInv, ShutdownShapes, QuietAfterServe, ShutdownSentinelLast,
                      RecordsTraced, Shutdown!logVars, Shutdown!Phases
<1>7. CASE Shutdown!Drained
  BY <1>7 DEF Shutdown!Drained, ShutdownInv, ShutdownShapes, QuietAfterServe, ShutdownSentinelLast, RecordsTraced,
              Shutdown!logVars, Shutdown!Phases
<1>8. CASE Shutdown!SendFlush
  BY <1>8, ShutdownSendFlushKeeps
<1>9. CASE Shutdown!Exit
  BY <1>9 DEF Shutdown!Exit, ShutdownInv, ShutdownShapes, QuietAfterServe, ShutdownSentinelLast, RecordsTraced,
              Shutdown!logVars, Shutdown!Phases
<1>10. CASE Shutdown!Write
  BY <1>10, ShutdownWriteKeeps
<1>11. CASE Shutdown!Tick
  BY <1>11 DEF Shutdown!Tick, ShutdownInv, ShutdownShapes, QuietAfterServe, ShutdownSentinelLast, RecordsTraced,
               Shutdown!logVars
<1>12. CASE UNCHANGED Shutdown!vars
  BY <1>12 DEF Shutdown!vars, ShutdownInv, ShutdownShapes, QuietAfterServe, ShutdownSentinelLast, RecordsTraced
<1>13. QED
  BY <1>1, <1>2, <1>3, <1>4, <1>5, <1>6, <1>7, <1>8, <1>9, <1>10, <1>11, <1>12
     DEF Shutdown!Next, Shutdown!Sequence

(* Every record the log channel accepted is on stdout when the gateway     *)
(* exits: run_shutdown_sequence's flush comes after the last handler.      *)
THEOREM LogsSurvive ==
  ASSUME Flush \notin Requests
  PROVE  Shutdown!Spec => []Shutdown!LogsSurviveExit
<1>1. ShutdownInv => Shutdown!LogsSurviveExit
  <2> SUFFICES ASSUME ShutdownInv, phase = "exited", NEW r \in accepted
               PROVE  r \in written
    BY DEF Shutdown!LogsSurviveExit
  <2>1. Len(channel) = 0
    BY DEF ShutdownInv, ShutdownSentinelLast
  <2>2. QED
    BY <2>1 DEF ShutdownInv, RecordsTraced
<1>2. QED
  BY ShutdownInitially, ShutdownInductive, <1>1, PTL DEF Shutdown!Spec

(* No request is in flight when the gateway exits.                         *)
THEOREM NobodyCutOff ==
  ASSUME Flush \notin Requests
  PROVE  Shutdown!Spec => []Shutdown!NoneCutOff
<1>1. ShutdownInv => Shutdown!NoneCutOff
  BY DEF ShutdownInv, QuietAfterServe, Shutdown!NoneCutOff, Shutdown!InFlight
<1>2. QED
  BY ShutdownInitially, ShutdownInductive, <1>1, PTL DEF Shutdown!Spec

(* No timer passes its limit: the timer runs in the LB window and in       *)
(* drain only, and a request ages in its call and in its stream.           *)
TimersBounded ==
  /\ timer \in Nat
  /\ phase = "lb_drain" => timer <= LB_DRAIN
  /\ phase = "draining" => timer <= DRAIN_TIMEOUT
  /\ phase \notin {"lb_drain", "draining"} => timer = 0
  /\ age \in [Requests -> Nat]
  /\ \A r \in Requests : age[r] <= CASE req[r] \in {"auth", "dispatch"} -> REQUEST_MAX
                                      [] req[r] = "stream" -> KEEPALIVE
                                      [] OTHER -> 0

(* No timer runs past its limit, in any phase: each step that would is one *)
(* that ends the wait.                                                     *)
LEMMA TimersKeep ==
  ASSUME LB_DRAIN \in Nat, DRAIN_TIMEOUT \in Nat, REQUEST_MAX \in Nat, KEEPALIVE \in Nat,
         ShutdownShapes, TimersBounded, [Shutdown!Next]_(Shutdown!vars)
  PROVE  TimersBounded'
<1> USE DEF ShutdownShapes, TimersBounded
<1>1. ASSUME NEW r \in Requests, NEW from, NEW to, Shutdown!Goto(r, from, to)
      PROVE  TimersBounded'
  BY <1>1 DEF Shutdown!Goto, Shutdown!mainVars
<1>2. ASSUME NEW r \in Requests, Shutdown!Arrive(r) \/ Shutdown!Request(r) \/ Shutdown!Leave(r)
      PROVE  TimersBounded'
  BY <1>1, <1>2, Zenon DEF Shutdown!Arrive, Shutdown!Request, Shutdown!Admit, Shutdown!Dispatch, Shutdown!Answer, Shutdown!StreamEnds, Shutdown!Leave
<1>3. CASE Shutdown!Signal \/ Shutdown!Sequence
  BY <1>3 DEF Shutdown!Signal, Shutdown!Sequence, Shutdown!LbDrainComplete, Shutdown!ServeReturns, Shutdown!Drained, Shutdown!SendFlush, Shutdown!Exit
<1>4. CASE Shutdown!Write \/ UNCHANGED Shutdown!vars
  BY <1>4 DEF Shutdown!Write, Shutdown!vars, Shutdown!mainVars
<1>5. CASE Shutdown!Tick
  <2>1. UNCHANGED <<phase, req>> /\ ~Shutdown!Due
    BY <1>5 DEF Shutdown!Tick
  <2>2. /\ timer' \in Nat
        /\ phase = "lb_drain" => timer' <= LB_DRAIN
        /\ phase = "draining" => timer' <= DRAIN_TIMEOUT
        /\ phase \notin {"lb_drain", "draining"} => timer' = 0
    BY <1>5, <2>1 DEF Shutdown!Tick, Shutdown!Due
  <2>3. age' \in [Requests -> Nat]
    BY <1>5 DEF Shutdown!Tick
  <2>4. ASSUME NEW r \in Requests
        PROVE  age'[r] <= CASE req[r] \in {"auth", "dispatch"} -> REQUEST_MAX
                            [] req[r] = "stream" -> KEEPALIVE
                            [] OTHER -> 0
    BY <1>5, <2>1 DEF Shutdown!Tick, Shutdown!Due, Shutdown!Timed, Shutdown!RequestSteps
  <2>5. QED
    BY <2>1, <2>2, <2>3, <2>4
<1>6. QED
  BY <1>2, <1>3, <1>4, <1>5 DEF Shutdown!Next

(* The state keeps its type: the channel stays within its capacity, every  *)
(* timer within its limit.                                                 *)
THEOREM ShutdownTypeCorrect ==
  ASSUME Flush \notin Requests, CHANNEL_CAPACITY \in Nat, SLA \in Nat,
         LB_DRAIN \in Nat, DRAIN_TIMEOUT \in Nat, REQUEST_MAX \in Nat, KEEPALIVE \in Nat
  PROVE  Shutdown!Spec => []Shutdown!TypeOK
<1> DEFINE Rest == /\ isShuttingDown \in BOOLEAN
                   /\ elapsed \in 0..SLA + 1
                   /\ Len(channel) <= CHANNEL_CAPACITY
                   /\ written \subseteq Requests
<1>1. Shutdown!Init => TimersBounded /\ Rest
  <2> SUFFICES ASSUME Shutdown!Init PROVE TimersBounded /\ Rest
    OBVIOUS
  <2>1. TimersBounded
    BY DEF Shutdown!Init, TimersBounded
  <2>2. isShuttingDown \in BOOLEAN
    BY Zenon DEF Shutdown!Init
  <2>3. QED
    BY <2>1, <2>2 DEF Shutdown!Init
<1>2. ShutdownInv /\ TimersBounded /\ [Shutdown!Next]_(Shutdown!vars) => TimersBounded'
  BY TimersKeep DEF ShutdownInv
<1>3. ShutdownInv /\ Rest /\ [Shutdown!Next]_(Shutdown!vars) => Rest'
  <2> SUFFICES ASSUME ShutdownInv, Rest, [Shutdown!Next]_(Shutdown!vars) PROVE Rest'
    OBVIOUS
  <2> USE DEF ShutdownInv, ShutdownShapes
  <2>1. isShuttingDown' \in BOOLEAN
    <3>1. isShuttingDown' = TRUE \/ UNCHANGED isShuttingDown
      BY Zenon DEF Shutdown!Next, Shutdown!vars, Shutdown!Arrive, Shutdown!Request, Shutdown!Leave, Shutdown!Admit, Shutdown!Dispatch, Shutdown!Answer, Shutdown!StreamEnds,
         Shutdown!Goto, Shutdown!mainVars, Shutdown!Signal, Shutdown!Sequence, Shutdown!LbDrainComplete, Shutdown!ServeReturns, Shutdown!Drained,
         Shutdown!SendFlush, Shutdown!Exit, Shutdown!Write, Shutdown!Tick
    <3>2. QED
      BY <3>1, Zenon
  <2>2. elapsed' \in 0..SLA + 1
    <3>1. CASE Shutdown!Tick
      BY <3>1 DEF Shutdown!Tick
    <3>2. CASE UNCHANGED elapsed
      BY <3>2
    <3>3. QED
      BY <3>1, <3>2, Zenon DEF Shutdown!Next, Shutdown!vars, Shutdown!Arrive, Shutdown!Request, Shutdown!Leave, Shutdown!Admit, Shutdown!Dispatch, Shutdown!Answer,
         Shutdown!StreamEnds, Shutdown!Goto, Shutdown!mainVars, Shutdown!Signal, Shutdown!Sequence, Shutdown!LbDrainComplete, Shutdown!ServeReturns,
         Shutdown!Drained, Shutdown!SendFlush, Shutdown!Exit, Shutdown!Write
  <2>3. Len(channel') <= CHANNEL_CAPACITY /\ written' \subseteq Requests
    <3>1. ASSUME NEW r \in Requests, Shutdown!Dispatch(r)
          PROVE  Len(channel') <= CHANNEL_CAPACITY /\ written' \subseteq Requests
      BY <3>1 DEF Shutdown!Dispatch
    <3>2. CASE Shutdown!SendFlush
      BY <3>2 DEF Shutdown!SendFlush
    <3>3. CASE Shutdown!Write
      <4>1. /\ Head(channel) \in Requests \cup {Flush}
            /\ Len(Tail(channel)) = Len(channel) - 1 /\ Len(channel) \in Nat
        BY <3>3 DEF Shutdown!Write
      <4>2. QED
        BY <3>3, <4>1 DEF Shutdown!Write
    <3>4. CASE UNCHANGED <<channel, written>>
      BY <3>4
    <3>5. QED
      BY <3>1, <3>2, <3>3, <3>4, Zenon DEF Shutdown!Next, Shutdown!vars, Shutdown!Arrive, Shutdown!Request, Shutdown!Leave, Shutdown!Admit, Shutdown!Answer,
         Shutdown!StreamEnds, Shutdown!logVars, Shutdown!Signal, Shutdown!Sequence, Shutdown!LbDrainComplete, Shutdown!ServeReturns, Shutdown!Drained,
         Shutdown!Exit, Shutdown!Tick
  <2>4. QED
    BY <2>1, <2>2, <2>3
<1>4. ShutdownInv /\ TimersBounded /\ Rest => Shutdown!TypeOK
  <2> SUFFICES ASSUME ShutdownInv, TimersBounded, Rest PROVE Shutdown!TypeOK
    OBVIOUS
  <2>1. timer \in 0..LB_DRAIN + DRAIN_TIMEOUT
    BY DEF TimersBounded
  <2>2. age \in [Requests -> 0..REQUEST_MAX + KEEPALIVE]
    BY DEF TimersBounded
  <2>3. QED
    BY <2>1, <2>2 DEF ShutdownInv, ShutdownShapes, Shutdown!TypeOK
<1> HIDE DEF Rest
<1>5. QED
  BY <1>1, <1>2, <1>3, <1>4, ShutdownInitially, ShutdownInductive, PTL DEF Shutdown!Spec
=============================================================================
