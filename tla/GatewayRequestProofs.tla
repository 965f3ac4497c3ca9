------------------------- MODULE GatewayRequestProofs -------------------------
(***************************************************************************)
(* Proofs about what a request to the gateway meets before it is served:   *)
(* TokenValidator for any finite set of requests, any servers, tokens,     *)
(* permits and lifetime; and RateLimiter for any keys, rates and clocks.   *)
(*                                                                         *)
(* A module that is brought in by INSTANCE takes the names it has in common*)
(* with this module from it; no theorem is about two of the components at  *)
(* once.                                                                   *)
(***************************************************************************)
EXTENDS TokenValidator, FiniteSetTheorems, TLAPS


-----------------------------------------------------------------------------
(* The token and the permits to verify it                                  *)

(* What the proof needs of the types.                                      *)
Shapes ==
    /\ hash \in [Servers -> Tokens \cup {NoToken}]
    /\ rotations \in [Servers -> Nat]
    /\ DOMAIN verdict = Keys /\ DOMAIN basis = Keys
    /\ DOMAIN req = Requests
    /\ DOMAIN pc = Requests

(* The rotations a hash was read at tell whether it is still configured.   *)
Snapshot(s, at, h) ==
    /\ s \in Servers
    /\ at \in Nat /\ at <= rotations[s]
    /\ at = rotations[s] => h = hash[s]

(* A request with a token carries a snapshot of its server's hash, and a   *)
(* finished verification has compared the token with that.                 *)
RequestsFaithful ==
    \A r \in Requests :
        /\ req[r].token \in Tokens => /\ Snapshot(req[r].server, req[r].at, req[r].hash)
                                       /\ req[r].hash \in Tokens \cup {NoToken}
        /\ pc[r] = "matched" => req[r].token = req[r].hash
        /\ pc[r] = "mismatched" => req[r].token # req[r].hash

(* A cached verdict was right when its config was read.                    *)
VerdictsFaithful ==
    \A s \in Servers, t \in Tokens :
        verdict[<<s, t>>] # "absent" =>
            \E h \in Tokens \cup {NoToken} :
                /\ Snapshot(s, basis[<<s, t>>], h)
                /\ verdict[<<s, t>>] = "valid" <=> h = t

(* The inductive invariant of the verdicts.                                *)
IInv == Shapes /\ RequestsFaithful /\ VerdictsFaithful

(* The cache is empty and no request has a token when the gateway starts.  *)
LEMMA Initially == Init => IInv
  BY BoundsAssumption DEF Init, IInv, Shapes, RequestsFaithful, VerdictsFaithful, Keys

(* Storing the result of a comparison with the request's snapshot.         *)
LEMMA InsertKeeps ==
    ASSUME IInv, NEW r \in Requests, NEW v, Insert(r, v), UNCHANGED <<hash, rotations>>,
           v # "absent",
           req[r].token \in Tokens => (v = "valid" <=> req[r].token = req[r].hash)
    PROVE  VerdictsFaithful' /\ DOMAIN verdict' = Keys /\ DOMAIN basis' = Keys
<1> USE DEF IInv, Shapes
<1>1. /\ verdict' = [verdict EXCEPT ![CacheKey(r)] = v]
      /\ basis' = [basis EXCEPT ![CacheKey(r)] = req[r].at]
  BY DEF Insert
<1>2. SUFFICES ASSUME NEW s \in Servers, NEW t \in Tokens, verdict'[<<s, t>>] # "absent"
               PROVE  \E h \in Tokens \cup {NoToken} :
                          /\ Snapshot(s, basis'[<<s, t>>], h)
                          /\ verdict'[<<s, t>>] = "valid" <=> h = t
  BY <1>1 DEF VerdictsFaithful, Snapshot
<1>3. <<s, t>> \in Keys
  BY DEF Keys
<1>4. CASE CacheKey(r) = <<s, t>>
  <2>1. req[r].server = s /\ req[r].token = t
    BY <1>4 DEF CacheKey
  <2>2. verdict'[<<s, t>>] = v /\ basis'[<<s, t>>] = req[r].at
    BY <1>1, <1>3, <1>4
  <2>3. Snapshot(s, req[r].at, req[r].hash) /\ req[r].hash \in Tokens \cup {NoToken}
    BY <2>1 DEF RequestsFaithful
  <2>4. QED
    BY <2>1, <2>2, <2>3
<1>5. CASE CacheKey(r) # <<s, t>>
  <2>1. verdict'[<<s, t>>] = verdict[<<s, t>>] /\ basis'[<<s, t>>] = basis[<<s, t>>]
    BY <1>1, <1>3, <1>5
  <2>2. QED
    BY <1>2, <2>1 DEF VerdictsFaithful
<1>6. QED
  BY <1>4, <1>5

(* A step that leaves hashes, cache and tokens alone, and at most ends a   *)
(* request or grants it a permit.                                          *)
LEMMA PermitsKeep ==
    ASSUME IInv, NEW r \in Requests, DropPermit(r, "idle"), UNCHANGED <<hash, rotations, req>>
    PROVE  RequestsFaithful' /\ DOMAIN pc' = Requests
<1> USE DEF IInv, Shapes
<1>1. /\ DOMAIN pc' = Requests
      /\ \A q \in Requests : pc'[q] \in {"idle", "granted"} \/ pc'[q] = pc[q]
  BY DEF DropPermit
<1>2. QED
  BY <1>1 DEF RequestsFaithful, Snapshot

(* Every step of requests, hot reload and the clock keeps the invariant.   *)
LEMMA Inductive == IInv /\ [Next]_vars => IInv'
<1> SUFFICES ASSUME IInv, [Next]_vars PROVE IInv'
  OBVIOUS
<1> USE DEF IInv, Shapes
<1>1. ASSUME NEW r \in Requests, NEW s \in Servers, NEW t \in Tokens \cup {NoToken},
             Arrive(r, s, t)
      PROVE  IInv'
  <2>1. /\ req' = [req EXCEPT ![r] = [server |-> s, token |-> t, hash |-> hash[s],
                                      at |-> rotations[s]]]
        /\ UNCHANGED <<hash, rotations, verdict, basis>>
    BY <1>1 DEF Arrive, cacheVars
  <2>2. /\ DOMAIN pc' = Requests
        /\ pc'[r] \in {"idle", "lookup"}
        /\ \A q \in Requests : q # r => pc'[q] = pc[q]
    BY <1>1 DEF Arrive, Answer
  <2>3. RequestsFaithful'
    BY <2>1, <2>2 DEF RequestsFaithful, Snapshot
  <2>4. VerdictsFaithful'
    BY <2>1 DEF VerdictsFaithful, Snapshot
  <2>5. QED
    BY <2>1, <2>2, <2>3, <2>4
<1>2. ASSUME NEW r \in Requests, CacheHit(r) \/ Acquire(r) \/ Spawn(r) PROVE IInv'
  <2>1. UNCHANGED <<hash, rotations, verdict, basis, req>>
    BY <1>2 DEF CacheHit, Acquire, Spawn, cacheVars
  <2>2. /\ DOMAIN pc' = Requests
        /\ \A q \in Requests : pc'[q] \in {"idle", "granted", "queued", "verify"}
                                \/ pc'[q] = pc[q]
    BY <1>2 DEF CacheHit, Acquire, Spawn, Answer
  <2>3. QED
    BY <2>1, <2>2 DEF RequestsFaithful, VerdictsFaithful, Snapshot
<1>3. ASSUME NEW r \in Requests, NoHashConfigured(r) PROVE IInv'
  <2>1. Insert(r, "invalid") /\ UNCHANGED <<hash, rotations, req>> /\ req[r].hash = NoToken
    BY <1>3 DEF NoHashConfigured
  <2>2. VerdictsFaithful' /\ DOMAIN verdict' = Keys /\ DOMAIN basis' = Keys
    BY <2>1, InsertKeeps, BoundsAssumption
  <2>3. /\ DOMAIN pc' = Requests
        /\ \A q \in Requests : pc'[q] = "idle" \/ pc'[q] = pc[q]
    BY <1>3 DEF NoHashConfigured, Answer
  <2>4. RequestsFaithful'
    BY <2>1, <2>3 DEF RequestsFaithful, Snapshot
  <2>5. QED
    BY <2>1, <2>2, <2>3, <2>4
<1>4. ASSUME NEW r \in Requests, Verify(r) PROVE IInv'
  <2>1. UNCHANGED <<hash, rotations, verdict, basis, req>>
    BY <1>4 DEF Verify, cacheVars
  <2>2. /\ DOMAIN pc' = Requests
        /\ pc'[r] = IF req[r].token = req[r].hash THEN "matched" ELSE "mismatched"
        /\ \A q \in Requests : q # r => pc'[q] = pc[q]
    BY <1>4 DEF Verify
  <2>3. QED
    BY <2>1, <2>2 DEF RequestsFaithful, VerdictsFaithful, Snapshot
<1>5. ASSUME NEW r \in Requests, Resume(r) PROVE IInv'
  <2>1. /\ DropPermit(r, "idle")
        /\ UNCHANGED <<hash, rotations, req>>
        /\ pc[r] \in {"matched", "mismatched"}
    BY <1>5 DEF Resume
  <2>2. PICK v : Insert(r, v) /\ v = IF pc[r] = "matched" THEN "valid" ELSE "invalid"
    BY <1>5 DEF Resume
  <2>3. v # "absent" /\ (v = "valid" <=> req[r].token = req[r].hash)
    BY <2>1, <2>2 DEF RequestsFaithful
  <2>4. VerdictsFaithful' /\ DOMAIN verdict' = Keys /\ DOMAIN basis' = Keys
    BY <2>1, <2>2, <2>3, InsertKeeps
  <2>5. QED
    BY <2>1, <2>4, PermitsKeep
<1>6. ASSUME NEW r \in Requests, Cancel(r) PROVE IInv'
  <2>1. UNCHANGED <<hash, rotations, verdict, basis, req>>
    BY <1>6 DEF Cancel, cacheVars
  <2>2. VerdictsFaithful'
    BY <2>1 DEF VerdictsFaithful, Snapshot
  <2>3. CASE pc' = [pc EXCEPT ![r] = "idle"]
    BY <2>1, <2>2, <2>3 DEF RequestsFaithful, Snapshot
  <2>4. CASE DropPermit(r, "idle")
    BY <2>1, <2>2, <2>4, PermitsKeep
  <2>5. QED
    BY <1>6, <2>3, <2>4 DEF Cancel
<1>7. ASSUME NEW s \in Servers, NEW t \in Tokens \cup {NoToken}, Rotate(s, t) PROVE IInv'
  <2>1. /\ hash' = [hash EXCEPT ![s] = t]
        /\ rotations' = [rotations EXCEPT ![s] = @ + 1]
        /\ UNCHANGED <<verdict, basis, pc, req>>
    BY <1>7 DEF Rotate, cacheVars
  <2>2. ASSUME NEW u, NEW at, NEW h, Snapshot(u, at, h) PROVE Snapshot(u, at, h)'
    BY <2>1, <2>2 DEF Snapshot
  <2>3. RequestsFaithful'
    BY <2>1, <2>2 DEF RequestsFaithful
  <2>4. VerdictsFaithful'
    BY <2>1, <2>2 DEF VerdictsFaithful
  <2>5. QED
    BY <2>1, <2>3, <2>4
<1>8. CASE Tick
  <2>1. /\ UNCHANGED <<hash, rotations, pc, req>>
        /\ DOMAIN verdict' = Keys /\ DOMAIN basis' = Keys
    BY <1>8 DEF Tick
  <2>2. \A k \in Keys : verdict'[k] # "absent" =>
          verdict'[k] = verdict[k] /\ basis'[k] = basis[k]
    BY <1>8 DEF Tick
  <2>3. ASSUME NEW s \in Servers, NEW t \in Tokens, verdict'[<<s, t>>] # "absent"
        PROVE  verdict'[<<s, t>>] = verdict[<<s, t>>] /\ basis'[<<s, t>>] = basis[<<s, t>>]
    <3>1. <<s, t>> \in Keys
      BY DEF Keys
    <3>2. QED
      BY <2>2, <2>3, <3>1
  <2>4. VerdictsFaithful'
    <3> SUFFICES ASSUME NEW s \in Servers, NEW t \in Tokens, verdict'[<<s, t>>] # "absent"
                 PROVE  \E h \in Tokens \cup {NoToken} :
                            /\ Snapshot(s, basis[<<s, t>>], h)'
                            /\ verdict'[<<s, t>>] = "valid" <=> h = t
      BY DEF VerdictsFaithful
    <3>1. verdict'[<<s, t>>] = verdict[<<s, t>>] /\ basis'[<<s, t>>] = basis[<<s, t>>]
      BY <2>3
    <3>2. PICK h \in Tokens \cup {NoToken} :
                 /\ Snapshot(s, basis[<<s, t>>], h)
                 /\ verdict[<<s, t>>] = "valid" <=> h = t
      BY <3>1 DEF VerdictsFaithful
    <3>3. QED
      BY <2>1, <3>1, <3>2 DEF Snapshot
  <2>5. QED
    BY <2>1, <2>4 DEF RequestsFaithful, Snapshot
<1>9. CASE OrphanEnds \/ UNCHANGED vars
  BY <1>9 DEF OrphanEnds, vars, cacheVars, RequestsFaithful, VerdictsFaithful, Snapshot
<1>10. QED
  BY <1>1, <1>2, <1>3, <1>4, <1>5, <1>6, <1>7, <1>8, <1>9 DEF Next, Step

(* No order of requests, rotations, expiries and dropped futures puts a    *)
(* verdict into the cache that was wrong for the config it was computed    *)
(* from, or under another server's key.                                    *)
THEOREM VerdictsRight == Spec => []WrongOnlyIfRotated
<1>1. IInv => WrongOnlyIfRotated
  <2> SUFFICES ASSUME IInv, NEW s \in Servers, NEW t \in Tokens,
                      verdict[<<s, t>>] # "absent", basis[<<s, t>>] = rotations[s]
               PROVE  verdict[<<s, t>>] = "valid" <=> hash[s] = t
    BY DEF WrongOnlyIfRotated
  <2>1. QED
    BY DEF IInv, VerdictsFaithful, Snapshot
<1>2. QED
  BY Initially, Inductive, <1>1, PTL DEF Spec

-----------------------------------------------------------------------------
(* The semaphore.  Holders are the requests that have a permit.            *)
Holders == {r \in Requests : pc[r] \in Holding}

(* Where a request can be.                                                 *)
Places == {"idle", "lookup", "queued", "granted", "verify", "matched", "mismatched"}

(* The queue holds every waiting request once, and nobody waits while a    *)
(* permit is free.                                                         *)
QueueTrue ==
    /\ queue \in Seq(Requests)
    /\ \A i, j \in 1 .. Len(queue) : queue[i] = queue[j] => i = j
    /\ \A i \in 1 .. Len(queue) : pc[queue[i]] = "queued"
    /\ \A r \in Requests : pc[r] = "queued" => \E i \in 1 .. Len(queue) : queue[i] = r
    /\ Len(queue) # 0 => permits = 0

(* The inductive invariant of the semaphore: every permit is free or held, *)
(* and the queue holds the requests that wait.                             *)
SemInv ==
    /\ pc \in [Requests -> Places]
    /\ permits \in Nat
    /\ permits + Cardinality(Holders) = PERMITS
    /\ QueueTrue

(* Requests are finitely many, so the permits in use can be counted.       *)
LEMMA HoldersFinite == IsFiniteSet(Holders) /\ Cardinality(Holders) \in Nat
  BY RequestsAssumption, FS_Subset, FS_CardinalityType DEF Holders

(* A step that moves a request neither into nor out of the queue or the    *)
(* permits keeps the account.                                              *)
LEMMA ElsewhereKeeps ==
    ASSUME SemInv, UNCHANGED <<permits, queue>>, pc' \in [Requests -> Places],
           \A r \in Requests : /\ pc'[r] = "queued" <=> pc[r] = "queued"
                               /\ pc'[r] \in Holding <=> pc[r] \in Holding
    PROVE  SemInv'
<1>1. Holders' = Holders
  BY DEF Holders
<1>2. QueueTrue'
  BY DEF SemInv, QueueTrue
<1>3. QED
  BY <1>1, <1>2 DEF SemInv

(* A dropped permit goes to the head of the queue, or back.                *)
LEMMA DropKeeps ==
    ASSUME SemInv, NEW r \in Requests, pc[r] \in Holding, DropPermit(r, "idle")
    PROVE  SemInv'
<1> USE DEF SemInv
<1>1. r \in Holders /\ pc[r] # "queued"
  BY DEF Holders, Holding
<1>2. CASE queue = <<>>
  <2>1. permits' = permits + 1 /\ pc' = [pc EXCEPT ![r] = "idle"] /\ queue' = queue
    BY <1>2 DEF DropPermit
  <2>2. Holders' = Holders \ {r}
    BY <2>1 DEF Holders, Holding
  <2>3. Cardinality(Holders') = Cardinality(Holders) - 1
    BY <1>1, <2>2, HoldersFinite, FS_RemoveElement
  <2>4. QueueTrue'
    BY <1>2, <2>1 DEF QueueTrue
  <2>5. pc' \in [Requests -> Places] /\ permits' \in Nat
    BY <2>1 DEF Places
  <2>6. QED
    BY <2>1, <2>3, <2>4, <2>5, HoldersFinite
<1>3. CASE queue # <<>>
  <2> USE DEF QueueTrue
  <2>1. PICK h : h = Head(queue)
    OBVIOUS
  <2>2. queue' = Tail(queue) /\ pc' = [[pc EXCEPT ![r] = "idle"] EXCEPT ![h] = "granted"]
        /\ permits' = permits
    BY <1>3, <2>1 DEF DropPermit
  <2>3. /\ Len(queue) \in Nat /\ Len(queue) >= 1 /\ Len(Tail(queue)) = Len(queue) - 1
        /\ Tail(queue) \in Seq(Requests) /\ h = queue[1] /\ h \in Requests
        /\ \A i \in 1 .. Len(queue) - 1 : Tail(queue)[i] = queue[i + 1] /\ i + 1 \in 1 .. Len(queue)
    BY <1>3, <2>1
  <2>4. 1 \in 1 .. Len(queue) /\ pc[h] = "queued" /\ h # r
    BY <1>1, <2>3
  <2>5. /\ pc' \in [Requests -> Places] /\ pc'[r] = "idle" /\ pc'[h] = "granted"
        /\ \A q \in Requests : q # r /\ q # h => pc'[q] = pc[q]
    BY <2>2, <2>3, <2>4 DEF Places
  <2>6. Holders' = (Holders \ {r}) \cup {h} /\ h \notin Holders
    BY <2>3, <2>4, <2>5 DEF Holders, Holding
  <2>7. /\ IsFiniteSet(Holders \ {r}) /\ Cardinality(Holders \ {r}) = Cardinality(Holders) - 1
    BY <1>1, HoldersFinite, FS_RemoveElement
  <2>8. Cardinality(Holders') = Cardinality(Holders)
    <3>1. h \notin Holders \ {r}
      BY <2>6
    <3>2. Cardinality((Holders \ {r}) \cup {h}) = Cardinality(Holders \ {r}) + 1
      BY <2>7, <3>1, FS_AddElement
    <3>3. QED
      BY <2>6, <2>7, <3>2, HoldersFinite
  <2>9. ASSUME NEW i \in 1 .. Len(queue'), NEW j \in 1 .. Len(queue'), queue'[i] = queue'[j]
        PROVE  i = j
    <3>1. queue[i + 1] = queue[j + 1] /\ i + 1 \in 1 .. Len(queue) /\ j + 1 \in 1 .. Len(queue)
      BY <2>2, <2>3, <2>9
    <3>2. i + 1 = j + 1
      BY <3>1
    <3>3. QED
      BY <2>2, <2>3, <3>2
  <2>10. ASSUME NEW i \in 1 .. Len(queue') PROVE pc'[queue'[i]] = "queued"
    <3>1. queue'[i] = queue[i + 1] /\ i + 1 \in 1 .. Len(queue) /\ i + 1 # 1
      BY <2>2, <2>3
    <3>2. queue[i + 1] # h /\ queue[i + 1] # r /\ pc[queue[i + 1]] = "queued"
          /\ queue[i + 1] \in Requests
      BY <1>1, <2>3, <2>4, <3>1
    <3>3. QED
      BY <2>5, <3>1, <3>2
  <2>11. ASSUME NEW q \in Requests, pc'[q] = "queued"
         PROVE  \E i \in 1 .. Len(queue') : queue'[i] = q
    <3>1. q # h /\ q # r /\ pc[q] = "queued"
      BY <2>5, <2>11
    <3>2. PICK i \in 1 .. Len(queue) : queue[i] = q
      BY <3>1
    <3>3. i - 1 \in 1 .. Len(queue) - 1 /\ (i - 1) + 1 = i
      BY <2>3, <3>1, <3>2
    <3>4. queue'[i - 1] = q
      BY <2>2, <2>3, <3>2, <3>3
    <3>5. QED
      BY <2>2, <2>3, <3>3, <3>4
  <2>12. permits' = 0 /\ queue' \in Seq(Requests)
    BY <2>2, <2>3
  <2>13. QueueTrue'
    BY <2>9, <2>10, <2>11, <2>12
  <2>14. QED
    BY <2>2, <2>5, <2>8, <2>13
<1>4. QED
  BY <1>2, <1>3

(* Taking a permit, or a place at the end of the queue.                    *)
LEMMA AcquireKeeps ==
    ASSUME SemInv, NEW r \in Requests, Acquire(r)
    PROVE  SemInv'
<1> USE DEF SemInv, QueueTrue
<1>1. pc[r] = "lookup" /\ r \notin Holders
  BY DEF Acquire, Holders, Holding
<1>2. CASE permits > 0
  <2>1. permits' = permits - 1 /\ pc' = [pc EXCEPT ![r] = "granted"] /\ queue' = queue
    BY <1>2 DEF Acquire
  <2>2. Holders' = Holders \cup {r}
    BY <2>1 DEF Holders, Holding
  <2>3. Cardinality(Holders') = Cardinality(Holders) + 1
    BY <1>1, <2>2, HoldersFinite, FS_AddElement
  <2>4. /\ pc' \in [Requests -> Places] /\ permits' \in Nat /\ Len(queue) = 0
        /\ \A q \in Requests : pc'[q] = "queued" => pc[q] = "queued"
    BY <1>1, <1>2, <2>1 DEF Places
  <2>5. QED
    BY <2>1, <2>3, <2>4, HoldersFinite
<1>3. CASE ~(permits > 0)
  <2>1. permits = 0 /\ permits' = permits /\ pc' = [pc EXCEPT ![r] = "queued"]
        /\ queue' = Append(queue, r)
    BY <1>3 DEF Acquire
  <2>2. /\ pc' \in [Requests -> Places] /\ pc'[r] = "queued"
        /\ \A q \in Requests : q # r => pc'[q] = pc[q]
    BY <2>1 DEF Places
  <2>3. Holders' = Holders
    BY <1>1, <2>2 DEF Holders, Holding
  <2>4. /\ Len(queue) \in Nat /\ Len(Append(queue, r)) = Len(queue) + 1
        /\ Append(queue, r) \in Seq(Requests) /\ Append(queue, r)[Len(queue) + 1] = r
        /\ \A i \in 1 .. Len(queue) : Append(queue, r)[i] = queue[i] /\ queue[i] \in Requests
    OBVIOUS
  <2>5. \A i \in 1 .. Len(queue) + 1 : i \in 1 .. Len(queue) \/ i = Len(queue) + 1
    BY <2>4
  <2>6. \A i \in 1 .. Len(queue) : queue[i] # r /\ i \in 1 .. Len(queue) + 1
    BY <1>1, <2>4
  <2>7. \A i, j \in 1 .. Len(queue') : queue'[i] = queue'[j] => i = j
    BY <2>1, <2>4, <2>5, <2>6
  <2>8. \A i \in 1 .. Len(queue') : pc'[queue'[i]] = "queued"
    BY <2>1, <2>2, <2>4, <2>5, <2>6
  <2>9. ASSUME NEW q \in Requests, pc'[q] = "queued"
        PROVE  \E i \in 1 .. Len(queue') : queue'[i] = q
    <3>1. CASE q = r
      <4>1. Len(queue) + 1 \in 1 .. Len(queue')
        BY <2>1, <2>4
      <4>2. QED
        BY <2>1, <2>4, <3>1, <4>1
    <3>2. CASE q # r
      <4>1. PICK i \in 1 .. Len(queue) : queue[i] = q
        BY <2>2, <2>9, <3>2
      <4>2. QED
        BY <2>1, <2>4, <2>6, <4>1
    <3>3. QED
      BY <3>1, <3>2
  <2>10. QED
    BY <2>1, <2>2, <2>3, <2>4, <2>7, <2>8, <2>9
<1>4. QED
  BY <1>2, <1>3

(* What is left of a sequence without its i-th element.                    *)
LEMMA WithoutAtIs ==
    ASSUME NEW S, NEW q \in Seq(S), NEW i \in 1 .. Len(q)
    PROVE  /\ WithoutAt(q, i) \in Seq(S) /\ Len(WithoutAt(q, i)) = Len(q) - 1
           /\ \A j \in 1 .. Len(q) - 1 :
                WithoutAt(q, i)[j] = IF j < i THEN q[j] ELSE q[j + 1]
<1>1. /\ Len(q) \in Nat /\ i \in Nat /\ 1 <= i /\ i <= Len(q)
  OBVIOUS
<1>2. PICK a : /\ a = SubSeq(q, 1, i - 1) /\ a \in Seq(S) /\ Len(a) = i - 1
               /\ \A j \in 1 .. i - 1 : a[j] = q[j]
  <2>1. /\ SubSeq(q, 1, i - 1) \in Seq(S) /\ Len(SubSeq(q, 1, i - 1)) = i - 1
        /\ \A j \in 1 .. i - 1 : SubSeq(q, 1, i - 1)[j] = q[j]
    BY <1>1
  <2>2. QED
    BY <2>1
<1>3. PICK b : /\ b = SubSeq(q, i + 1, Len(q)) /\ b \in Seq(S) /\ Len(b) = Len(q) - i
               /\ \A j \in 1 .. Len(q) - i : b[j] = q[j + i]
  <2>1. /\ SubSeq(q, i + 1, Len(q)) \in Seq(S) /\ Len(SubSeq(q, i + 1, Len(q))) = Len(q) - i
        /\ \A j \in 1 .. Len(q) - i : SubSeq(q, i + 1, Len(q))[j] = q[j + i]
    BY <1>1
  <2>2. QED
    BY <2>1
<1>4. WithoutAt(q, i) = a \o b
  BY <1>2, <1>3 DEF WithoutAt
<1>5. a \o b \in Seq(S) /\ Len(a \o b) = Len(a) + Len(b)
  BY <1>2, <1>3
<1>6. Len(a \o b) = Len(q) - 1 /\ Len(a) = i - 1 /\ Len(b) = Len(q) - i
  <2>1. Len(a) = i - 1
    BY <1>2
  <2>2. Len(b) = Len(q) - i
    BY <1>3
  <2>3. QED
    BY <1>1, <1>5, <2>1, <2>2
<1>7. ASSUME NEW j \in 1 .. Len(q) - 1
      PROVE  (a \o b)[j] = IF j < i THEN q[j] ELSE q[j + 1]
  <2>1. (a \o b)[j] = IF j <= Len(a) THEN a[j] ELSE b[j - Len(a)]
    <3>1. j \in 1 .. Len(a) + Len(b)
      BY <1>1, <1>6
    <3>2. QED
      BY <1>2, <1>3, <3>1
  <2>2. CASE j < i
    <3>1. j \in 1 .. i - 1 /\ j <= Len(a)
      BY <1>1, <1>6, <2>2
    <3>2. QED
      BY <1>2, <2>1, <2>2, <3>1
  <2>3. CASE ~(j < i)
    <3>1. /\ j - Len(a) \in 1 .. Len(q) - i /\ (j - Len(a)) + i = j + 1
          /\ ~(j <= Len(a))
      BY <1>1, <1>6, <2>3
    <3>2. QED
      BY <1>3, <2>1, <2>3, <3>1
  <2>4. QED
    BY <2>2, <2>3
<1>8. QED
  BY <1>4, <1>5, <1>6, <1>7

(* A waiter that goes away leaves the others their places.                 *)
LEMMA LeaveKeeps ==
    ASSUME SemInv, NEW r \in Requests, pc[r] = "queued", NEW i \in 1 .. Len(queue), queue[i] = r,
           queue' = WithoutAt(queue, i), pc' = [pc EXCEPT ![r] = "idle"], UNCHANGED permits
    PROVE  SemInv'
<1> USE DEF SemInv, QueueTrue
<1>0. queue \in Seq(Requests)
  OBVIOUS
<1>1. /\ pc' \in [Requests -> Places] /\ pc'[r] = "idle"
      /\ \A q \in Requests : q # r => pc'[q] = pc[q]
  BY DEF Places
<1>2. Holders' = Holders
  BY <1>1 DEF Holders, Holding
<1>3. /\ queue' \in Seq(Requests) /\ Len(queue') = Len(queue) - 1 /\ Len(queue) \in Nat
      /\ \A j \in 1 .. Len(queue) - 1 : queue'[j] = IF j < i THEN queue[j] ELSE queue[j + 1]
  <2>1. /\ WithoutAt(queue, i) \in Seq(Requests) /\ Len(WithoutAt(queue, i)) = Len(queue) - 1
        /\ \A j \in 1 .. Len(queue) - 1 :
             WithoutAt(queue, i)[j] = IF j < i THEN queue[j] ELSE queue[j + 1]
    BY ONLY <1>0, i \in 1 .. Len(queue), WithoutAtIs
  <2>2. Len(queue) \in Nat
    BY ONLY <1>0
  <2>3. queue' = WithoutAt(queue, i)
    OBVIOUS
  <2>4. QED
    BY ONLY <2>1, <2>2, <2>3
<1>4. ASSUME NEW j \in 1 .. Len(queue')
      PROVE  \E k \in 1 .. Len(queue) : /\ k # i /\ queue'[j] = queue[k]
                                        /\ k = IF j < i THEN j ELSE j + 1
  BY <1>3
<1>5. ASSUME NEW j \in 1 .. Len(queue'), NEW k \in 1 .. Len(queue'), queue'[j] = queue'[k]
      PROVE  j = k
  <2>1. PICK a \in 1 .. Len(queue) : queue'[j] = queue[a] /\ a = IF j < i THEN j ELSE j + 1
    BY <1>4
  <2>2. PICK b \in 1 .. Len(queue) : queue'[k] = queue[b] /\ b = IF k < i THEN k ELSE k + 1
    BY <1>4
  <2>3. queue[a] = queue[b]
    BY <1>5, <2>1, <2>2
  <2>4. a = b
    BY <2>3
  <2>5. QED
    BY <1>3, <2>1, <2>2, <2>4
<1>6. ASSUME NEW j \in 1 .. Len(queue') PROVE pc'[queue'[j]] = "queued"
  <2>1. PICK k \in 1 .. Len(queue) : k # i /\ queue'[j] = queue[k]
    BY <1>4
  <2>2. queue[k] # r /\ queue[k] \in Requests
    BY <2>1
  <2>3. QED
    BY <1>1, <2>1, <2>2
<1>7. ASSUME NEW q \in Requests, pc'[q] = "queued"
      PROVE  \E j \in 1 .. Len(queue') : queue'[j] = q
  <2>1. q # r /\ pc[q] = "queued"
    BY <1>1, <1>7
  <2>2. PICK k \in 1 .. Len(queue) : queue[k] = q
    BY <2>1
  <2>3. k # i
    BY <2>1, <2>2
  <2>4. CASE k < i
    <3>1. k \in 1 .. Len(queue) - 1
      BY <1>3, <2>4
    <3>2. QED
      BY <1>3, <2>2, <2>4, <3>1
  <2>5. CASE k > i
    <3>1. k - 1 \in 1 .. Len(queue) - 1 /\ (k - 1) + 1 = k /\ ~(k - 1 < i)
      BY <1>3, <2>5
    <3>2. queue'[k - 1] = q
      BY <1>3, <2>2, <3>1
    <3>3. QED
      BY <1>3, <3>1, <3>2
  <2>6. QED
    BY <2>3, <2>4, <2>5
<1>8. Len(queue') # 0 => permits' = 0
  BY <1>3
<1>9. QueueTrue'
  BY <1>3, <1>5, <1>6, <1>7, <1>8
<1>10. QED
  BY <1>1, <1>2, <1>9

(* Every step of requests, hot reload and the clock keeps the account.     *)
LEMMA PermitsInductive == SemInv /\ [Next]_vars => SemInv'
<1> SUFFICES ASSUME SemInv, [Next]_vars PROVE SemInv'
  OBVIOUS
<1>p. pc \in [Requests -> Places]
  BY DEF SemInv
<1>1. ASSUME NEW r \in Requests, NEW s \in Servers, NEW t \in Tokens \cup {NoToken},
             Arrive(r, s, t)
      PROVE  SemInv'
  BY <1>1, <1>p, ElsewhereKeeps DEF Arrive, Answer, semVars, Places, Holding
<1>2. ASSUME NEW r \in Requests, CacheHit(r) \/ NoHashConfigured(r) PROVE SemInv'
  BY <1>2, <1>p, ElsewhereKeeps DEF CacheHit, NoHashConfigured, Answer, semVars, Places, Holding
<1>3. ASSUME NEW r \in Requests, Spawn(r) \/ Verify(r) PROVE SemInv'
  BY <1>3, <1>p, ElsewhereKeeps DEF Spawn, Verify, semVars, Places, Holding
<1>4. ASSUME NEW r \in Requests, Acquire(r) PROVE SemInv'
  BY <1>4, AcquireKeeps
<1>5. ASSUME NEW r \in Requests, Resume(r) PROVE SemInv'
  BY <1>5, DropKeeps DEF Resume, Holding
<1>6. ASSUME NEW r \in Requests, Cancel(r) PROVE SemInv'
  <2>1. CASE pc[r] \in Holding /\ DropPermit(r, "idle")
    BY <2>1, DropKeeps
  <2>2. CASE pc[r] = "queued"
    <3>1. /\ pc' = [pc EXCEPT ![r] = "idle"] /\ UNCHANGED permits
          /\ \E i \in DOMAIN queue : queue[i] = r /\ queue' = WithoutAt(queue, i)
      BY <1>6, <2>2 DEF Cancel, Holding
    <3>2. DOMAIN queue = 1 .. Len(queue)
      BY DEF SemInv, QueueTrue
    <3>3. QED
      BY <2>2, <3>1, <3>2, LeaveKeeps
  <2>3. QED
    BY <1>6, <2>1, <2>2 DEF Cancel
<1>7. ASSUME UNCHANGED <<pc, semVars>> PROVE SemInv'
  BY <1>7, <1>p, ElsewhereKeeps DEF semVars
<1>8. ASSUME NEW s \in Servers, NEW t \in Tokens \cup {NoToken}, Rotate(s, t) PROVE SemInv'
  BY <1>8, <1>7 DEF Rotate
<1>9. CASE Tick \/ OrphanEnds \/ UNCHANGED vars
  BY <1>9, <1>7 DEF Tick, OrphanEnds, vars, semVars
<1>10. QED
  BY <1>1, <1>2, <1>3, <1>4, <1>5, <1>6, <1>8, <1>9 DEF Next, Step

(* Dropping a request at any await neither leaks nor duplicates a permit.  *)
THEOREM PermitsNeverLeak == Spec => []PermitsAccounted
<1>1. Init => SemInv
  <2> SUFFICES ASSUME Init PROVE SemInv
    OBVIOUS
  <2>1. Holders = {}
    BY DEF Init, Holders, Holding
  <2>2. Cardinality(Holders) = 0
    BY <2>1, FS_EmptySet
  <2>3. QED
    BY <2>2, BoundsAssumption DEF Init, SemInv, QueueTrue, Places
<1>2. SemInv => PermitsAccounted
  <2> SUFFICES ASSUME SemInv PROVE PermitsAccounted
    OBVIOUS
  <2>1. DOMAIN queue = 1 .. Len(queue) /\ (queue # <<>> => Len(queue) # 0)
        /\ \A i \in 1 .. Len(queue) : queue[i] \in Requests
    BY DEF SemInv, QueueTrue
  <2>2. Range(queue) = {r \in Requests : pc[r] = "queued"}
    BY <2>1 DEF SemInv, QueueTrue, Range
  <2>3. QED
    BY <2>1, <2>2 DEF SemInv, QueueTrue, PermitsAccounted, Holders
<1>3. QED
  BY <1>1, <1>2, PermitsInductive, PTL DEF Spec

-----------------------------------------------------------------------------
(* The rate limits                                                         *)

CONSTANTS EXPIRY_MARGIN, LimitKeys, MAX_TIME, MINUTE, Nodes, None, Rate,
          Redis, ServerOf, UserOf
VARIABLES allowance, at, last, now, promise, tokens, touched
Limiter == INSTANCE RateLimiter WITH Keys <- LimitKeys

(* Products with a rate: what refilling computes.                          *)
LEMMA Products ==
  ASSUME NEW a \in Int, NEW b \in Int, NEW r \in Nat
  PROVE  /\ (a + b) * r = a * r + b * r
         /\ (a - b) * r = a * r - b * r
         /\ a >= 0 => a * r \in Nat
         /\ a >= b => a * r >= b * r
OBVIOUS

(* Rounding a quotient up covers what is divided: the seconds until a token*)
(* is there are enough.                                                    *)
LEMMA CeilCovers ==
  ASSUME NEW a \in Int, NEW b \in Nat \ {0}
  PROVE  Limiter!Ceil(a, b) \in Int /\ Limiter!Ceil(a, b) * b >= a
BY DEF Limiter!Ceil

(* The amounts of a bucket: a new one holds at least one token and no more *)
(* than its capacity.                                                      *)
LEMMA Amounts ==
  ASSUME Limiter!NumbersValid, NEW k \in LimitKeys
  PROVE  /\ Rate[k] \in Nat \ {0} /\ Limiter!Token \in Nat \ {0}
         /\ Limiter!Capacity(k) \in Nat /\ Limiter!Initial(k) \in Nat
         /\ Limiter!Capacity(k) >= Limiter!Initial(k) /\ Limiter!Initial(k) >= Limiter!Token
<1>1. Rate[k] \in Nat \ {0} /\ MINUTE \in Nat \ {0}
  BY DEF Limiter!NumbersValid
<1>2. PICK r \in Nat, m \in Nat : r = Rate[k] /\ m = MINUTE /\ r >= 1 /\ m >= 1
  BY <1>1
<1>3. PICK p \in Nat : p = r * m /\ p >= m
  BY <1>2
<1>4. 3 * r * m = 3 * p
  BY <1>2, <1>3
<1>5. (3 * p) \div 2 >= p /\ (3 * p) \div 2 \in Nat
  BY <1>3
<1>6. QED
  BY <1>1, <1>2, <1>3, <1>4, <1>5 DEF Limiter!Capacity, Limiter!Initial, Limiter!Token

(* What the proof needs of the types.                                      *)
LimitShapes ==
  /\ now \in Nat
  /\ at \in [Requests -> Nat]
  /\ tokens \in [Limiter!Backends -> [LimitKeys -> Nat \cup {None}]]
  /\ last \in [Limiter!Backends -> [LimitKeys -> Nat]]
  /\ touched \in [LimitKeys -> Nat]
  /\ allowance \in [Limiter!Backends -> [LimitKeys -> Int]]
  /\ promise \in [Limiter!Backends -> [LimitKeys -> Nat \cup {None}]]

(* No clock that is read or stored is ahead of the time.                   *)
Past ==
  /\ \A r \in Requests : at[r] <= now
  /\ \A b \in Limiter!Backends, k \in LimitKeys : last[b][k] <= now
  /\ \A k \in LimitKeys : last[Redis][k] <= touched[k] /\ touched[k] <= now

(* What bucket k of backend b may still spend: no more than what time has  *)
(* earned it beyond what it spent.                                         *)
Earned(b, k) ==
  allowance[b][k] >= IF tokens[b][k] = None THEN Limiter!Initial(k)
                       ELSE tokens[b][k] + (now - last[b][k]) * Rate[k]

(* The time a refused caller was told is no earlier than the bucket itself *)
(* will be ready.                                                          *)
Kept(b, k) ==
  promise[b][k] # None =>
    tokens[b][k] # None /\ promise[b][k] >= last[b][k] + Limiter!ResetSecs(k, tokens[b][k])

(* The inductive invariant of the limiter.                                 *)
LimitInv == LimitShapes /\ Past /\ \A b \in Limiter!Backends, k \in LimitKeys : Earned(b, k) /\ Kept(b, k)

(* What a bucket holds when it is looked at, at a time t that another      *)
(* request may have overtaken.                                             *)
LEMMA RefilledAmount ==
  ASSUME Limiter!NumbersValid, LimitShapes, NEW b \in Limiter!Backends, NEW k \in LimitKeys, NEW t \in Nat
  PROVE  /\ Limiter!Refilled(b, k, t) \in Nat
         /\ tokens[b][k] = None => Limiter!Refilled(b, k, t) = Limiter!Initial(k)
         /\ tokens[b][k] # None =>
              /\ t <= last[b][k] => Limiter!Refilled(b, k, t) <= tokens[b][k]
              /\ t >= last[b][k] =>
                   Limiter!Refilled(b, k, t) <= tokens[b][k] + (t - last[b][k]) * Rate[k]
<1>1. tokens[b][k] \in Nat \cup {None} /\ last[b][k] \in Nat
  BY DEF LimitShapes
<1>2. CASE tokens[b][k] = None
  BY <1>2, Amounts DEF Limiter!Refilled
<1>3. CASE tokens[b][k] # None
  <2>1. PICK d \in Nat : d = Limiter!Positive(t - last[b][k]) /\ (t <= last[b][k] => d = 0)
                           /\ (t >= last[b][k] => d = t - last[b][k])
    BY <1>1 DEF Limiter!Positive
  <2>2. d * Rate[k] \in Nat /\ (d = 0 => d * Rate[k] = 0)
    BY Amounts
  <2>3. Limiter!Refilled(b, k, t) = Limiter!Smaller(Limiter!Capacity(k), tokens[b][k] + d * Rate[k])
    BY <1>3, <2>1 DEF Limiter!Refilled
  <2>4. QED
    BY <1>1, <1>3, <2>1, <2>2, <2>3, Amounts DEF Limiter!Smaller
<1>4. QED
  BY <1>2, <1>3

(* What the ghost counter adds for a step at a time that is behind the last*)
(* refill or behind the time.                                              *)
Owed(b, k, t) == IF tokens[b][k] = None THEN now - t ELSE Limiter!Positive(last[b][k] - t)

(* A check of one bucket, taking a token or refusing, keeps what the bucket*)
(* earned and what it promised (rate_limit/lua.rs, and the fallback in     *)
(* rate_limit/mod.rs).                                                     *)
LEMMA TakeStep ==
  ASSUME Limiter!NamesValid, Limiter!NumbersValid, LimitInv, NEW b \in Limiter!Backends, NEW k \in LimitKeys,
         NEW t \in Nat, t <= now, NEW credit \in Int, credit = Rate[k] * Owed(b, k, t), Limiter!Take(b, k, t, credit), now' = now
  PROVE  /\ tokens' \in [Limiter!Backends -> [LimitKeys -> Nat \cup {None}]]
         /\ last' = [last EXCEPT ![b][k] = t]
         /\ allowance' \in [Limiter!Backends -> [LimitKeys -> Int]]
         /\ promise' \in [Limiter!Backends -> [LimitKeys -> Nat \cup {None}]]
         /\ \A c \in Limiter!Backends, j \in LimitKeys : Earned(c, j)' /\ Kept(c, j)'
<1> DEFINE have == Limiter!Refilled(b, k, t)
           left == IF have >= Limiter!Token THEN have - Limiter!Token ELSE have
           paid == IF have >= Limiter!Token THEN Limiter!Token ELSE 0
           said == IF have >= Limiter!Token THEN None ELSE t + Limiter!RetryAfter(k, have)
<1> USE DEF LimitInv, LimitShapes
<1>1. have \in Nat /\ left \in Nat /\ paid \in Nat /\ left = have - paid
  BY RefilledAmount, Amounts
<1>2. Limiter!ResetSecs(k, have) \in Int /\ Limiter!RetryAfter(k, have) \in Nat /\ Limiter!RetryAfter(k, have) >= Limiter!ResetSecs(k, have)
  <2>1. Limiter!ResetSecs(k, have) \in Int
    <3>1. Limiter!Token - have \in Int
      BY <1>1, Amounts
    <3>2. QED
      BY <3>1, Amounts, CeilCovers DEF Limiter!ResetSecs
  <2>2. QED
    BY <2>1 DEF Limiter!RetryAfter
<1>3. said \in Nat \cup {None} /\ (said # None => said = t + Limiter!RetryAfter(k, have) /\ left = have)
  BY <1>1, <1>2, Amounts
<1>4. /\ tokens' = [tokens EXCEPT ![b][k] = left]
      /\ last' = [last EXCEPT ![b][k] = t]
      /\ allowance' = [allowance EXCEPT ![b][k] = @ + credit - paid]
      /\ promise' = [promise EXCEPT ![b][k] = said]
  BY DEF Limiter!Take
<1> HIDE DEF have, left, paid, said
<1>5. /\ tokens' \in [Limiter!Backends -> [LimitKeys -> Nat \cup {None}]]
      /\ promise' \in [Limiter!Backends -> [LimitKeys -> Nat \cup {None}]]
  BY <1>1, <1>3, <1>4
<1>6. allowance' \in [Limiter!Backends -> [LimitKeys -> Int]]
  <2>1. allowance[b][k] + credit - paid \in Int
    BY <1>1
  <2>2. QED
    BY <1>4, <2>1
<1>7. ASSUME NEW c \in Limiter!Backends, NEW j \in LimitKeys, c # b \/ j # k
      PROVE  Earned(c, j)' /\ Kept(c, j)'
  <2>1. /\ tokens'[c][j] = tokens[c][j] /\ last'[c][j] = last[c][j]
        /\ allowance'[c][j] = allowance[c][j] /\ promise'[c][j] = promise[c][j]
    BY <1>4, <1>7
  <2>2. QED
    BY <2>1 DEF Earned, Kept
<1>8. /\ tokens'[b][k] = left /\ last'[b][k] = t
      /\ allowance'[b][k] = allowance[b][k] + credit - paid /\ promise'[b][k] = said
  BY <1>4
<1>9. Kept(b, k)'
  BY <1>1, <1>2, <1>3, <1>8 DEF Kept, Limiter!NamesValid
<1>10. Earned(b, k)'
  <2>1. tokens'[b][k] # None
    BY <1>1, <1>8 DEF Limiter!NamesValid
  <2> SUFFICES allowance[b][k] + credit >= have + (now - t) * Rate[k]
    <3>1. PICK x \in Int : x = (now - t) * Rate[k]
      BY Amounts
    <3>2. QED
      BY <1>1, <1>8, <2>1, <3>1 DEF Earned
  <2>2. CASE tokens[b][k] = None
    BY <2>2, RefilledAmount, Amounts DEF Owed, Earned, have
  <2>3. CASE tokens[b][k] # None
    <3>1. PICK l \in Nat, r \in Nat, n \in Nat, v \in Nat :
            l = last[b][k] /\ r = Rate[k] /\ n = now /\ v = tokens[b][k]
      BY <2>3, Amounts
    <3>2. allowance[b][k] >= v + (n - l) * r /\ n >= l
      BY <2>3, <3>1 DEF Earned, Past
    <3>3. CASE t <= l
      <4>1. have <= v /\ credit = r * (l - t)
        <5>1. t <= last[b][k] /\ last[b][k] \in Nat /\ t \in Nat
          BY <3>1, <3>3
        <5>2. have <= tokens[b][k]
          BY <2>3, <5>1, RefilledAmount DEF have
        <5>3. Limiter!Positive(last[b][k] - t) = last[b][k] - t
          BY ONLY <5>1 DEF Limiter!Positive
        <5>4. Owed(b, k, t) = last[b][k] - t
          BY <2>3, <5>3 DEF Owed
        <5>5. QED
          BY <3>1, <5>2, <5>4
      <4>2. (n - l) * r + r * (l - t) = (n - t) * r
        OBVIOUS
      <4>3. QED
        BY <3>1, <3>2, <4>1, <4>2, <1>1
    <3>4. CASE t >= l
      <4>1. have <= v + (t - l) * r /\ credit = r * 0
        BY <2>3, <3>1, <3>4, RefilledAmount DEF Owed, Limiter!Positive, have
      <4>2. (n - l) * r = (t - l) * r + (n - t) * r
        OBVIOUS
      <4>3. QED
        BY <3>1, <3>2, <4>1, <4>2, <1>1
    <3>5. QED
      BY <3>1, <3>3, <3>4
  <2>4. QED
    BY <2>2, <2>3
<1>11. QED
  BY <1>4, <1>5, <1>6, <1>7, <1>9, <1>10

(* The invariant holds before the first request.                           *)
LEMMA LimitInitially == ASSUME Limiter!NamesValid, Limiter!NumbersValid, Limiter!Init PROVE LimitInv
<1>1. LimitShapes /\ Past
  BY Amounts DEF Limiter!Init, LimitShapes, Past, Limiter!Backends
<1>2. ASSUME NEW b \in Limiter!Backends, NEW k \in LimitKeys PROVE Earned(b, k) /\ Kept(b, k)
  BY Amounts DEF Limiter!Init, Earned, Kept
<1>3. QED
  BY <1>1, <1>2 DEF LimitInv

(* Every check, in Redis or in a node, at any clock the request read, and  *)
(* every tick of the clock keep the invariant.                             *)
LEMMA LimitInductive == ASSUME Limiter!NamesValid, Limiter!NumbersValid, LimitInv, [Limiter!Next]_(Limiter!vars) PROVE LimitInv'
<1>1. ASSUME NEW r \in Requests, Limiter!Stamp(r) \/ Limiter!NoRedis(r) \/ Limiter!RedisFails(r) PROVE LimitInv'
  <2>1. UNCHANGED <<now, Limiter!bucketVars>>
    BY <1>1 DEF Limiter!Stamp, Limiter!NoRedis, Limiter!RedisFails
  <2>2. at' \in [Requests -> Nat] /\ \A q \in Requests : at'[q] <= now
    <3>1. CASE Limiter!Stamp(r)
      BY <3>1 DEF Limiter!Stamp, LimitInv, LimitShapes, Past
    <3>2. CASE Limiter!NoRedis(r)
      BY <3>2 DEF Limiter!NoRedis, LimitInv, LimitShapes, Past
    <3>3. CASE Limiter!RedisFails(r)
      BY <3>3 DEF Limiter!RedisFails, LimitInv, LimitShapes, Past
    <3>4. QED
      BY <1>1, <3>1, <3>2, <3>3
  <2>a. LimitShapes' /\ Past'
    BY <2>1, <2>2 DEF Limiter!bucketVars, LimitInv, LimitShapes, Past
  <2>3. ASSUME NEW b \in Limiter!Backends, NEW k \in LimitKeys PROVE Earned(b, k)' /\ Kept(b, k)'
    BY <2>1 DEF Limiter!bucketVars, LimitInv, Earned, Kept
  <2>4. QED
    BY <2>a, <2>3 DEF LimitInv
<1>2. ASSUME NEW r \in Requests PROVE Limiter!KeyOf(r) \in LimitKeys
  BY DEF Limiter!KeyOf, Limiter!NamesValid
<1>3. ASSUME NEW r \in Requests, Limiter!RunScript(r) PROVE LimitInv'
  <2>1. PICK k \in LimitKeys, t \in Nat : k = Limiter!KeyOf(r) /\ t = at[r] /\ t <= now
    BY <1>2 DEF LimitInv, LimitShapes, Past
  <2>2. Redis \in Limiter!Backends /\ now \in Nat /\ last[Redis][k] \in Nat
    BY DEF Limiter!Backends, LimitInv, LimitShapes
  <2>3. PICK credit \in Int : credit = Rate[k] * Owed(Redis, k, t)
    BY <2>1, <2>2, Amounts DEF Owed, Limiter!Positive
  <2>4. Limiter!Take(Redis, k, t, credit) /\ UNCHANGED now
    BY <1>3, <2>1, <2>3 DEF Limiter!RunScript, Limiter!TwiceCredited, Owed
  <2>5. /\ tokens' \in [Limiter!Backends -> [LimitKeys -> Nat \cup {None}]]
        /\ last' = [last EXCEPT ![Redis][k] = t]
        /\ allowance' \in [Limiter!Backends -> [LimitKeys -> Int]]
        /\ promise' \in [Limiter!Backends -> [LimitKeys -> Nat \cup {None}]]
        /\ \A c \in Limiter!Backends, j \in LimitKeys : Earned(c, j)' /\ Kept(c, j)'
    BY <2>1, <2>2, <2>3, <2>4, TakeStep
  <2>6. touched' = [touched EXCEPT ![k] = now] /\ at' = [at EXCEPT ![r] = 0]
    BY <1>3, <2>1 DEF Limiter!RunScript
  <2>7. LimitShapes'
    BY <2>2, <2>4, <2>5, <2>6 DEF LimitInv, LimitShapes
  <2>8. Past'
    BY <2>1, <2>2, <2>4, <2>5, <2>6 DEF LimitInv, LimitShapes, Past
  <2>9. QED
    BY <2>5, <2>7, <2>8 DEF LimitInv
<1>4. ASSUME NEW r \in Requests, NEW n \in Nodes, Limiter!CheckInProcess(r, n) PROVE LimitInv'
  <2>1. PICK k \in LimitKeys, t \in Nat : k = Limiter!KeyOf(r) /\ t = now /\ t <= now
    BY <1>2 DEF LimitInv, LimitShapes
  <2>2. n \in Limiter!Backends /\ n # Redis /\ last[n][k] \in Nat /\ last[n][k] <= now
    BY DEF Limiter!Backends, LimitInv, LimitShapes, Past, Limiter!NamesValid
  <2>3. 0 = Rate[k] * Owed(n, k, t)
    <3>1. Owed(n, k, t) = 0
      BY <2>1, <2>2 DEF Owed, Limiter!Positive
    <3>2. QED
      BY <3>1, Amounts
  <2>4. Limiter!Take(n, k, t, 0) /\ UNCHANGED <<now, at, touched>>
    BY <1>4, <2>1 DEF Limiter!CheckInProcess
  <2>5. /\ tokens' \in [Limiter!Backends -> [LimitKeys -> Nat \cup {None}]]
        /\ last' = [last EXCEPT ![n][k] = t]
        /\ allowance' \in [Limiter!Backends -> [LimitKeys -> Int]]
        /\ promise' \in [Limiter!Backends -> [LimitKeys -> Nat \cup {None}]]
        /\ \A c \in Limiter!Backends, j \in LimitKeys : Earned(c, j)' /\ Kept(c, j)'
    BY <2>1, <2>2, <2>3, <2>4, TakeStep
  <2>6. LimitShapes' /\ Past'
    BY <2>1, <2>2, <2>4, <2>5 DEF LimitInv, LimitShapes, Past, Limiter!Backends
  <2>7. QED
    BY <2>5, <2>6 DEF LimitInv
<1>5. ASSUME NEW k \in LimitKeys, Limiter!Expire(k) PROVE LimitInv'
  <2>1. /\ tokens' = [tokens EXCEPT ![Redis][k] = None]
        /\ promise' = [promise EXCEPT ![Redis][k] = None]
        /\ UNCHANGED <<now, at, last, touched, allowance>>
    BY <1>5 DEF Limiter!Expire
  <2>2. LimitShapes' /\ Past'
    BY <2>1 DEF LimitInv, LimitShapes, Past
  <2>3. ASSUME NEW b \in Limiter!Backends, NEW j \in LimitKeys, b # Redis \/ j # k
        PROVE  Earned(b, j)' /\ Kept(b, j)'
    <3>1. tokens'[b][j] = tokens[b][j] /\ promise'[b][j] = promise[b][j]
      BY <2>1, <2>3 DEF LimitInv, LimitShapes
    <3>2. QED
      BY <2>1, <3>1 DEF LimitInv, Earned, Kept
  <2>4. Earned(Redis, k)' /\ Kept(Redis, k)'
    <3>1. /\ Redis \in Limiter!Backends /\ tokens'[Redis][k] = None /\ promise'[Redis][k] = None
          /\ tokens[Redis][k] # None /\ now - touched[k] >= Limiter!Lifetime(k)
      BY <1>5, <2>1 DEF Limiter!Expire, Limiter!Backends, LimitInv, LimitShapes
    <3>2. PICK l \in Nat, r \in Nat \ {0}, d \in Nat, v \in Nat, a \in Int :
            /\ l = last[Redis][k] /\ r = Rate[k] /\ d = now - l /\ v = tokens[Redis][k]
            /\ a = allowance[Redis][k]
      <4>1. /\ last[Redis][k] \in Nat /\ Rate[k] \in Nat \ {0} /\ tokens[Redis][k] \in Nat
            /\ allowance[Redis][k] \in Int
        BY <3>1, Amounts DEF LimitInv, LimitShapes
      <4>2. now - last[Redis][k] \in Nat
        BY <3>1, <4>1 DEF LimitInv, LimitShapes, Past
      <4>3. QED
        BY <4>1, <4>2
    <3>3. a >= v + d * r
      BY <3>1, <3>2 DEF LimitInv, Earned
    <3>4. PICK c \in Int : c = Limiter!Ceil(Limiter!Capacity(k), r) /\ c * r >= Limiter!Capacity(k)
      BY Amounts, CeilCovers
    <3>5. d >= c
      <4>1. d >= now - touched[k] /\ now - touched[k] \in Int
        BY <3>1, <3>2 DEF LimitInv, LimitShapes, Past
      <4>2. Limiter!Lifetime(k) = c + EXPIRY_MARGIN /\ EXPIRY_MARGIN \in Nat
        BY <3>2, <3>4 DEF Limiter!Lifetime, Limiter!NumbersValid
      <4>3. QED
        BY <3>1, <4>1, <4>2
    <3>6. d * r >= c * r
      BY <3>5, Products
    <3>7. a >= Limiter!Initial(k)
      BY <3>3, <3>4, <3>6, Amounts
    <3>8. QED
      BY <2>1, <3>1, <3>2, <3>7 DEF Earned, Kept
  <2>5. QED
    BY <2>2, <2>3, <2>4 DEF LimitInv
<1>6. CASE Limiter!Tick
  <2>1. /\ now' = now + 1 /\ UNCHANGED <<at, tokens, last, touched, promise>>
        /\ \A b \in Limiter!Backends, k \in LimitKeys : allowance'[b][k] = allowance[b][k] + Rate[k]
    BY <1>6 DEF Limiter!Tick
  <2>2. LimitShapes' /\ Past'
    <3>1. allowance' \in [Limiter!Backends -> [LimitKeys -> Int]]
      BY <1>6, Amounts DEF Limiter!Tick, LimitInv, LimitShapes
    <3>2. QED
      BY <2>1, <3>1 DEF LimitInv, LimitShapes, Past
  <2>3. ASSUME NEW b \in Limiter!Backends, NEW k \in LimitKeys PROVE Earned(b, k)' /\ Kept(b, k)'
    <3>1. Kept(b, k)'
      BY <2>1 DEF LimitInv, Kept
    <3>2. CASE tokens[b][k] = None
      <4>1. allowance[b][k] \in Int /\ allowance[b][k] >= Limiter!Initial(k)
        BY <3>2 DEF LimitInv, LimitShapes, Earned
      <4>2. allowance'[b][k] >= Limiter!Initial(k)
        BY <2>1, <4>1, Amounts
      <4>3. QED
        BY <2>1, <3>1, <3>2, <4>2 DEF Earned
    <3>3. CASE tokens[b][k] # None
      <4>1. PICK d \in Int, r \in Nat, v \in Nat :
              d = now - last[b][k] /\ r = Rate[k] /\ v = tokens[b][k]
        <5>1. now - last[b][k] \in Int /\ Rate[k] \in Nat /\ tokens[b][k] \in Nat
          BY <3>3, Amounts DEF LimitInv, LimitShapes
        <5>2. QED
          BY <5>1
      <4>2. now' - last'[b][k] = d + 1 /\ (d + 1) * r = d * r + r
        <5>1. now \in Int /\ now' = now + 1 /\ last' = last /\ last[b][k] \in Int
          BY <2>1, <3>3 DEF LimitInv, LimitShapes
        <5>2. now' - last'[b][k] = d + 1
          BY <4>1, <5>1
        <5>3. (d + 1) * r = d * r + r
          OBVIOUS
        <5>4. QED
          BY <5>2, <5>3
      <4>3. allowance[b][k] >= v + d * r /\ allowance[b][k] \in Int /\ d * r \in Int
        BY <3>3, <4>1 DEF LimitInv, Earned, LimitShapes
      <4>4. allowance'[b][k] >= v + (d * r + r)
        BY <2>1, <4>1, <4>3
      <4>5. QED
        BY <2>1, <3>1, <3>3, <4>1, <4>2, <4>4 DEF Earned
    <3>4. QED
      BY <3>1, <3>2, <3>3
  <2>4. QED
    BY <2>2, <2>3 DEF LimitInv
<1>7. CASE UNCHANGED Limiter!vars
  <2>1. LimitShapes' /\ Past'
    BY <1>7 DEF Limiter!vars, LimitInv, LimitShapes, Past
  <2>2. ASSUME NEW b \in Limiter!Backends, NEW k \in LimitKeys PROVE Earned(b, k)' /\ Kept(b, k)'
    BY <1>7 DEF Limiter!vars, LimitInv, Earned, Kept
  <2>3. QED
    BY <2>1, <2>2 DEF LimitInv
<1>8. QED
  BY <1>1, <1>3, <1>4, <1>5, <1>6, <1>7 DEF Limiter!Next, Limiter!Check

(* What a bucket may still spend is never negative.                        *)
LEMMA EarnedIsPositive ==
  ASSUME Limiter!NumbersValid, LimitInv, NEW b \in Limiter!Backends, NEW k \in LimitKeys PROVE allowance[b][k] >= 0
<1>1. CASE tokens[b][k] = None
  BY <1>1, Amounts DEF LimitInv, LimitShapes, Earned
<1>2. CASE tokens[b][k] # None
  <2>1. PICK d \in Nat, v \in Nat : d = now - last[b][k] /\ v = tokens[b][k]
    BY <1>2 DEF LimitInv, LimitShapes, Past
  <2>2. d * Rate[k] \in Nat
    BY Amounts
  <2>3. QED
    BY <1>2, <2>1, <2>2 DEF LimitInv, LimitShapes, Earned
<1>3. QED
  BY <1>1, <1>2

(* The buckets in Redis let through no more than the clock has earned them *)
(* and what is credited twice because a script runs with a time read before*)
(* an earlier one's (rate_limit/lua.rs).                                   *)
THEOREM RedisNeverOverspends ==
  ASSUME Limiter!NamesValid, Limiter!NumbersValid PROVE Limiter!Spec => []Limiter!RedisBoundedByClock
<1>1. LimitInv => Limiter!RedisBoundedByClock
  BY EarnedIsPositive DEF Limiter!RedisBoundedByClock, Limiter!Backends
<1>2. QED
  BY <1>1, LimitInitially, LimitInductive, PTL DEF Limiter!Spec

(* The buckets a process keeps while Redis is away never let through more  *)
(* than the clock has earned them (rate_limit/mod.rs:205-239).             *)
THEOREM FallbackNeverOverspends ==
  ASSUME Limiter!NamesValid, Limiter!NumbersValid PROVE Limiter!Spec => []Limiter!FallbackBoundedByClock
<1>1. LimitInv => Limiter!FallbackBoundedByClock
  BY EarnedIsPositive DEF Limiter!FallbackBoundedByClock, Limiter!Backends
<1>2. QED
  BY <1>1, LimitInitially, LimitInductive, PTL DEF Limiter!Spec

(* A check at the time a refusal named, or later, is not refused if the    *)
(* bucket has let nobody else through in between (reset_secs in            *)
(* rate_limit/lua.rs and rate_limit/mod.rs).                               *)
THEOREM RetryAfterHonoured ==
  ASSUME Limiter!NamesValid, Limiter!NumbersValid PROVE Limiter!Spec => []Limiter!RetryAfterKept
<1>1. LimitInv => Limiter!RetryAfterKept
  <2> SUFFICES ASSUME LimitInv, NEW b \in Limiter!Backends, NEW k \in LimitKeys, promise[b][k] # None,
                      NEW t \in promise[b][k]..MAX_TIME
               PROVE  Limiter!Allowed(b, k, t)
    BY DEF Limiter!RetryAfterKept
  <2>1. PICK l \in Nat, v \in Nat, p \in Nat :
          l = last[b][k] /\ v = tokens[b][k] /\ p = promise[b][k] /\ v # None
    BY DEF LimitInv, LimitShapes, Kept
  <2>2. PICK r \in Nat \ {0}, c \in Int : r = Rate[k] /\ c = Limiter!ResetSecs(k, v) /\ c * r >= Limiter!Token - v
    <3>1. Rate[k] \in Nat \ {0} /\ Limiter!Token - v \in Int
      BY Amounts
    <3>2. QED
      BY <3>1, CeilCovers DEF Limiter!ResetSecs
  <2>3. p >= l + c /\ t \in Int /\ t >= p
    BY <2>1, <2>2 DEF LimitInv, Kept, Limiter!NumbersValid
  <2>4. PICK d \in Nat : d = Limiter!Positive(t - l) /\ d >= c
    <3>1. t - l \in Int /\ t - l >= c /\ c \in Int
      BY <2>3
    <3>2. Limiter!Positive(t - l) \in Nat /\ Limiter!Positive(t - l) >= c
      BY ONLY <3>1 DEF Limiter!Positive
    <3>3. QED
      BY <3>2
  <2>5. d * r >= c * r /\ d * r \in Nat
    BY <2>4, Products
  <2>6. Limiter!Refilled(b, k, t) = Limiter!Smaller(Limiter!Capacity(k), v + d * r)
    BY <2>1, <2>2, <2>4 DEF Limiter!Refilled
  <2>7. QED
    BY <2>2, <2>5, <2>6, Amounts DEF Limiter!Allowed, Limiter!Smaller
<1>2. QED
  BY <1>1, LimitInitially, LimitInductive, PTL DEF Limiter!Spec
=============================================================================
