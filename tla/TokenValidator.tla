--------------------------- MODULE TokenValidator ---------------------------
(***************************************************************************)
(* Bearer-token authentication in the gateway (services/gateway/src/       *)
(* auth.rs): the Argon2 semaphore, the 30-second validation cache, and the *)
(* requests that share them while hot reload rotates the token hashes.     *)
(* A hash is modelled by the token it was computed from: verify_argon2     *)
(* compares the two.  Rows reach the gateway only with status 'active'     *)
(* (cache.rs, hot_reload.rs), so check_suspended always returns Ok here.   *)
(***************************************************************************)
EXTENDS Integers, Sequences, FiniteSets, Functions

CONSTANTS Requests,     \* concurrent calls of validate_request
          Servers,      \* server ids
          Tokens,       \* raw bearer tokens
          NoToken,      \* token_hash = NULL, or a missing/malformed header
          PERMITS,      \* capacity of argon2_semaphore
          TTL,          \* CACHE_TTL_SECS, in ticks
          MAX_ROTATIONS,\* bound: hash changes per server
          MAX_ORPHANS   \* bound: Argon2 tasks whose request was dropped

ASSUME BoundsAssumption ==
    /\ PERMITS \in Nat \ {0}
    /\ TTL \in Nat \ {0}
    /\ MAX_ROTATIONS \in Nat
    /\ MAX_ORPHANS \in Nat
    /\ NoToken \notin Tokens

ASSUME RequestsAssumption == IsFiniteSet(Requests)

VARIABLES hash,        \* hash[s]: token_hash of s in the config cache
          rotations,   \* rotations[s]: how often hash[s] has changed
          verdict,     \* validation_cache: verdict[<<s, t>>], or "absent"
          age,         \* ticks since that entry was inserted
          basis,       \* history: rotations[s] when the verdict's config was read
          permits,     \* free permits of argon2_semaphore
          queue,       \* requests waiting for a permit, in order
          orphans,     \* Argon2 tasks still running for a dropped request
          pc,          \* where each request is
          req,         \* its server, its token, and its config snapshot
          answer       \* its last answer

vars == <<hash, rotations, verdict, age, basis, permits, queue, orphans,
          pc, req, answer>>

cacheVars == <<verdict, age, basis>>
semVars == <<permits, queue>>

Keys == Servers \X Tokens
Holding == {"granted", "verify", "matched", "mismatched"}

TypeOK ==
    /\ hash \in [Servers -> Tokens \cup {NoToken}]
    /\ rotations \in [Servers -> 0 .. MAX_ROTATIONS]
    /\ verdict \in [Keys -> {"absent", "valid", "invalid"}]
    /\ age \in [Keys -> 0 .. TTL - 1]
    /\ basis \in [Keys -> 0 .. MAX_ROTATIONS]
    /\ permits \in 0 .. PERMITS
    /\ IsInjective(queue) /\ Range(queue) \subseteq Requests
    /\ orphans \in 0 .. MAX_ORPHANS
    /\ pc \in [Requests -> {"idle", "lookup", "queued"} \cup Holding]
    /\ req \in [Requests -> [server : Servers, token : Tokens \cup {NoToken},
                             hash : Tokens \cup {NoToken}, at : 0 .. MAX_ROTATIONS]]
    /\ answer \in [Requests -> {"none", "ok", "unauthorized"}]

Init ==
    /\ hash \in [Servers -> Tokens \cup {NoToken}]
    /\ rotations = [s \in Servers |-> 0]
    /\ verdict = [k \in Keys |-> "absent"]
    /\ age = [k \in Keys |-> 0]
    /\ basis = [k \in Keys |-> 0]
    /\ permits = PERMITS
    /\ queue = <<>>
    /\ orphans = 0
    /\ pc = [r \in Requests |-> "idle"]
    /\ req = [r \in Requests |-> [server |-> CHOOSE s \in Servers : TRUE,
                                  token |-> NoToken, hash |-> NoToken, at |-> 0]]
    /\ answer = [r \in Requests |-> "none"]

-----------------------------------------------------------------------------
(* The cache key of a request.                                             *)
CacheKeyByToken(r) == <<CHOOSE s \in Servers : TRUE, req[r].token>>
CacheKey(r) == <<req[r].server, req[r].token>>

Answer(r, a) ==
    /\ answer' = [answer EXCEPT ![r] = a]
    /\ pc' = [pc EXCEPT ![r] = "idle"]

(* The handler resolves the slug to a config snapshot and calls            *)
(* validate_request; the header carries a token or is refused at once.     *)
Arrive(r, s, t) ==
    /\ pc[r] = "idle"
    /\ req' = [req EXCEPT ![r] = [server |-> s, token |-> t, hash |-> hash[s],
                                  at |-> rotations[s]]]
    /\ IF t = NoToken
         THEN Answer(r, "unauthorized")
         ELSE /\ pc' = [pc EXCEPT ![r] = "lookup"]
              /\ answer' = [answer EXCEPT ![r] = "none"]
    /\ UNCHANGED <<hash, rotations, cacheVars, semVars, orphans>>

(* An insert replaces the entry and restarts its time to live.             *)
Insert(r, v) ==
    /\ verdict' = [verdict EXCEPT ![CacheKey(r)] = v]
    /\ age' = [age EXCEPT ![CacheKey(r)] = 0]
    /\ basis' = [basis EXCEPT ![CacheKey(r)] = req[r].at]

(* A cached verdict answers without hashing.                               *)
CacheHitTouching(r) ==
    /\ pc[r] = "lookup"
    /\ verdict[CacheKey(r)] # "absent"
    /\ Answer(r, IF verdict[CacheKey(r)] = "valid" THEN "ok" ELSE "unauthorized")
    /\ age' = [age EXCEPT ![CacheKey(r)] = 0]
    /\ UNCHANGED <<hash, rotations, verdict, basis, semVars, orphans, req>>

CacheHit(r) ==
    /\ pc[r] = "lookup"
    /\ verdict[CacheKey(r)] # "absent"
    /\ Answer(r, IF verdict[CacheKey(r)] = "valid" THEN "ok" ELSE "unauthorized")
    /\ UNCHANGED <<hash, rotations, cacheVars, semVars, orphans, req>>

(* No hash configured: refused, and the refusal is cached.                 *)
NoHashConfigured(r) ==
    /\ pc[r] = "lookup"
    /\ verdict[CacheKey(r)] = "absent"
    /\ req[r].hash = NoToken
    /\ Insert(r, "invalid")
    /\ Answer(r, "unauthorized")
    /\ UNCHANGED <<hash, rotations, semVars, orphans, req>>

(* Otherwise the request takes a permit or joins the semaphore's queue.    *)
Acquire(r) ==
    /\ pc[r] = "lookup"
    /\ verdict[CacheKey(r)] = "absent"
    /\ req[r].hash # NoToken
    /\ IF permits > 0
         THEN /\ permits' = permits - 1
              /\ pc' = [pc EXCEPT ![r] = "granted"]
              /\ UNCHANGED queue
         ELSE /\ queue' = Append(queue, r)
              /\ pc' = [pc EXCEPT ![r] = "queued"]
              /\ UNCHANGED permits
    /\ UNCHANGED <<hash, rotations, cacheVars, orphans, req, answer>>

(* spawn_blocking starts the Argon2 verification ...                       *)
Spawn(r) ==
    /\ pc[r] = "granted"
    /\ pc' = [pc EXCEPT ![r] = "verify"]
    /\ UNCHANGED <<hash, rotations, cacheVars, semVars, orphans, req, answer>>

(* ... which compares the token with the hash of the snapshot.             *)
Verify(r) ==
    /\ pc[r] = "verify"
    /\ pc' = [pc EXCEPT ![r] =
                IF req[r].token = req[r].hash THEN "matched" ELSE "mismatched"]
    /\ UNCHANGED <<hash, rotations, cacheVars, semVars, orphans, req, answer>>

(* Dropping a permit hands it to the head of the queue, if there is one.   *)
DropPermitUnlessQueued(r, to) ==
    IF queue = <<>>
      THEN /\ permits' = permits + 1
           /\ pc' = [pc EXCEPT ![r] = to]
           /\ UNCHANGED queue
      ELSE /\ pc' = [pc EXCEPT ![r] = to]
           /\ UNCHANGED <<permits, queue>>

DropPermit(r, to) ==
    IF queue = <<>>
      THEN /\ permits' = permits + 1
           /\ pc' = [pc EXCEPT ![r] = to]
           /\ UNCHANGED queue
      ELSE /\ queue' = Tail(queue)
           /\ pc' = [pc EXCEPT ![r] = to, ![Head(queue)] = "granted"]
           /\ UNCHANGED permits

(* The task's result is cached and answered; the permit drops on return.   *)
Resume(r) ==
    /\ pc[r] \in {"matched", "mismatched"}
    /\ Insert(r, IF pc[r] = "matched" THEN "valid" ELSE "invalid")
    /\ answer' = [answer EXCEPT ![r] =
                    IF pc[r] = "matched" THEN "ok" ELSE "unauthorized"]
    /\ DropPermit(r, "idle")
    /\ UNCHANGED <<hash, rotations, orphans, req>>

(* A waiter whose future is dropped leaves its place in the queue.         *)
WithoutAt(q, i) == SubSeq(q, 1, i - 1) \o SubSeq(q, i + 1, Len(q))

(* The client disconnects and the handler's future is dropped.  A blocking *)
(* task that was spawned keeps running; the permit does not wait for it.   *)
Cancel(r) ==
    /\ \/ /\ pc[r] = "queued"
          /\ \E i \in DOMAIN queue : queue[i] = r /\ queue' = WithoutAt(queue, i)
          /\ pc' = [pc EXCEPT ![r] = "idle"]
          /\ UNCHANGED <<permits, orphans>>
       \/ /\ pc[r] \in Holding
          /\ pc[r] = "verify" => orphans < MAX_ORPHANS
          /\ orphans' = IF pc[r] = "verify" THEN orphans + 1 ELSE orphans
          /\ DropPermit(r, "idle")
    /\ answer' = [answer EXCEPT ![r] = "none"]
    /\ UNCHANGED <<hash, rotations, cacheVars, req>>

OrphanEnds ==
    /\ orphans > 0
    /\ orphans' = orphans - 1
    /\ UNCHANGED <<hash, rotations, cacheVars, semVars, pc, req, answer>>

(* Hot reload replaces the server's config, and with it the token hash.    *)
Rotate(s, t) ==
    /\ rotations[s] < MAX_ROTATIONS
    /\ t # hash[s]
    /\ hash' = [hash EXCEPT ![s] = t]
    /\ rotations' = [rotations EXCEPT ![s] = @ + 1]
    /\ UNCHANGED <<cacheVars, semVars, orphans, pc, req, answer>>

(* Time passes: entries age and, after CACHE_TTL_SECS, expire.             *)
Tick ==
    LET expired == {k \in Keys : verdict[k] # "absent" /\ age[k] + 1 = TTL}
    IN /\ \E k \in Keys : verdict[k] # "absent"
       /\ verdict' = [k \in Keys |-> IF k \in expired THEN "absent" ELSE verdict[k]]
       /\ age' = [k \in Keys |->
                    IF k \in expired \/ verdict[k] = "absent" THEN 0 ELSE age[k] + 1]
       /\ basis' = [k \in Keys |-> IF k \in expired THEN 0 ELSE basis[k]]
       /\ UNCHANGED <<hash, rotations, semVars, orphans, pc, req, answer>>

Step(r) ==
    CacheHit(r) \/ NoHashConfigured(r) \/ Acquire(r) \/ Spawn(r) \/ Verify(r) \/ Resume(r)

Next ==
    \/ \E r \in Requests : \/ \E s \in Servers, t \in Tokens \cup {NoToken} : Arrive(r, s, t)
                           \/ Step(r)
                           \/ Cancel(r)
    \/ \E s \in Servers, t \in Tokens \cup {NoToken} : Rotate(s, t)
    \/ OrphanEnds
    \/ Tick

Spec == Init /\ [][Next]_vars

(* Fairness: a woken task is polled, a blocking task finishes, time runs.  *)
Fairness ==
    /\ \A r \in Requests : WF_vars(Step(r))
    /\ WF_vars(Tick)

FairSpec == Spec /\ Fairness

-----------------------------------------------------------------------------
(* Every permit is either free or held by exactly one live request, and no *)
(* permit is free while a request queues for one: dropping a request at    *)
(* any await (auth.rs:171-182) neither leaks nor duplicates a permit.      *)
PermitsAccounted ==
    /\ permits + Cardinality({r \in Requests : pc[r] \in Holding}) = PERMITS
    /\ Range(queue) = {r \in Requests : pc[r] = "queued"}
    /\ queue # <<>> => permits = 0

(* A cached verdict about a server's token is wrong only if that server's  *)
(* hash changed after the config was read that the verdict was computed    *)
(* from (auth.rs:151-185): no request can poison another server's entries. *)
WrongOnlyIfRotated ==
    \A s \in Servers, t \in Tokens :
        (verdict[<<s, t>>] # "absent" /\ basis[<<s, t>>] = rotations[s])
            => (verdict[<<s, t>>] = "valid" <=> hash[s] = t)

(* Once rotations stop, the cache comes to agree with the configured       *)
(* hashes for good, whatever requests keep reading it (auth.rs:117-120).   *)
StaleVerdictsExpire ==
    <>[](\A s \in Servers, t \in Tokens :
            verdict[<<s, t>>] # "absent" => (verdict[<<s, t>>] = "valid" <=> hash[s] = t))

(* A request that queues for an Argon2 permit is answered or dropped       *)
(* (auth.rs:171-175).                                                      *)
QueuedServed == \A r \in Requests : pc[r] = "queued" ~> pc[r] = "idle"

(* docs/stories/EPIC_02_GATEWAY_CORE.md:462, of a rotated token: "The old  *)
(* token becomes invalid immediately (no grace period)."  A request whose  *)
(* config snapshot no longer holds its token is refused.                   *)
RotatedTokenRefused ==
    \A r \in Requests : answer[r] = "ok" => req[r].token = req[r].hash

(* auth.rs:17: the semaphore "limits concurrent Argon2 operations to       *)
(* `available_parallelism() x 2`".                                         *)
ArgonBounded ==
    Cardinality({r \in Requests : pc[r] = "verify"}) + orphans <= PERMITS
=============================================================================
