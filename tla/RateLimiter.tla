---------------------------- MODULE RateLimiter ----------------------------
(***************************************************************************)
(* The token-bucket rate limiter of libs/common/src/rate_limit: the        *)
(* middleware that chooses a bucket for a request, the Lua script that     *)
(* Redis runs on the bucket every process shares, and the buckets each     *)
(* process falls back on when Redis does not answer.                       *)
(*                                                                         *)
(* Time advances in ticks, MINUTE of them to a minute, and tokens are      *)
(* counted in MINUTEths of a token, so that a bucket gains Rate[k] of them *)
(* per tick and all amounts are whole.  Every process and Redis share one  *)
(* clock here: what goes wrong goes wrong without skew between hosts.      *)
(***************************************************************************)
EXTENDS Integers, FiniteSets

CONSTANTS Requests,     \* requests that may be in the middleware
          Nodes,        \* processes, each with its fallback buckets
          Redis,        \* the shared backend
          Keys,         \* bucket keys: servers and users
          None,
          ServerOf,     \* the server of a request, or None
          UserOf,       \* its user, or None
          Rate,         \* rate_per_min of a key's bucket
          MINUTE,       \* ticks per minute
          EXPIRY_MARGIN,\* the 10 seconds added to the key's lifetime
          MAX_TIME      \* bound on the clock

NamesValid ==
  /\ Redis \notin Nodes /\ None \notin Keys \cup Nat
  /\ ServerOf \in [Requests -> Keys \cup {None}]
  /\ UserOf \in [Requests -> Keys \cup {None}]
  /\ \A r \in Requests : ServerOf[r] # None \/ UserOf[r] # None
NumbersValid ==
  /\ Rate \in [Keys -> Nat \ {0}]
  /\ MINUTE \in Nat \ {0} /\ MINUTE % 2 = 0
  /\ EXPIRY_MARGIN \in Nat /\ MAX_TIME \in Nat
ASSUME LimiterAssumption == NamesValid /\ NumbersValid

VARIABLES now,
          pc,           \* where a request is
          at,           \* the now_ms it has read
          tokens,       \* per backend and key: the bucket, None if there is none
          last,         \* per backend and key: when it was last refilled
          touched,      \* when Redis last ran the script on a key
          allowance,    \* history: what the clock has earned a key, less what was allowed
          promise       \* history: when the last refusal said a token would be
                        \* there, if nobody was allowed since

vars == <<now, pc, at, tokens, last, touched, allowance, promise>>
bucketVars == <<tokens, last, touched, allowance, promise>>

Backends == {Redis} \cup Nodes
Capacity(k) == (3 * Rate[k] * MINUTE) \div 2
Initial(k) == Rate[k] * MINUTE
Token == MINUTE

TypeOK ==
  /\ now \in 0..MAX_TIME
  /\ pc \in [Requests -> {"idle", "stamped", "fallback"}]
  /\ at \in [Requests -> 0..MAX_TIME]
  /\ \A b \in Backends, k \in Keys : tokens[b][k] \in 0..Capacity(k) \cup {None}
  /\ last \in [Backends -> [Keys -> 0..MAX_TIME]]
  /\ touched \in [Keys -> 0..MAX_TIME]
  /\ allowance \in [Backends -> [Keys -> Int]]
  /\ promise \in [Backends -> [Keys -> Nat \cup {None}]]

Init ==
  /\ now = 0
  /\ pc = [r \in Requests |-> "idle"]
  /\ at = [r \in Requests |-> 0]
  /\ tokens = [b \in Backends |-> [k \in Keys |-> None]]
  /\ last = [b \in Backends |-> [k \in Keys |-> 0]]
  /\ touched = [k \in Keys |-> 0]
  /\ allowance = [b \in Backends |-> [k \in Keys |-> Initial(k)]]
  /\ promise = [b \in Backends |-> [k \in Keys |-> None]]

---------------------------------------------------------------------------
(* The bucket *)

Ceil(a, b) == (a + b - 1) \div b
Smaller(a, b) == IF a <= b THEN a ELSE b
Positive(a) == IF a > 0 THEN a ELSE 0

(* The bucket of key k at time t, before a token is taken.                 *)
RefilledTwice(b, k, t) ==
  IF tokens[b][k] = None
    THEN Initial(k)
    ELSE Smaller(Capacity(k), tokens[b][k] + 2 * Positive(t - last[b][k]) * Rate[k])

Refilled(b, k, t) ==
  IF tokens[b][k] = None
    THEN Initial(k)
    ELSE Smaller(Capacity(k), tokens[b][k] + Positive(t - last[b][k]) * Rate[k])

(* reset_secs of a refusal.                                                *)
ResetSecs(k, have) == Ceil(Token - have, Rate[k])

RetryAfterRoundedDown(k, have) == (Token - have) \div Rate[k]
(* build_429: the Retry-After of a refusal is at least a second.           *)
RetryAfter(k, have) == IF ResetSecs(k, have) > 1 THEN ResetSecs(k, have) ELSE 1

(* Backend b checks a request on key k with time t: refill, take a token   *)
(* if there is one, keep the bucket and the time.  The credit is what the  *)
(* clock has not earned but the script counts.                             *)
Take(b, k, t, credit) ==
  LET have    == Refilled(b, k, t)
      allowed == have >= Token
  IN  /\ tokens' = [tokens EXCEPT ![b][k] = IF allowed THEN have - Token ELSE have]
      /\ last' = [last EXCEPT ![b][k] = t]
      /\ allowance' = [allowance EXCEPT ![b][k] = @ + credit - IF allowed THEN Token ELSE 0]
      /\ promise' = [promise EXCEPT ![b][k] =
                       IF allowed THEN None ELSE t + RetryAfter(k, have)]

Allowed(b, k, t) == Refilled(b, k, t) >= Token

---------------------------------------------------------------------------
(* rate_limit_middleware and check() *)

(* The per-server bucket if the request has a server, else the per-user.   *)
KeyOf(r) == IF ServerOf[r] # None THEN ServerOf[r] ELSE UserOf[r]

(* try_redis gets a connection and reads the clock ...                     *)
Stamp(r) ==
  /\ pc[r] = "idle"
  /\ pc' = [pc EXCEPT ![r] = "stamped"]
  /\ at' = [at EXCEPT ![r] = now]
  /\ UNCHANGED <<now, bucketVars>>

(* ... or gets none.                                                       *)
NoRedis(r) ==
  /\ pc[r] = "idle"
  /\ pc' = [pc EXCEPT ![r] = "fallback"]
  /\ UNCHANGED <<now, at, bucketVars>>

(* The script runs, with EVALSHA or EVAL.  Its reply arrives, or is lost   *)
(* with the connection.                                                    *)
TwiceCredited(k, t) ==
  IF tokens[Redis][k] = None THEN now - t ELSE Positive(last[Redis][k] - t)

RunScript(r) ==
  /\ pc[r] = "stamped"
  /\ Take(Redis, KeyOf(r), at[r], Rate[KeyOf(r)] * TwiceCredited(KeyOf(r), at[r]))
  /\ touched' = [touched EXCEPT ![KeyOf(r)] = now]
  /\ pc' \in {[pc EXCEPT ![r] = "idle"], [pc EXCEPT ![r] = "fallback"]}
  /\ at' = [at EXCEPT ![r] = 0]
  /\ UNCHANGED now

RedisFails(r) ==
  /\ pc[r] = "stamped"
  /\ pc' = [pc EXCEPT ![r] = "fallback"]
  /\ at' = [at EXCEPT ![r] = 0]
  /\ UNCHANGED <<now, bucketVars>>

(* check_in_process reads the clock under the lock.                        *)
CheckInProcess(r, n) ==
  /\ pc[r] = "fallback"
  /\ pc' = [pc EXCEPT ![r] = "idle"]
  /\ Take(n, KeyOf(r), now, 0)
  /\ UNCHANGED <<now, at, touched>>

---------------------------------------------------------------------------
(* EXPIRE: Redis forgets a bucket the script has not touched for so long.  *)

LifetimeShort(k) == Ceil(Initial(k), 2 * Rate[k])
Lifetime(k) == Ceil(Capacity(k), Rate[k]) + EXPIRY_MARGIN

Expire(k) ==
  /\ tokens[Redis][k] # None
  /\ now - touched[k] >= Lifetime(k)
  /\ tokens' = [tokens EXCEPT ![Redis][k] = None]
  /\ promise' = [promise EXCEPT ![Redis][k] = None]
  /\ UNCHANGED <<now, pc, at, last, touched, allowance>>

(* A key past its lifetime is gone before the clock moves on.              *)
Tick ==
  /\ now < MAX_TIME
  /\ \A k \in Keys : tokens[Redis][k] # None => now - touched[k] < Lifetime(k)
  /\ now' = now + 1
  /\ allowance' = [b \in Backends |-> [k \in Keys |-> allowance[b][k] + Rate[k]]]
  /\ UNCHANGED <<pc, at, tokens, last, touched, promise>>

Check(r) == Stamp(r) \/ NoRedis(r) \/ RunScript(r) \/ RedisFails(r)
              \/ \E n \in Nodes : CheckInProcess(r, n)

Next == (\E r \in Requests : Check(r)) \/ (\E k \in Keys : Expire(k)) \/ Tick

Spec == Init /\ [][Next]_vars

---------------------------------------------------------------------------
(* Properties *)

(* Whatever the interleaving of clock readings, scripts, lost replies and  *)
(* expiries, Redis allows no more requests on a key than its initial       *)
(* tokens and its rate, plus what it credits twice because a script runs   *)
(* with a time read before an earlier one's.  In particular a bucket that  *)
(* expires has earned the tokens it starts again with.                     *)
RedisBoundedByClock == \A k \in Keys : allowance[Redis][k] >= 0

(* A process on its own allows no more than the rate, without exception:   *)
(* its clock is read where the bucket is locked.                           *)
FallbackBoundedByClock == \A n \in Nodes, k \in Keys : allowance[n][k] >= 0

(* Retry-After is kept: a refusal names a time, and if the bucket allows   *)
(* nobody else in between, a check at that time or later is not refused.   *)
RetryAfterKept ==
  \A b \in Backends, k \in Keys :
    promise[b][k] # None => \A t \in promise[b][k]..MAX_TIME : Allowed(b, k, t)
=============================================================================
