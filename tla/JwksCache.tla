------------------------------ MODULE JwksCache ------------------------------
(***************************************************************************)
(* The platform API's cache of Clerk's signing keys and the part of the    *)
(* JWT middleware that uses it (services/api/src/auth.rs).  The read lock  *)
(* of get_key is released before the HTTP fetch, and the write of refresh  *)
(* is a separate critical section, so the fetches of several requests      *)
(* overlap and their responses are installed in any order.                 *)
(*                                                                         *)
(* The key endpoint is Clerk's: it publishes keys, retires them and never  *)
(* publishes a retired key again.                                          *)
(***************************************************************************)
EXTENDS Naturals, FiniteSets

CONSTANTS
    Requests,   \* requests being authenticated at the same time
    Kids,       \* key ids
    JWKS_TTL    \* lifetime of a cached key set, in ticks of the model's clock

VARIABLES
    published,  \* keys the endpoint serves now
    retired,    \* keys it served once and no longer does
    cache,      \* the cached set: present, its keys and the time since the fetch
    pc,         \* where each request is
    kid,        \* the key id in its token's header
    response,   \* the key set the endpoint sent it, not yet installed
    known,      \* history: its key has been published since it arrived
    overtaken   \* history: another response was installed after its own

vars == <<published, retired, cache, pc, kid, response, known, overtaken>>

Cache == [present : BOOLEAN, keys : SUBSET Kids, age : 0 .. JWKS_TTL]

Results == {"ok", "refused", "fetch_failed", "token_expired", "invalid"}

(***************************************************************************)
(* The type of the state.                                                  *)
(***************************************************************************)
TypeOK ==
    /\ published \in SUBSET Kids
    /\ retired \in SUBSET Kids
    /\ cache \in Cache
    /\ pc \in [Requests -> {"new", "lookup", "fetch", "write", "reread", "decode"}
                              \cup Results]
    /\ kid \in [Requests -> Kids]
    /\ response \in [Requests -> SUBSET Kids]
    /\ known \in [Requests -> BOOLEAN]
    /\ overtaken \in [Requests -> BOOLEAN]

Init ==
    /\ \E k \in Kids : published = {k}
    /\ retired = {}
    /\ cache = [present |-> FALSE, keys |-> {}, age |-> 0]
    /\ pc = [r \in Requests |-> "new"]
    /\ kid \in [Requests -> Kids]
    /\ response = [r \in Requests |-> {}]
    /\ known = [r \in Requests |-> FALSE]
    /\ overtaken = [r \in Requests |-> FALSE]

Goto(r, l) == pc' = [pc EXCEPT ![r] = l]

(***************************************************************************)
(* A request arrives.  A missing Bearer token, a malformed header and a    *)
(* header without a kid are refused before the cache is touched.           *)
(***************************************************************************)
Arrive(r) ==
    /\ pc[r] = "new"
    /\ \/ /\ Goto(r, "lookup")
          /\ known' = [known EXCEPT ![r] = kid[r] \in published]
       \/ /\ Goto(r, "invalid")
          /\ UNCHANGED known
    /\ UNCHANGED <<published, retired, cache, kid, response, overtaken>>

Fresh == cache.present /\ cache.age < JWKS_TTL

(***************************************************************************)
(* The keys the fast path of get_key may hand out.                         *)
(***************************************************************************)
ServedFromCache == IF Fresh THEN cache.keys ELSE {}

Lookup(r) ==
    /\ pc[r] = "lookup"
    /\ Goto(r, IF kid[r] \in ServedFromCache THEN "decode" ELSE "fetch")
    /\ UNCHANGED <<published, retired, cache, kid, response, known, overtaken>>

(***************************************************************************)
(* The endpoint answers with the keys it publishes at that moment; the     *)
(* response is installed later, by Install.                                *)
(***************************************************************************)
Fetched(r) ==
    /\ pc[r] = "fetch"
    /\ Goto(r, "write")
    /\ response' = [response EXCEPT ![r] = published]
    /\ UNCHANGED <<published, retired, cache, kid, known, overtaken>>

(***************************************************************************)
(* send, the body or its decoding fails, or the 10 s client timeout fires. *)
(* The middleware answers 401 whatever the error.                          *)
(***************************************************************************)
FetchFails(r) ==
    /\ pc[r] = "fetch"
    /\ Goto(r, "fetch_failed")
    /\ UNCHANGED <<published, retired, cache, kid, response, known, overtaken>>

(***************************************************************************)
(* The end of refresh: under the write lock the whole set is replaced and  *)
(* stamped with the time of the write, not of the fetch.                   *)
(***************************************************************************)
Install(r) ==
    /\ pc[r] = "write"
    /\ Goto(r, "reread")
    /\ cache' = [present |-> TRUE, keys |-> response[r], age |-> 0]
    /\ overtaken' = [q \in Requests |-> IF q = r THEN FALSE
                                        ELSE overtaken[q] \/ pc[q] = "reread"]
    /\ UNCHANGED <<published, retired, kid, response, known>>

(***************************************************************************)
(* get_key reads the cache again, whoever wrote it last, with no TTL test. *)
(***************************************************************************)
Reread(r) ==
    /\ pc[r] = "reread"
    /\ Goto(r, IF kid[r] \in cache.keys THEN "decode" ELSE "refused")
    /\ UNCHANGED <<published, retired, cache, kid, response, known, overtaken>>

(***************************************************************************)
(* Signature, exp, nbf and iss.  The user upsert that follows a valid      *)
(* token is in UserSync.                                                   *)
(***************************************************************************)
Decode(r) ==
    /\ pc[r] = "decode"
    /\ \E verdict \in {"ok", "token_expired", "invalid"} : Goto(r, verdict)
    /\ UNCHANGED <<published, retired, cache, kid, response, known, overtaken>>

(***************************************************************************)
(* Clerk's side: a new key is published, an old one retired.               *)
(***************************************************************************)
Publish ==
    /\ \E k \in Kids \ (published \cup retired) : published' = published \cup {k}
    /\ UNCHANGED <<retired, cache, pc, kid, response, known, overtaken>>

Retire ==
    /\ \E k \in published :
          /\ published # {k}
          /\ published' = published \ {k}
          /\ retired' = retired \cup {k}
          /\ known' = [r \in Requests |-> known[r] /\ kid[r] # k]
    /\ UNCHANGED <<cache, pc, kid, response, overtaken>>

(***************************************************************************)
(* Time passes; ages beyond the TTL are not told apart.                    *)
(***************************************************************************)
Tick ==
    /\ Fresh
    /\ cache' = [cache EXCEPT !.age = @ + 1]
    /\ UNCHANGED <<published, retired, pc, kid, response, known, overtaken>>

(***************************************************************************)
(* A finished request's slot serves another one.                           *)
(***************************************************************************)
NextRequest(r) ==
    /\ pc[r] \in Results
    /\ Goto(r, "new")
    /\ \E k \in Kids : kid' = [kid EXCEPT ![r] = k]
    /\ known' = [known EXCEPT ![r] = FALSE]
    /\ response' = [response EXCEPT ![r] = {}]
    /\ overtaken' = [overtaken EXCEPT ![r] = FALSE]
    /\ UNCHANGED <<published, retired, cache>>

GetKey(r) ==
    Lookup(r) \/ Fetched(r) \/ FetchFails(r) \/ Install(r) \/ Reread(r) \/ Decode(r)

Next ==
    \/ \E r \in Requests : Arrive(r) \/ GetKey(r) \/ NextRequest(r)
    \/ Publish
    \/ Retire
    \/ Tick

Spec == Init /\ [][Next]_vars

-----------------------------------------------------------------------------

(***************************************************************************)
(* A request whose key the endpoint has published ever since it arrived,   *)
(* and whose own fetch succeeded, is refused for an unknown key only when  *)
(* another request installed its response between this one's write and    *)
(* re-read.                                                                *)
(***************************************************************************)
RefusedOnlyIfOvertaken ==
    \A r \in Requests : pc[r] = "refused" /\ known[r] => overtaken[r]

(***************************************************************************)
(* "On an unknown `kid`, the cache is refreshed immediately to handle key  *)
(* rotations" (auth.rs:60-61): such a request is never refused.            *)
(***************************************************************************)
RotationHandled == \A r \in Requests : pc[r] = "refused" => ~known[r]

=============================================================================
