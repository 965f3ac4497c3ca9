------------------------ MODULE CredentialInjection -------------------------
(***************************************************************************)
(* POST /inject (services/credential-injector/src/inject.rs), one call     *)
(* from its caller's address to its reply: the checks in the code's order, *)
(* the upstream request, the audit events, and the error every early       *)
(* return turns into (libs/common/src/error.rs).  The handler's awaits     *)
(* separate its steps; at each of them the gateway may give up, and hyper  *)
(* then drops the handler.                                                 *)
(*                                                                         *)
(* Where the stored credential comes from, cache or table, is the subject  *)
(* of CredentialSync.                                                      *)
(***************************************************************************)
EXTENDS OutboundUrl, FiniteSets

CONSTANTS
    Jobs,          \* calls: caller, skeleton, stored credential
    Resolutions,   \* sets of addresses a lookup may return
    Statuses,      \* statuses an upstream may answer with
    Key            \* the injector's crypto_key

VARIABLES
    job,           \* the call
    at,            \* where its handler is
    checked,       \* the addresses phase 2 looked at
    sent,          \* where the upstream request carries the credential
    reply,         \* what the gateway gets
    trail          \* audit events emitted

vars == <<job, at, checked, sent, reply, trail>>

(* A host written as an address parses to one, and a lookup returns some.  *)
HostsValid ==
    /\ \A j \in Jobs : j.url.host.kind \in {"v4", "v6"} => j.url.host \in IpAddr
    /\ \A ips \in Resolutions : ips \subseteq IpAddr

NoReply == [status |-> 0]
NotSent == [in |-> "nowhere"]

-----------------------------------------------------------------------------
(* AppError: status_code() and code().                                     *)

status_code(e) ==
    CASE e \in {"NotFound", "CredentialNotFound", "ToolNotFound"} -> 404
      [] e \in {"Unauthorized", "TokenExpired"} -> 401
      [] e = "Forbidden" -> 403
      [] e \in {"BadRequest", "Validation"} -> 400
      [] e = "InternalServerError" -> 500
      [] e = "Conflict" -> 409
      [] e = "SsrfBlocked" -> 422
      [] e = "RateLimited" -> 429
      [] e \in {"UpstreamError", "UpstreamUnreachable"} -> 502
      [] e = "UpstreamTimeout" -> 504

code(e) ==
    CASE e = "Forbidden" -> "forbidden"
      [] e = "BadRequest" -> "bad_request"
      [] e = "InternalServerError" -> "internal_server_error"
      [] e = "SsrfBlocked" -> "ssrf_blocked"
      [] e = "UpstreamTimeout" -> "upstream_timeout"
      [] e = "UpstreamUnreachable" -> "upstream_unreachable"
      [] e = "CredentialNotFound" -> "credential_not_found"

(* into_response: the message of an internal error is generic.             *)
into_response(e) ==
    [status |-> status_code(e), code |-> code(e), detail |-> e # "InternalServerError"]

(* mcp_crypto: what encrypt() returns starts with the 12 bytes of the IV,  *)
(* and opens only with the key it was made with, unaltered.                *)
IV_LEN == 12
decrypts(blob) == blob.len >= IV_LEN /\ blob.key = Key /\ blob.intact

-----------------------------------------------------------------------------
Init ==
    /\ job \in Jobs
    /\ at = "arrived"
    /\ checked = {}
    /\ sent = NotSent
    /\ reply = NoReply
    /\ trail = << >>

Return(e) == at' = "done" /\ reply' = into_response(e)

(* The caller's address and the shared secret, before anything else.       *)
Admit ==
    /\ at = "arrived"
    /\ IF job.allowed /\ job.secret
         THEN at' = "lookup" /\ UNCHANGED reply
         ELSE Return("Forbidden")
    /\ UNCHANGED <<job, checked, sent, trail>>

(* Building the upstream request: method, UTF-8, then the auth type.       *)
AuthTypes == {"bearer", "api_key_header", "api_key_query", "basic"}

Carried(cred) ==
    CASE cred.auth_type \in {"bearer", "basic"} -> [in |-> "header", name |-> "Authorization"]
      [] cred.auth_type = "api_key_header" ->
           [in |-> "header", name |-> IF cred.key_name = "" THEN "X-Api-Key" ELSE cred.key_name]
      [] cred.auth_type = "api_key_query" ->
           [in |-> "query", name |-> IF cred.key_name = "" THEN "api_key" ELSE cred.key_name]

Send ==
    IF ~job.method
      THEN Return("BadRequest") /\ UNCHANGED sent
    ELSE IF ~job.credential.utf8 \/ job.credential.auth_type \notin AuthTypes
      THEN Return("InternalServerError") /\ UNCHANGED sent
    ELSE at' = "sent" /\ sent' = Carried(job.credential) /\ UNCHANGED reply

(* The lookup returns: the query failed, there is no credential, or the    *)
(* handler goes on, up to the next await, with the credential and the URL. *)
LookupFails ==
    /\ at = "lookup"
    /\ Return("InternalServerError")
    /\ UNCHANGED <<job, checked, sent, trail>>

Lookup ==
    /\ at = "lookup"
    /\ IF ~job.stored
         THEN Return("CredentialNotFound") /\ UNCHANGED sent
       ELSE IF ~decrypts(job.credential.blob)
         THEN Return("InternalServerError") /\ UNCHANGED sent
       ELSE IF ~job.parses
         THEN Return("BadRequest") /\ UNCHANGED sent
       ELSE IF ~validate_url(job.url)
         THEN Return("SsrfBlocked") /\ UNCHANGED sent
       ELSE IF job.url.host.kind = "domain"
         THEN at' = "resolving" /\ UNCHANGED <<reply, sent>>
       ELSE Send
    /\ UNCHANGED <<job, checked, trail>>

ResolvedFirst(ips) ==
    /\ at = "resolving"
    /\ checked' = ips
    /\ IF ips # {} /\ is_blocked_ip(CHOOSE ip \in ips : TRUE)
         THEN Return("SsrfBlocked") /\ UNCHANGED sent
         ELSE Send
    /\ UNCHANGED <<job, trail>>

(* Phase 2: every address the resolver returned.                           *)
Resolved(ips) ==
    /\ at = "resolving"
    /\ checked' = ips
    /\ IF \E ip \in ips : is_blocked_ip(ip)
         THEN Return("SsrfBlocked") /\ UNCHANGED sent
         ELSE Send
    /\ UNCHANGED <<job, trail>>

(* The lookup fails or takes longer than MCP_SSRF_DNS_TIMEOUT_SECS.        *)
ResolveFails ==
    /\ at = "resolving"
    /\ Return("UpstreamUnreachable")
    /\ UNCHANGED <<job, checked, sent, trail>>

Event(action, success, error) == [action |-> action, success |-> success, error |-> error]

SendFailsSilently(e) ==
    /\ at = "sent"
    /\ Return(e)
    /\ UNCHANGED <<job, checked, sent, trail>>

(* send() fails: the client's timeout, or anything else.                   *)
SendFails(e) ==
    /\ at = "sent"
    /\ trail' = Append(trail, Event("CredentialAccessFailure", FALSE, code(e)))
    /\ Return(e)
    /\ UNCHANGED <<job, checked, sent>>

(* The status line and the headers are there; the body is awaited next.    *)
Answered(s) ==
    /\ at = "sent"
    /\ at' = "body"
    /\ reply' = [status |-> 200, upstream |-> s, json |-> FALSE]
    /\ UNCHANGED <<job, checked, sent, trail>>

(* A body that is not JSON, or breaks off, counts as null.                 *)
Proxied(json) ==
    /\ at = "body"
    /\ at' = "done"
    /\ reply' = [reply EXCEPT !.json = json]
    /\ trail' = Append(trail, Event("CredentialAccess", TRUE, ""))
    /\ UNCHANGED <<job, checked, sent>>

(* The gateway gives up waiting (IPC_TIMEOUT_SECS).                        *)
Dropped ==
    /\ at \in {"lookup", "resolving", "sent", "body"}
    /\ at' = "dropped"
    /\ reply' = NoReply
    /\ UNCHANGED <<job, checked, sent, trail>>

Next ==
    \/ Admit \/ Lookup \/ LookupFails \/ ResolveFails \/ Dropped
    \/ \E ips \in Resolutions : Resolved(ips)
    \/ \E e \in {"UpstreamTimeout", "UpstreamUnreachable"} : SendFails(e)
    \/ \E s \in Statuses : Answered(s)
    \/ \E json \in BOOLEAN : Proxied(json)

Spec == Init /\ [][Next]_vars

-----------------------------------------------------------------------------
(* The addresses the decision was about.                                   *)
Addresses == IF job.url.host.kind \in {"v4", "v6"} THEN {job.url.host} ELSE checked

(* The prefix comparisons block exactly the ranges the comments beside     *)
(* them name, to the last address: a request goes out only when no address *)
(* of its host, as written or as resolved, lies in one of the ranges, and  *)
(* a request refused over its addresses has one that does (ssrf.rs:52-111, *)
(* 249-259).                                                               *)
BlocksExactlyReserved ==
    /\ sent # NotSent => \A ip \in Addresses : ~Reserved(ip)
    /\ reply # NoReply /\ reply.status = 422 /\ Addresses # {} =>
         \/ \E ip \in Addresses : Reserved(ip)
         \/ job.url.scheme \notin {"http", "https"}
         \/ job.url.port \in BLOCKED_PORTS

(* Every use of a credential is on record: a call that ended after its     *)
(* request went out has left exactly one audit event, a success if and     *)
(* only if the upstream's answer was passed on; one that was refused       *)
(* before has left none (inject.rs:209-277).                               *)
EveryUseAudited ==
    at = "done" =>
        IF sent = NotSent THEN trail = << >>
        ELSE Len(trail) = 1 /\ (trail[1].success <=> reply.status = 200)

(* inject.rs:10-12: after the request, "emit `CredentialAccess` audit      *)
(* event": whatever becomes of the handler, a request that went out and    *)
(* is no longer awaited is on record.                                      *)
NoUseUnaudited == sent # NotSent /\ at \in {"done", "dropped"} => trail # << >>
=============================================================================
