---------------------------- MODULE McpTransport ----------------------------
(***************************************************************************)
(* One POST /mcp/:slug from end to end (services/gateway/src/transport.rs, *)
(* router.rs, protocol/jsonrpc.rs, SchemaCache of tool_schema.rs): the     *)
(* shutdown check, slug resolution, authentication, the connection guard,  *)
(* parsing, the dispatch of each item, and the JSON or SSE response, while *)
(* hot reload replaces the config and clients disconnect.  A config is     *)
(* represented by its config_version; 0 is no config.  Token validation,   *)
(* the connection tracker and the executor have modules of their own and   *)
(* appear here as one step each.                                           *)
(***************************************************************************)
EXTENDS Integers, Sequences, FiniteSets, Functions

CONSTANTS Requests,        \* concurrent POSTs
          Bodies,          \* request bodies: [batch |-> BOOLEAN, items |-> Seq(Items)]
          LIMIT,           \* max_connections of the server
          MAX_VERSION,     \* bound: config updates
          MAX_DISCONNECTS  \* bound: clients that go away

LimitsValid ==
    LIMIT \in Nat \ {0} /\ MAX_VERSION \in Nat \ {0} /\ MAX_DISCONNECTS \in Nat

(* What parse_single tells apart: a method, and whether the id is null.    *)
(* "bad" is any item that fails validation; "quick" is initialize or ping. *)
Items == [method : {"initialized", "quick", "list", "call", "bad"}, null : BOOLEAN]

BodiesValid ==
    Bodies # {} /\ Bodies \subseteq [batch : BOOLEAN, items : Seq(Items)]

ASSUME TransportAssumption == LimitsValid /\ BodiesValid

VARIABLES flag,         \* is_shutting_down
          version,      \* config_version of the slug's cached config, 0 if absent
          latest,       \* last config_version the database issued
          schemas,      \* schemas[v]: version of the tools cached under key v, or 0
          open,         \* live ConnectionGuards
          unlogged,     \* history: upstream calls started and not logged
          gone,         \* clients that disconnected
          pc,           \* where each request is
          body,         \* the parsed body of each request
          sse,          \* whether it accepts text/event-stream
          done,         \* items dispatched so far
          out           \* responses produced so far

vars == <<flag, version, latest, schemas, open, unlogged, gone,
          pc, body, sse, done, out>>

config == <<flag, version, latest>>
message == <<body, sse, done, out>>

Serving == {"items", "call", "stream"}

(* Of a request that is not there; any would do.                           *)
NoBody == CHOOSE b \in Bodies : TRUE

(* A response: the item it answers, the config version the router resolved *)
(* and the version whose tools a tools/list shows.                         *)
Responses == [item : 1 .. 2, resolved : 0 .. MAX_VERSION, shown : 0 .. MAX_VERSION]

TypeOK ==
    /\ flag \in BOOLEAN
    /\ version \in 0 .. latest
    /\ latest \in 1 .. MAX_VERSION
    /\ schemas \in [1 .. MAX_VERSION -> 0 .. MAX_VERSION]
    /\ open \in 0 .. LIMIT
    /\ unlogged \in 0 .. MAX_DISCONNECTS + Cardinality(Requests)
    /\ gone \in 0 .. MAX_DISCONNECTS
    /\ pc \in [Requests -> {"idle", "auth", "authorized"} \cup Serving]
    /\ body \in [Requests -> Bodies]
    /\ sse \in [Requests -> BOOLEAN]
    /\ \A r \in Requests : done[r] \in 0 .. Len(body[r].items)
    /\ \A r \in Requests : Range(out[r]) \subseteq Responses

Init ==
    /\ flag = FALSE
    /\ version = 1
    /\ latest = 1
    /\ schemas = [v \in 1 .. MAX_VERSION |-> 0]
    /\ open = 0
    /\ unlogged = 0
    /\ gone = 0
    /\ pc = [r \in Requests |-> "idle"]
    /\ body = [r \in Requests |-> NoBody]
    /\ sse = [r \in Requests |-> FALSE]
    /\ done = [r \in Requests |-> 0]
    /\ out = [r \in Requests |-> <<>>]

-----------------------------------------------------------------------------
(* The response, an error or the end of the handler's future: nothing of   *)
(* the request remains.                                                    *)
Finish(r) ==
    /\ pc' = [pc EXCEPT ![r] = "idle"]
    /\ body' = [body EXCEPT ![r] = NoBody]
    /\ sse' = [sse EXCEPT ![r] = FALSE]
    /\ done' = [done EXCEPT ![r] = 0]
    /\ out' = [out EXCEPT ![r] = <<>>]

(* Steps 0 to 2 of the handler: go on to validate the token, unless the    *)
(* shutdown flag (503), the content type (415) or the slug (404) refuses.  *)
Arrive(r, b, s) ==
    /\ pc[r] = "idle"
    /\ ~flag
    /\ version # 0
    /\ pc' = [pc EXCEPT ![r] = "auth"]
    /\ body' = [body EXCEPT ![r] = b]
    /\ sse' = [sse EXCEPT ![r] = s]
    /\ UNCHANGED <<config, schemas, open, unlogged, gone, done, out>>

(* Step 3: the validator answers (module TokenValidator).                  *)
Authenticated(r) ==
    /\ pc[r] = "auth"
    /\ \/ Finish(r)                                                  \* 401
       \/ pc' = [pc EXCEPT ![r] = "authorized"] /\ UNCHANGED message
    /\ UNCHANGED <<config, schemas, open, unlogged, gone>>

(* Steps 4 to 6: take a connection guard, then parse the body.             *)
Admit(r) ==
    /\ pc[r] = "authorized"
    /\ IF open < LIMIT
         THEN /\ open' = open + 1
              /\ pc' = [pc EXCEPT ![r] = "items"]
              /\ UNCHANGED message
         ELSE /\ Finish(r)                                               \* 503
              /\ UNCHANGED open
    /\ UNCHANGED <<config, schemas, unlogged, gone>>

Item(r) == body[r].items[done[r] + 1]
Reply(r, resolved, shown) ==
    [item |-> done[r] + 1, resolved |-> resolved, shown |-> shown]

(* parse_single: an item that fails validation is an error, never a        *)
(* notification, whatever its id.                                          *)
IsNotification(item) == item.null /\ item.method # "bad"

(* A batch drops the responses of its notifications; a single message only *)
(* one without result and error, which is what `initialized` yields when   *)
(* the slug still resolves.                                                *)
IsSilent(b, item) ==
    /\ IsNotification(item)
    /\ b.batch \/ (item.method = "initialized" /\ version # 0)

RecordLast(r, reply) ==
    /\ done' = [done EXCEPT ![r] = @ + 1]
    /\ out' = [out EXCEPT ![r] = IF IsSilent(body[r], Item(r)) THEN @ ELSE <<reply>> \o @]

Record(r, reply) ==
    /\ done' = [done EXCEPT ![r] = @ + 1]
    /\ out' = [out EXCEPT ![r] = IF IsSilent(body[r], Item(r)) THEN @ ELSE Append(@, reply)]

(* The router resolves the slug again for every item.                      *)
DispatchQuick(r) ==
    /\ pc[r] = "items"
    /\ done[r] < Len(body[r].items)
    /\ \/ Item(r).method = "bad" /\ Record(r, Reply(r, 0, 0))
       \/ /\ \/ Item(r).method \in {"initialized", "quick"}
             \/ Item(r).method \in {"list", "call"} /\ version = 0
          /\ Record(r, Reply(r, version, 0))
    /\ UNCHANGED <<config, schemas, open, unlogged, gone, pc, body, sse>>

(* SchemaCache::get_or_generate, keyed by server id and config_version.    *)
SchemaKeyById == 1
SchemaKey == version

DispatchList(r) ==
    /\ pc[r] = "items"
    /\ done[r] < Len(body[r].items)
    /\ Item(r).method = "list"
    /\ version # 0
    /\ schemas' = [schemas EXCEPT ![SchemaKey] = IF @ = 0 THEN version ELSE @]
    /\ Record(r, Reply(r, version, schemas'[SchemaKey]))
    /\ UNCHANGED <<config, open, unlogged, gone, pc, body, sse>>

(* tools/call: parameters, tool or arguments are rejected and logged, or   *)
(* the executor is called ...                                              *)
DispatchCall(r) ==
    /\ pc[r] = "items"
    /\ done[r] < Len(body[r].items)
    /\ Item(r).method = "call"
    /\ version # 0
    /\ \/ /\ Record(r, Reply(r, version, 0))
          /\ UNCHANGED <<pc, unlogged>>
       \/ /\ pc' = [pc EXCEPT ![r] = "call"]
          /\ unlogged' = unlogged + 1
          /\ UNCHANGED <<done, out>>
    /\ UNCHANGED <<config, schemas, open, gone, body, sse>>

(* ... and its outcome, a result or one of the mapped errors, is logged    *)
(* and recorded.                                                           *)
CallReturns(r) ==
    /\ pc[r] = "call"
    /\ pc' = [pc EXCEPT ![r] = "items"]
    /\ unlogged' = unlogged - 1
    /\ Record(r, Reply(r, 0, 0))
    /\ UNCHANGED <<config, schemas, open, gone, body, sse>>

(* Step 7: no body (202), a JSON body, or an SSE stream that takes the     *)
(* guard along.                                                            *)
RespondForgetting(r) ==
    /\ pc[r] = "items"
    /\ done[r] = Len(body[r].items)
    /\ Finish(r)
    /\ UNCHANGED <<config, schemas, open, unlogged, gone>>

Respond(r) ==
    /\ pc[r] = "items"
    /\ done[r] = Len(body[r].items)
    /\ IF sse[r] /\ (body[r].batch \/ out[r] # <<>>)
         THEN pc' = [pc EXCEPT ![r] = "stream"] /\ UNCHANGED <<open, message>>
         ELSE Finish(r) /\ open' = open - 1
    /\ UNCHANGED <<config, schemas, unlogged, gone>>

(* The stream ends after sse_keepalive_secs and drops the guard.           *)
StreamEndsWhenDraining(r) ==
    /\ pc[r] = "stream"
    /\ flag
    /\ open' = open - 1
    /\ Finish(r)
    /\ UNCHANGED <<config, schemas, unlogged, gone>>

StreamEnds(r) ==
    /\ pc[r] = "stream"
    /\ open' = open - 1
    /\ Finish(r)
    /\ UNCHANGED <<config, schemas, unlogged, gone>>

(* The client disconnects at an await: the future and its guard drop.      *)
Disconnect(r) ==
    /\ pc[r] \in {"auth", "call", "stream"}
    /\ gone < MAX_DISCONNECTS
    /\ gone' = gone + 1
    /\ open' = IF pc[r] \in Serving THEN open - 1 ELSE open
    /\ Finish(r)
    /\ UNCHANGED <<config, schemas, unlogged>>

(* Hot reload upserts a newer config or removes it; SIGTERM sets the flag. *)
Reload ==
    /\ \/ latest < MAX_VERSION /\ latest' = latest + 1 /\ version' = latest + 1
       \/ version # 0 /\ version' = 0 /\ UNCHANGED latest
    /\ UNCHANGED <<flag, schemas, open, unlogged, gone, pc, message>>

Signal ==
    /\ ~flag
    /\ flag' = TRUE
    /\ UNCHANGED <<version, latest, schemas, open, unlogged, gone, pc, message>>

Step(r) ==
    \/ Authenticated(r) \/ Admit(r)
    \/ DispatchQuick(r) \/ DispatchList(r) \/ DispatchCall(r) \/ CallReturns(r)
    \/ Respond(r) \/ StreamEnds(r)

Next ==
    \/ \E r \in Requests :
          \/ \E b \in Bodies, s \in BOOLEAN : Arrive(r, b, s)
          \/ Step(r)
          \/ Disconnect(r)
    \/ Reload
    \/ Signal

Spec == Init /\ [][Next]_vars

(* Fairness: tasks are polled, the executor and the stream's sleep end.    *)
FairSpec == Spec /\ \A r \in Requests : WF_vars(Step(r))

-----------------------------------------------------------------------------
(* A batch is answered in order, once per item that is not a notification, *)
(* as its items are dispatched (transport.rs:273-282).                     *)
AnsweredInOrder ==
    \A r \in Requests : body[r].batch =>
        /\ {out[r][i].item : i \in DOMAIN out[r]}
             = {k \in 1 .. done[r] : ~IsNotification(body[r].items[k])}
        /\ \A i, j \in DOMAIN out[r] : i < j => out[r][i].item < out[r][j].item

(* tools/list shows the tools of the config the router resolved for that   *)
(* request, across updates, removal and a shared cache without             *)
(* invalidation (tool_schema.rs:94-98).                                    *)
ListShowsResolved ==
    \A r \in Requests : \A i \in DOMAIN out[r] :
        out[r][i].shown \in {0, out[r][i].resolved}

(* Every request that enters the handler leaves it and gives its           *)
(* connection slot back (transport.rs:234-239).                            *)
RequestsLeave == \A r \in Requests : pc[r] # "idle" ~> pc[r] = "idle"

(* docs/stories/EPIC_02_GATEWAY_CORE.md:45: "Notifications must never      *)
(* produce a response message."                                            *)
NotificationsUnanswered ==
    \A r \in Requests : \A i \in DOMAIN out[r] :
        ~IsNotification(body[r].items[out[r][i].item])

(* logging.rs:3: "Writes one NDJSON record per `tools/call`": when nothing *)
(* is in progress every call made upstream has its record.                 *)
CallsLogged ==
    (\A r \in Requests : pc[r] # "call") => unlogged = 0
=============================================================================
