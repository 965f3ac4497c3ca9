--------------------------- MODULE CredentialSync ---------------------------
(***************************************************************************)
(* The credentials of one server: the Platform API that stores, rotates    *)
(* and deletes them (api/src/handlers/credentials.rs, credentials.rs), the *)
(* injector that looks one up for every request it forwards and keeps it   *)
(* in an LRU cache (credential-injector/src/inject.rs, cache.rs), and the  *)
(* listener that drops the cached entry when the API announces a rotation  *)
(* (notify.rs).                                                            *)
(*                                                                         *)
(* A credential is the pair <<id, value>>, ids in order of creation and    *)
(* values counted by rotation; None is no credential.  Entries of other    *)
(* servers only matter in that they can push this one out of the cache.    *)
(* API requests are the owner's and name ids they were given: any other    *)
(* ends at the ownership check or the lookup, without effect.              *)
(***************************************************************************)
EXTENDS Integers, FiniteSets, FiniteSetsExt

CONSTANTS ApiCalls,         \* API requests that may be in progress
          Handlers,         \* inject requests that may be in progress
          MAX_CREDENTIALS,  \* bound on credentials ever stored
          MAX_VALUE         \* bound on rotations of one

ASSUME BoundsAssumption == MAX_CREDENTIALS \in Nat /\ MAX_VALUE \in Nat \ {0}

VARIABLES live,         \* the server's row exists
          rows,         \* value of each credential, 0 if there is none
          stored,       \* credentials stored so far
          apiPc,        \* where each API request is
          apiId,        \* the credential it is about
          cache,        \* the injector's cached credential
          pc,           \* where each inject request is
          loaded,       \* what its SELECT returned
          connected,    \* the listener has a LISTENing connection
          channel,      \* notifications sent to it and not yet received
          untold,       \* history: credentials the injector held when they
                        \* were outdated by a change it is never told of
          lateFill      \* history: the cached entry was outdated when put
vars == <<live, rows, stored, apiPc, apiId, cache, pc, loaded, connected, channel,
          untold, lateFill>>
tableVars == <<live, rows, stored>>
apiVars == <<apiPc, apiId>>
handlerVars == <<pc, loaded>>

Ids == 1..MAX_CREDENTIALS
None == <<0, 0>>

(* ORDER BY created_at DESC LIMIT 1 *)
Present(f) == {c \in Ids : f[c] # 0}
NewestOf(f) == IF Present(f) = {} THEN None
               ELSE LET c == Max(Present(f)) IN <<c, f[c]>>
Newest == NewestOf(rows)

Init ==
  /\ live = TRUE
  /\ rows = [c \in Ids |-> 0]
  /\ stored = 0
  /\ apiPc = [a \in ApiCalls |-> "idle"]
  /\ apiId = [a \in ApiCalls |-> 0]
  /\ cache = None
  /\ pc = [h \in Handlers |-> "idle"]
  /\ loaded = [h \in Handlers |-> None]
  /\ connected = FALSE
  /\ channel = 0
  /\ untold = {}
  /\ lateFill = FALSE

---------------------------------------------------------------------------
(* The handlers and CredentialService *)

Goto(a, from, to, c) ==
  /\ apiPc[a] = from
  /\ apiPc' = [apiPc EXCEPT ![a] = to]
  /\ apiId' = [apiId EXCEPT ![a] = c]

(* A change the listener is not told of outdates what the injector holds.  *)
Copies == {cache} \cup {loaded[h] : h \in Handlers}
Unannounced(f) == untold' = untold \cup (Copies \ {None, NewestOf(f)})

(* verify_server_ownership, the first statement of every handler.          *)
VerifyOwnership(a, to, c) ==
  /\ live
  /\ Goto(a, "idle", to, c)
  /\ UNCHANGED <<tableVars, cache, handlerVars, connected, channel, untold, lateFill>>

(* store: INSERT, refused by the foreign key once the server is gone.      *)
Store(a) ==
  /\ Goto(a, "store", "idle", 0)
  /\ IF live
       THEN /\ stored < MAX_CREDENTIALS
            /\ stored' = stored + 1
            /\ rows' = [rows EXCEPT ![stored + 1] = 1]
            /\ Unannounced(rows')
       ELSE UNCHANGED <<stored, rows, untold>>
  /\ UNCHANGED <<live, cache, handlerVars, connected, channel, lateFill>>

(* rotate and delete look the credential up; if it is gone that is 404.    *)
Lookup(a) ==
  /\ \/ Goto(a, "find_rotate", IF rows[apiId[a]] # 0 THEN "update" ELSE "idle", apiId[a])
     \/ Goto(a, "find_delete", IF rows[apiId[a]] # 0 THEN "delete" ELSE "idle", apiId[a])
  /\ UNCHANGED <<tableVars, cache, handlerVars, connected, channel, untold, lateFill>>

RotateUpdate(a) ==
  /\ apiPc[a] = "update"
  /\ LET c == apiId[a]
     IN  IF rows[c] = 0
           THEN Goto(a, "update", "idle", 0) /\ UNCHANGED rows
           ELSE /\ Goto(a, "update", "notify", c)
                /\ rows[c] < MAX_VALUE
                /\ rows' = [rows EXCEPT ![c] = @ + 1]
  /\ UNCHANGED <<live, stored, cache, handlerVars, connected, channel, untold, lateFill>>

RotateNotifyForgotten(a) ==
  /\ Goto(a, "notify", "idle", 0)
  /\ UNCHANGED <<tableVars, cache, handlerVars, connected, channel, untold, lateFill>>

RotateNotify(a) ==
  /\ Goto(a, "notify", "idle", 0)
  /\ IF connected
       THEN channel' = channel + 1 /\ UNCHANGED untold
       ELSE Unannounced(rows) /\ UNCHANGED channel
  /\ UNCHANGED <<tableVars, cache, handlerVars, connected, lateFill>>

Delete(a) ==
  /\ Goto(a, "delete", "idle", 0)
  /\ rows' = [rows EXCEPT ![apiId[a]] = 0]
  /\ Unannounced(rows')
  /\ UNCHANGED <<live, stored, cache, handlerVars, connected, channel, lateFill>>

(* A statement fails, or the client leaves and the request is dropped at   *)
(* an await.  Between a rotation's UPDATE and its pg_notify that leaves    *)
(* the injector untold; a pg_notify that fails is only logged.             *)
ApiAbort(a) ==
  /\ apiPc[a] # "idle"
  /\ Goto(a, apiPc[a], "idle", 0)
  /\ IF apiPc[a] = "notify" THEN Unannounced(rows) ELSE UNCHANGED untold
  /\ UNCHANGED <<tableVars, cache, handlerVars, connected, channel, lateFill>>

(* DELETE /v1/servers/{id}: the rows of the server go with it.             *)
ServerDeleted ==
  /\ live
  /\ live' = FALSE
  /\ rows' = [c \in Ids |-> 0]
  /\ Unannounced(rows')
  /\ UNCHANGED <<stored, apiVars, cache, handlerVars, connected, channel, lateFill>>

---------------------------------------------------------------------------
(* inject_handler, for a caller that is let in: a hit is used as it is, a  *)
(* miss is read and cached.                                                *)

InjectLookup(h) ==
  /\ pc[h] = "idle"
  /\ pc' = [pc EXCEPT ![h] = IF cache = None THEN "query" ELSE "send"]
  /\ UNCHANGED <<tableVars, apiVars, cache, loaded, connected, channel, untold, lateFill>>

InjectQuery(h) ==
  /\ pc[h] = "query"
  /\ loaded' = [loaded EXCEPT ![h] = Newest]
  /\ pc' = [pc EXCEPT ![h] = IF Newest = None THEN "idle" ELSE "put"]
  /\ untold' = untold \ {Newest}
  /\ UNCHANGED <<tableVars, apiVars, cache, connected, channel, lateFill>>

InjectPut(h) ==
  /\ pc[h] = "put"
  /\ pc' = [pc EXCEPT ![h] = "send"]
  /\ cache' = loaded[h]
  /\ lateFill' = (loaded[h] # Newest)
  /\ loaded' = [loaded EXCEPT ![h] = None]
  /\ UNCHANGED <<tableVars, apiVars, connected, channel, untold>>

(* The credential is decrypted, the target resolved and validated, the     *)
(* request built with the credential where its auth_type puts it, sent,    *)
(* and its result audited and returned; or any of this fails, the SELECT   *)
(* included, or the caller leaves.  The shared state is done with.         *)
InjectEnd(h) ==
  /\ pc[h] # "idle"
  /\ pc' = [pc EXCEPT ![h] = "idle"]
  /\ loaded' = [loaded EXCEPT ![h] = None]
  /\ UNCHANGED <<tableVars, apiVars, cache, connected, channel, untold, lateFill>>

Emptied == cache' = None /\ lateFill' = FALSE /\ UNCHANGED untold

(* Requests for CACHE_CAPACITY other servers push the entry out.           *)
LruEvict ==
  /\ cache # None
  /\ Emptied
  /\ UNCHANGED <<tableVars, apiVars, handlerVars, connected, channel>>

---------------------------------------------------------------------------
(* run_listener *)

Listen ==
  /\ ~connected
  /\ connected' = TRUE
  /\ UNCHANGED <<tableVars, apiVars, cache, handlerVars, channel, untold,
                 lateFill>>

Notified ==
  /\ connected /\ channel > 0
  /\ channel' = channel - 1
  /\ Emptied
  /\ UNCHANGED <<tableVars, apiVars, handlerVars, connected>>

(* The connection is lost, with what it had not delivered.  The task       *)
(* reconnects after RECONNECT_DELAY_SECS and leaves the cache as it is.    *)
ConnectionLost ==
  /\ connected
  /\ connected' = FALSE
  /\ channel' = 0
  /\ IF channel > 0 THEN Unannounced(rows) ELSE UNCHANGED untold
  /\ UNCHANGED <<tableVars, apiVars, cache, handlerVars, lateFill>>

Api(a) ==
  \/ VerifyOwnership(a, "store", 0)
  \/ \E c \in 1..stored, to \in {"find_rotate", "find_delete"} : VerifyOwnership(a, to, c)
  \/ Store(a) \/ Lookup(a) \/ RotateUpdate(a) \/ RotateNotify(a) \/ Delete(a)
  \/ ApiAbort(a)

Inject(h) ==
  InjectLookup(h) \/ InjectQuery(h) \/ InjectPut(h) \/ InjectEnd(h)

Next ==
  \/ (\E a \in ApiCalls : Api(a)) \/ ServerDeleted
  \/ (\E h \in Handlers : Inject(h)) \/ LruEvict
  \/ Listen \/ Notified \/ ConnectionLost

Spec == Init /\ [][Next]_vars

(* The services run: requests in progress go on, the listener reads what   *)
(* it was sent and reconnects.                                             *)
FairSpec ==
  /\ Spec
  /\ \A a \in ApiCalls : WF_vars(Store(a) \/ Lookup(a) \/ RotateUpdate(a)
                                    \/ RotateNotify(a) \/ Delete(a))
  /\ \A h \in Handlers : WF_vars(InjectQuery(h) \/ InjectPut(h))
  /\ WF_vars(Notified) /\ WF_vars(Listen)

---------------------------------------------------------------------------
(* Properties *)

Stale == cache # None /\ cache # Newest
Announced == channel > 0 \/ \E a \in ApiCalls : apiPc[a] = "notify"

(* The injector's cached credential is the newest one, unless its eviction *)
(* is on the way (rotate is about to notify, or the notification waits to  *)
(* be read), or it became outdated by a change the listener never hears of *)
(* (store, delete, a notification lost), or was already so when put.       *)
StaleOnlyIfAnnouncedOrMissed == 
  Stale => Announced \/ cache \in untold \/ lateFill

(* EPIC_01:503: "After a credential is rotated (S-012), the next POST      *)
(* /inject for that server uses the new credential".  With every rotation  *)
(* announced and every notification read, the cached value of a credential *)
(* is not one that was rotated away.                                       *)
RotationTakesEffect ==
  ~Announced /\ cache \notin untold \cup {None} => rows[cache[1]] <= cache[2]

(* EPIC_01:433: a credential is cached "for up to 60 seconds": an outdated *)
(* entry does not stay for good.                                           *)
StaleEntryExpires == Stale ~> ~Stale
=============================================================================
