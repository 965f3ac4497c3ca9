----------------------------- MODULE ConfigSync -----------------------------
(***************************************************************************)
(* How server configurations reach the gateway: the mcp_servers table and  *)
(* its NOTIFY trigger (migrations), the in-memory cache and its slug index *)
(* (gateway/src/cache.rs), and the task that keeps the cache in step with  *)
(* the table through LISTEN/NOTIFY (gateway/src/hot_reload.rs).            *)
(*                                                                         *)
(* A configuration is abstracted to its config_version: the trigger gives  *)
(* every UPDATE a new one, so a version names a content.  Version 0 stands *)
(* for "no entry" in the cache and in the task's version map.  Slugs are   *)
(* fixed at creation (no statement of the API changes one).                *)
(*                                                                         *)
(* The rows a replay selects, updated_at >= disconnect_time - 5 s, are the *)
(* rows committed since disconnect_time was recorded (the set `recent')    *)
(* and possibly others, still within the margin.                           *)
(***************************************************************************)
EXTENDS Integers, Sequences, FiniteSets, Functions

CONSTANTS Servers,
          Slugs,
          NoServer,
          Slug,                 \* the slug of each server
          COALESCE_THRESHOLD,
          MAX_VERSION           \* bound on updates of a row

ASSUME SlugAssumption == Slug \in [Servers -> Slugs] /\ NoServer \notin Servers
ASSUME BoundAssumption == COALESCE_THRESHOLD \in Nat /\ MAX_VERSION \in Nat \ {0}

VARIABLES status,       \* per row: "absent", "active" or "inactive"
          version,      \* per row: config_version, 0 before it is created
          channel,      \* notifications sent to the listener, not yet received
          connected,    \* the listener's connection is up and has LISTENed
          phase,        \* where the sync task is
          batch,        \* notifications received and not yet applied
          versions,     \* the task's VersionMap
          recent,       \* rows committed since disconnect_time was recorded
          listenFlag,   \* listen_connected
          cache,        \* version of the cached config, 0 if none
          slugIndex,    \* slug -> server id
          limitKnown,   \* cached configs that carry the row's max_connections
          missed,       \* history: a change the task was not told of, or
                        \* could not fetch, since it last read the row
          evicted,      \* history: idle entries the cache dropped since
          coalesced,    \* history: servers whose delete notification was
                        \* coalesced into an update of the same version
          replayed      \* history: this task has replayed missed changes
dbVars == <<status, version>>
historyVars == <<coalesced, replayed>>
cacheVars == <<cache, slugIndex, limitKnown, evicted>>
taskVars == <<phase, batch, versions, listenFlag>>
vars == <<dbVars, channel, connected, taskVars, recent, cacheVars, missed, historyVars>>

Phases == {"start", "mark", "connect", "collect", "apply", "replay"}
Notification == [id : Servers, op : {"insert", "update", "delete"}, ver : Nat]

TypeOK ==
  /\ status \in [Servers -> {"absent", "active", "inactive"}]
  /\ version \in [Servers -> 0..MAX_VERSION]
  /\ channel \in Seq(Notification)
  /\ connected \in BOOLEAN
  /\ phase \in Phases
  /\ batch \in Seq(Notification)
  /\ versions \in [Servers -> 0..MAX_VERSION]
  /\ recent \subseteq Servers
  /\ listenFlag \in BOOLEAN
  /\ cache \in [Servers -> 0..MAX_VERSION]
  /\ slugIndex \in [Slugs -> Servers \cup {NoServer}]
  /\ limitKnown \subseteq Servers
  /\ missed \subseteq Servers
  /\ evicted \subseteq Servers
  /\ coalesced \subseteq Servers
  /\ replayed \in BOOLEAN

(* The version of the row the gateway should hold, 0 if it should hold none *)
Active(s) == IF status[s] = "active" THEN version[s] ELSE 0

Mentions(seq, s) == \E i \in 1..Len(seq) : seq[i].id = s
Pending(s) == Mentions(channel, s) \/ Mentions(batch, s)
PendingServers == {s \in Servers : Pending(s)}

(* The table may hold rows of any kind when the gateway starts.            *)
Init ==
  /\ status \in [Servers -> {"absent", "active", "inactive"}]
  /\ version = [s \in Servers |-> IF status[s] = "absent" THEN 0 ELSE 1]
  /\ channel = <<>>
  /\ connected = FALSE
  /\ phase = "start"
  /\ batch = <<>>
  /\ versions = [s \in Servers |-> 0]
  /\ recent = {}
  /\ listenFlag = FALSE
  /\ cache = [s \in Servers |-> 0]
  /\ slugIndex = [g \in Slugs |-> NoServer]
  /\ limitKnown = {}
  /\ missed = Servers
  /\ evicted = {}
  /\ coalesced = {}
  /\ replayed = FALSE

---------------------------------------------------------------------------
(* The table.  A committed change is notified to the listener if its       *)
(* connection is up; otherwise the notification is gone.                   *)

Commit(s, op, ver) ==
  /\ recent' = recent \cup {s}
  /\ IF connected
       THEN /\ channel' = Append(channel, [id |-> s, op |-> op, ver |-> ver])
            /\ UNCHANGED missed
       ELSE /\ missed' = missed \cup {s}
            /\ UNCHANGED channel
  /\ UNCHANGED <<connected, taskVars, cacheVars, historyVars>>

InsertRow(s) ==
  /\ version[s] = 0
  /\ status' = [status EXCEPT ![s] = "active"]
  /\ version' = [version EXCEPT ![s] = 1]
  /\ Commit(s, "insert", 1)

UpdateRow(s, st) ==
  /\ status[s] # "absent"
  /\ version[s] < MAX_VERSION
  /\ status' = [status EXCEPT ![s] = st]
  /\ version' = [version EXCEPT ![s] = @ + 1]
  /\ Commit(s, "update", version[s] + 1)

DeleteRow(s) ==
  /\ status[s] # "absent"
  /\ status' = [status EXCEPT ![s] = "absent"]
  /\ UNCHANGED version
  /\ Commit(s, "delete", version[s])

---------------------------------------------------------------------------
(* The cache.  Each operator gives the next value of the cache variables;  *)
(* read is the set of servers whose rows the caller has just read.         *)

(* upsert() for every server of S, each with the version its row has now.  *)
(* full: the SELECT lists max_connections, otherwise the config gets the   *)
(* default of 50 whatever the row says.                                    *)
CacheUpsert(S, full) ==
  /\ cache' = [s \in Servers |-> IF s \in S THEN version[s] ELSE cache[s]]
  /\ slugIndex' \in
       {f \in [Slugs -> Servers \cup {NoServer}] :
          \A g \in Slugs : LET owners == {s \in S : Slug[s] = g}
                           IN  IF owners = {} THEN f[g] = slugIndex[g]
                                              ELSE f[g] \in owners}
  /\ limitKnown' = IF full THEN limitKnown \cup S ELSE limitKnown \ S
  /\ evicted' = evicted \ S

UnindexedNot(s) == slugIndex

Unindexed(s) ==
  [slugIndex EXCEPT ![Slug[s]] = IF cache[s] # 0 /\ @ = s THEN NoServer ELSE @]

CacheRemove(s) ==
  /\ cache' = [cache EXCEPT ![s] = 0]
  /\ slugIndex' = Unindexed(s)
  /\ limitKnown' = limitKnown \ {s}
  /\ evicted' = evicted \ {s}

(* moka drops an entry idle for CACHE_TTI_SECS and calls the listener,     *)
(* which removes the slug if it still names this server.                   *)
Evict(s) ==
  /\ cache[s] # 0
  /\ cache' = [cache EXCEPT ![s] = 0]
  /\ slugIndex' = Unindexed(s)
  /\ limitKnown' = limitKnown \ {s}
  /\ evicted' = evicted \cup {s}
  /\ UNCHANGED <<dbVars, channel, connected, taskVars, recent, missed, historyVars>>

(* Startup: one SELECT of the active rows.                                 *)
LoadAll ==
  /\ phase = "start"
  /\ CacheUpsert({s \in Servers : status[s] = "active"}, TRUE)
  /\ phase' = "mark"
  /\ missed' = {}
  /\ UNCHANGED <<dbVars, channel, connected, batch, versions, recent, listenFlag, historyVars>>

---------------------------------------------------------------------------
(* run_sync_loop and run_listener_once *)

(* disconnect_time is recorded just before the connection is attempted.    *)
Mark ==
  /\ phase = "mark"
  /\ phase' = "connect"
  /\ recent' = {}
  /\ UNCHANGED <<dbVars, channel, connected, batch, versions, listenFlag,
                 cacheVars, missed, historyVars>>

Listen ==
  /\ phase = "connect"
  /\ phase' = "collect"
  /\ connected' = TRUE
  /\ listenFlag' = TRUE
  /\ UNCHANGED <<dbVars, channel, batch, versions, recent, cacheVars, missed, historyVars>>

ListenFails ==
  /\ phase = "connect"
  /\ phase' = "replay"
  /\ listenFlag' = FALSE
  /\ UNCHANGED <<dbVars, channel, connected, batch, versions, recent,
                 cacheVars, missed, historyVars>>

(* The network drops the connection; what was not sent is never delivered. *)
Disconnect ==
  /\ connected
  /\ connected' = FALSE
  /\ UNCHANGED <<dbVars, channel, taskVars, recent, cacheVars, missed, historyVars>>

(* recv() returns a notification: the first of a batch, or another one     *)
(* within BATCH_WINDOW_MS of it.                                           *)
Receive ==
  /\ phase = "collect"
  /\ channel # <<>>
  /\ batch' = Append(batch, Head(channel))
  /\ channel' = Tail(channel)
  /\ UNCHANGED <<dbVars, connected, phase, versions, listenFlag, recent,
                 cacheVars, missed, historyVars>>

(* recv() on a dead connection.  Either it fails, and the notifications    *)
(* collected so far go with it; or the library reconnects and subscribes   *)
(* again by itself, of which the task learns nothing.                      *)
ReceiveFails ==
  /\ phase = "collect"
  /\ ~connected /\ channel = <<>>
  /\ phase' = "replay"
  /\ listenFlag' = FALSE
  /\ missed' = missed \cup PendingServers
  /\ batch' = <<>>
  /\ UNCHANGED <<dbVars, channel, connected, versions, recent, cacheVars, historyVars>>

ReceiveReconnects ==
  /\ phase = "collect"
  /\ ~connected /\ channel = <<>>
  /\ connected' = TRUE
  /\ UNCHANGED <<dbVars, channel, taskVars, recent, cacheVars, missed, historyVars>>

(* coalesce_batch: per server, the first notification with the highest     *)
(* version, in the order of a HashMap, which is any order.                 *)
Best(seq) ==
  {seq[i] : i \in {j \in 1..Len(seq) :
     \A k \in 1..Len(seq) : seq[k].id = seq[j].id =>
       \/ seq[k].ver < seq[j].ver
       \/ seq[k].ver = seq[j].ver /\ j <= k}}

Orders(S) == Bijection(1..Cardinality(S), S)

DeletesIn(seq) == {s \in Servers : \E i \in 1..Len(seq) :
                                      seq[i].id = s /\ seq[i].op = "delete"}

CloseBatchWhenFull ==
  /\ phase = "collect"
  /\ Len(batch) > COALESCE_THRESHOLD
  /\ phase' = "apply"
  /\ batch' \in Orders(Best(batch))
  /\ UNCHANGED <<dbVars, channel, connected, versions, listenFlag, recent,
                 cacheVars, missed, historyVars>>

CloseBatch ==
  /\ phase = "collect"
  /\ batch # <<>>
  /\ phase' = "apply"
  /\ IF Len(batch) > COALESCE_THRESHOLD
       THEN /\ batch' \in Orders(Best(batch))
            /\ coalesced' = coalesced \cup (DeletesIn(batch) \ DeletesIn(batch'))
       ELSE UNCHANGED <<batch, coalesced>>
  /\ UNCHANGED <<dbVars, channel, connected, versions, listenFlag, recent,
                 cacheVars, missed, replayed>>

(* The payload being applied leaves the batch; the batch's last one sends  *)
(* the task back to collecting.                                            *)
NextPayload ==
  /\ phase = "apply"
  /\ batch' = Tail(batch)
  /\ phase' = IF Len(batch) = 1 THEN "collect" ELSE "apply"
  /\ UNCHANGED <<dbVars, channel, connected, listenFlag, recent, historyVars>>

ApplyDelete ==
  /\ NextPayload
  /\ Head(batch).op = "delete"
  /\ LET s == Head(batch).id
     IN  /\ versions' = [versions EXCEPT ![s] = 0]
         /\ missed' = missed \ {s}
         /\ CacheRemove(s)

Newer(p) == p.op # "delete" /\ p.ver > versions[p.id]

ApplyStale ==
  /\ NextPayload
  /\ Head(batch).op # "delete" /\ ~Newer(Head(batch))
  /\ UNCHANGED <<versions, missed, cacheVars>>

(* fetch_config finds an active row, finds none, or fails.                 *)
ApplyUpsert ==
  /\ NextPayload
  /\ Newer(Head(batch))
  /\ LET s == Head(batch).id
     IN  /\ status[s] = "active"
         /\ versions' = [versions EXCEPT ![s] = version[s]]
         /\ missed' = missed \ {s}
         /\ CacheUpsert({s}, FALSE)

ApplyRemoveIgnored ==
  /\ NextPayload
  /\ Newer(Head(batch))
  /\ status[Head(batch).id] # "active"
  /\ missed' = missed \ {Head(batch).id}
  /\ UNCHANGED <<versions, cacheVars>>

ApplyRemove ==
  /\ NextPayload
  /\ Newer(Head(batch))
  /\ LET s == Head(batch).id
     IN  /\ status[s] # "active"
         /\ versions' = [versions EXCEPT ![s] = 0]
         /\ missed' = missed \ {s}
         /\ CacheRemove(s)

ApplyFetchFails ==
  /\ NextPayload
  /\ Newer(Head(batch))
  /\ missed' = missed \cup {Head(batch).id}
  /\ UNCHANGED <<versions, cacheVars>>

(* After the back-off: the active rows changed since disconnect_time, and  *)
(* any of those still within the safety margin.                            *)
Replay ==
  /\ phase = "replay"
  /\ \E margin \in SUBSET (Servers \ recent) :
       LET rows  == {s \in recent \cup margin : status[s] = "active"}
           newer == {s \in rows : version[s] > versions[s]}
       IN  /\ CacheUpsert(newer, FALSE)
           /\ versions' = [s \in Servers |->
                             IF s \in newer THEN version[s] ELSE versions[s]]
           /\ missed' = missed \ rows
  /\ phase' = "mark"
  /\ replayed' = TRUE
  /\ UNCHANGED <<dbVars, channel, connected, batch, listenFlag, recent, coalesced>>

ReplayFails ==
  /\ phase = "replay"
  /\ phase' = "mark"
  /\ UNCHANGED <<dbVars, channel, connected, batch, versions, listenFlag,
                 recent, cacheVars, missed, historyVars>>

(* The supervisor restarts a task that panicked: its listener, batch and   *)
(* version map are gone, and disconnect_time with them.                    *)
Panic ==
  /\ phase # "start"
  /\ phase' = "mark"
  /\ missed' = missed \cup PendingServers
  /\ channel' = <<>>
  /\ batch' = <<>>
  /\ connected' = FALSE
  /\ versions' = [s \in Servers |-> 0]
  /\ replayed' = FALSE
  /\ UNCHANGED <<dbVars, listenFlag, recent, cacheVars, coalesced>>

ApplyPayload ==
  ApplyDelete \/ ApplyStale \/ ApplyUpsert \/ ApplyRemove \/ ApplyFetchFails

Database == \E s \in Servers :
  \/ InsertRow(s) \/ DeleteRow(s)
  \/ \E st \in {"active", "inactive"} : UpdateRow(s, st)

Listener ==
  \/ Listen \/ ListenFails \/ Receive \/ ReceiveFails \/ ReceiveReconnects
  \/ CloseBatch \/ ApplyPayload

Next ==
  \/ Database
  \/ LoadAll \/ Mark \/ Listener \/ Replay \/ ReplayFails
  \/ Disconnect \/ Panic
  \/ \E s \in Servers : Evict(s)

Spec == Init /\ [][Next]_vars

(* The runtime polls a task that has something to read or to apply.        *)
Fairness == WF_vars(Receive) /\ WF_vars(CloseBatch) /\ WF_vars(ApplyPayload)

FairSpec == Spec /\ Fairness

---------------------------------------------------------------------------
(* The cache agrees with the table about a server.                          *)
InSync(s) == cache[s] = Active(s)

(* Whatever order of commits, batches, coalescing, disconnections, replays *)
(* and restarts led here: once nothing is pending for a server, the cache  *)
(* holds exactly its active row, unless a change of it was never           *)
(* delivered or its fetch failed (missed), the entry idled out (evicted),  *)
(* or its delete was coalesced away.  Otherwise apply_payload,             *)
(* coalesce_batch and replay_missed_changes lose nothing of what they were *)
(* told.                                                                   *)
StaleOnlyIfMissed ==
  \A s \in Servers :
    s \notin missed \cup evicted \cup coalesced /\ ~Pending(s) => InSync(s)

(* While slugs are distinct, a slug resolves to a server exactly when the  *)
(* server's config is cached: upsert, remove and the eviction listener     *)
(* keep the two maps of ConfigCache together.                              *)
RoutableIffCached ==
  (\A s, t \in Servers : s # t => Slug[s] # Slug[t])
    => \A s \in Servers : slugIndex[Slug[s]] = (IF cache[s] # 0 THEN s ELSE NoServer)

(* Every notification that reached the listener is dealt with, and leaves  *)
(* its server in step with the table or on record as missed or evicted.    *)
PendingServed ==
  \A s \in Servers :
    Pending(s) ~> /\ ~Pending(s)
                  /\ s \in missed \cup evicted \cup coalesced \/ InSync(s)

---------------------------------------------------------------------------
(* What comments of the code say, and the code does not do. *)

(* hot_reload.rs:347: "Delete operations are always applied."  A deleted   *)
(* server whose notifications all arrived is no longer served.             *)
DeleteAlwaysApplied ==
  \A s \in Servers : s \notin missed /\ ~Pending(s) /\ status[s] = "absent"
                       => cache[s] = 0

(* hot_reload.rs:20: "After a successful reconnect, missed changes are     *)
(* replayed".  Once listening again with nothing to apply, every active    *)
(* row committed since the connection was lost is cached at its version.   *)
ReconnectReplaysMissed ==
  replayed /\ phase = "collect" /\ connected /\ channel = <<>> /\ batch = <<>>
    => \A s \in recent \ evicted : status[s] = "active" => InSync(s)

(* cache.rs:6: "On cache miss, a single PostgreSQL query is performed".    *)
(* An active server all of whose changes arrived is always found.          *)
ActiveServerFound ==
  \A s \in Servers : s \notin missed /\ ~Pending(s) /\ status[s] = "active"
                       => cache[s] # 0

(* cache.rs:69: max_connections "Defaults to 50 if not set in the          *)
(* database", so a cached config carries the limit of its row.             *)
LimitFromRow == \A s \in Servers : cache[s] # 0 => s \in limitKnown

(* cache.rs:286: slug_to_id "Returns None if no active server is           *)
(* registered under that slug", and so an id if one is cached.             *)
SlugOfCachedResolves ==
  \A s \in Servers : cache[s] # 0 => slugIndex[Slug[s]] # NoServer

(* hot_reload.rs:132: the flag "is true while the LISTEN connection is     *)
(* up": when it is set, the task is past LISTEN.                           *)
FlagMeansListening == listenFlag => phase \in {"collect", "apply"}

===========================================================================
