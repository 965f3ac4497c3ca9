------------------------------ MODULE ServerApi ------------------------------
(***************************************************************************)
(* The server endpoints of the platform API (services/api/src/servers.rs   *)
(* and handlers/servers/mod.rs), for the rows of one user.  Every SQL      *)
(* statement is one atomic step and no handler opens a transaction, so the *)
(* statements of concurrent requests interleave.                           *)
(*                                                                         *)
(* Row ids are compared as the UUIDs they are: they are handed out in any  *)
(* order.  Two rows may share a created_at.                                *)
(***************************************************************************)
EXTENDS Integers, Sequences, FiniteSets, Functions

CONSTANTS
    Ids,           \* row ids, a finite set of integers
    Writers,       \* concurrent requests that create, update, delete
    Walkers,       \* clients that page through GET /v1/servers
    Fields,        \* name, description, config_json, status
    Values,        \* values of a field
    Slugs,         \* slugs generate_slug can produce for the display name
    MAX_ATTEMPTS,  \* insertion attempts of create_server
    PAGE_SIZE,     \* the page size a walker asks for
    MAX_TIME       \* bound on the database clock

ASSUME IdsAssumption == IsFiniteSet(Ids) /\ Ids \subseteq Int \ {0}
ASSUME PageAssumption == PAGE_SIZE \in Nat \ {0}
ASSUME BoundsAssumption == MAX_ATTEMPTS \in Nat /\ MAX_TIME \in Nat

VARIABLES
    row,     \* mcp_servers: per id [present, slug, vals, created_at]
    unused,  \* ids not handed out yet
    now,     \* the database clock
    op,      \* the request of each writer
    walk     \* the walk of each walker

vars == <<row, unused, now, op, walk>>

Default == CHOOSE v \in Values : TRUE

NoRow == [present |-> FALSE, slug |-> "", vals |-> [f \in Fields |-> Default],
          created_at |-> 0]

Idle == [pc |-> "idle", id |-> 0, set |-> << >>, seen |-> NoRow.vals,
         attempts |-> 0, overlapped |-> FALSE, result |-> "none"]

NotStarted == [pc |-> "idle", after |-> 0, cursor |-> 0, got |-> << >>, stable |-> {}]

Present == {i \in Ids : row[i].present}

Patches == UNION {[S -> Values] : S \in SUBSET Fields}

(***************************************************************************)
(* The type of the state.                                                  *)
(***************************************************************************)
TypeOK ==
    /\ row \in [Ids -> [present : BOOLEAN, slug : Slugs \cup {""},
                        vals : [Fields -> Values], created_at : 0 .. MAX_TIME]]
    /\ unused \subseteq Ids \ Present
    /\ now \in 0 .. MAX_TIME
    /\ \A c \in Writers :
          /\ op[c].pc \in {"idle", "insert", "update", "done"}
          /\ op[c].id \in Ids \cup {0}
          /\ op[c].set \in Patches \cup {<< >>}
          /\ op[c].seen \in [Fields -> Values]
          /\ op[c].attempts \in 0 .. MAX_ATTEMPTS - 1
    /\ \A w \in Walkers :
          /\ walk[w].pc \in {"idle", "cursor", "page", "done", "failed"}
          /\ walk[w].after \in Ids \cup {0}
          /\ walk[w].got \in Seq(Ids)
          /\ walk[w].stable \subseteq Ids

Init ==
    /\ row \in [Ids -> {NoRow} \cup
                       {[NoRow EXCEPT !.present = TRUE, !.slug = s] : s \in Slugs}]
    /\ \A i, j \in Present : row[i].slug = row[j].slug => i = j
    /\ unused = Ids \ Present
    /\ now = 0
    /\ op = [c \in Writers |-> Idle]
    /\ walk = [w \in Walkers |-> NotStarted]

Done(c, result) == op' = [op EXCEPT ![c] = [Idle EXCEPT !.pc = "done", !.result = result]]

-----------------------------------------------------------------------------
(***************************************************************************)
(* POST /v1/servers.                                                       *)
(***************************************************************************)
CreateServer(c) ==
    /\ op[c].pc = "idle"
    /\ Cardinality({d \in Writers : op[d].pc = "insert"}) < Cardinality(unused)
    /\ \E v \in [Fields -> Values] :
          op' = [op EXCEPT ![c] = [Idle EXCEPT !.pc = "insert", !.set = v]]
    /\ UNCHANGED <<row, unused, now, walk>>

LastAttempt(attempts) == attempts + 1 = MAX_ATTEMPTS

(***************************************************************************)
(* One INSERT of the retry loop, with a fresh random slug.  The index on   *)
(* (user_id, slug) refuses a slug in use; the fifth refusal is a 500.      *)
(***************************************************************************)
Insert(c) ==
    /\ op[c].pc = "insert"
    /\ \E s \in Slugs :
          IF \E i \in Present : row[i].slug = s
          THEN /\ IF LastAttempt(op[c].attempts) THEN Done(c, "500")
                  ELSE op' = [op EXCEPT ![c].attempts = @ + 1]
               /\ UNCHANGED <<row, unused>>
          ELSE /\ \E i \in unused :
                     /\ row' = [row EXCEPT ![i] = [present |-> TRUE, slug |-> s,
                                                   vals |-> op[c].set, created_at |-> now]]
                     /\ unused' = unused \ {i}
               /\ Done(c, "201")
    /\ UNCHANGED <<now, walk>>

-----------------------------------------------------------------------------
(***************************************************************************)
(* PUT /v1/servers/{id}.  The SELECT also checks ownership: a row that is  *)
(* not there is a 404.                                                     *)
(***************************************************************************)
UpdateSelect(c) ==
    /\ op[c].pc = "idle"
    /\ \E i \in Ids, p \in Patches :
          IF row[i].present
          THEN op' = [op EXCEPT ![c] = [Idle EXCEPT !.pc = "update", !.id = i, !.set = p,
                                                    !.seen = row[i].vals]]
          ELSE Done(c, "404")
    /\ UNCHANGED <<row, unused, now, walk>>

MergedDefaulting(set, current) ==
    [f \in Fields |-> IF f \in DOMAIN set THEN set[f] ELSE Default]

(***************************************************************************)
(* The new value of a field the request names, the value the SELECT read   *)
(* of one it omits.                                                        *)
(***************************************************************************)
Merged(set, current) ==
    [f \in Fields |-> IF f \in DOMAIN set THEN set[f] ELSE current[f]]

(***************************************************************************)
(* The UPDATE writes all fields.  When it matches no row, fetch_one fails  *)
(* and the request is answered 500.                                        *)
(***************************************************************************)
UpdateWrite(c) ==
    /\ op[c].pc = "update"
    /\ IF row[op[c].id].present
       THEN /\ row' = [row EXCEPT ![op[c].id].vals = Merged(op[c].set, op[c].seen)]
            /\ op' = [d \in Writers |->
                        IF d = c THEN [Idle EXCEPT !.pc = "done", !.result = "200"]
                        ELSE [op[d] EXCEPT !.overlapped = @ \/ /\ op[d].pc = "update"
                                                               /\ op[d].id = op[c].id]]
       ELSE /\ Done(c, "500")
            /\ UNCHANGED row
    /\ UNCHANGED <<unused, now, walk>>

-----------------------------------------------------------------------------
(***************************************************************************)
(* DELETE /v1/servers/{id}: one statement.  (Credentials and tokens go by   *)
(* cascade.)                                                               *)
(***************************************************************************)
DeleteServer(c) ==
    /\ op[c].pc = "idle"
    /\ \E i \in Ids :
          IF row[i].present
          THEN /\ row' = [row EXCEPT ![i] = NoRow]
               /\ walk' = [w \in Walkers |-> [walk[w] EXCEPT !.stable = @ \ {i}]]
               /\ Done(c, "204")
          ELSE /\ Done(c, "404")
               /\ UNCHANGED <<row, walk>>
    /\ UNCHANGED <<unused, now>>

(***************************************************************************)
(* A finished request's slot serves another one.                           *)
(***************************************************************************)
Reset(c) ==
    /\ op[c].pc = "done"
    /\ op' = [op EXCEPT ![c] = Idle]
    /\ UNCHANGED <<row, unused, now, walk>>

-----------------------------------------------------------------------------
(***************************************************************************)
(* GET /v1/servers, page after page.  A walker asks for the first page and *)
(* then, while has_next, for the one after the last id it was given.       *)
(***************************************************************************)
StartWalk(w) ==
    /\ walk[w].pc = "idle"
    /\ walk' = [walk EXCEPT ![w].pc = "page", ![w].stable = Present]
    /\ UNCHANGED <<row, unused, now, op>>

(***************************************************************************)
(* The lookup of the cursor row's created_at; a cursor that has been       *)
(* deleted is a 404.                                                       *)
(***************************************************************************)
CursorLookup(w) ==
    /\ walk[w].pc = "cursor"
    /\ walk' = IF row[walk[w].after].present
               THEN [walk EXCEPT ![w].pc = "page", ![w].cursor = row[walk[w].after].created_at]
               ELSE [walk EXCEPT ![w].pc = "failed"]
    /\ UNCHANGED <<row, unused, now, op>>

AfterCursorNoTie(i, at, id) == id = 0 \/ row[i].created_at < at

(***************************************************************************)
(* The WHERE clause of the page query (id 0: no cursor).                   *)
(***************************************************************************)
AfterCursor(i, at, id) ==
    \/ id = 0
    \/ row[i].created_at < at
    \/ row[i].created_at = at /\ i < id

Newer(i, j) ==
    \/ row[i].created_at > row[j].created_at
    \/ row[i].created_at = row[j].created_at /\ i > j

(***************************************************************************)
(* ORDER BY created_at DESC, id DESC: the one sequence of the rows found   *)
(* in which no row comes before a newer one.                               *)
(***************************************************************************)
NewestFirst(found) ==
    {rows \in Bijection(1 .. Cardinality(found), found) :
        \A i, j \in DOMAIN rows : i < j => Newer(rows[i], rows[j])}

(***************************************************************************)
(* The page query with its LIMIT of page_size + 1, and what the walker     *)
(* does with has_next.                                                     *)
(***************************************************************************)
Page(w) ==
    /\ walk[w].pc = "page"
    /\ \E rows \in NewestFirst({i \in Present :
                                   AfterCursor(i, walk[w].cursor, walk[w].after)}) :
          LET has_next == Len(rows) > PAGE_SIZE
              page == SubSeq(rows, 1, IF has_next THEN PAGE_SIZE ELSE Len(rows))
          IN  walk' = [walk EXCEPT ![w].got = @ \o page,
                                   ![w].pc = IF has_next THEN "cursor" ELSE "done",
                                   ![w].after = IF page = << >> THEN @ ELSE page[Len(page)]]
    /\ UNCHANGED <<row, unused, now, op>>

Tick ==
    /\ now < MAX_TIME
    /\ now' = now + 1
    /\ UNCHANGED <<row, unused, op, walk>>

Next ==
    \/ \E c \in Writers :
          \/ CreateServer(c) \/ Insert(c) \/ UpdateSelect(c) \/ UpdateWrite(c)
          \/ DeleteServer(c) \/ Reset(c)
    \/ \E w \in Walkers : StartWalk(w) \/ CursorLookup(w) \/ Page(w)
    \/ Tick

Spec == Init /\ [][Next]_vars

-----------------------------------------------------------------------------

(***************************************************************************)
(* A walk that ends returns every server that existed throughout it        *)
(* exactly once, and none twice, whatever was created, deleted or given    *)
(* the same created_at between two pages (list_servers).                   *)
(***************************************************************************)
WalkComplete ==
    \A w \in Walkers :
        /\ IsInjective(walk[w].got)
        /\ walk[w].pc = "done" => walk[w].stable \subseteq Range(walk[w].got)

(***************************************************************************)
(* An update changes no field its body omits, unless another update of the *)
(* same server commits between its SELECT and its UPDATE (update_server).  *)
(***************************************************************************)
OmittedKeptUnlessOverlapped ==
    [][\A c \in Writers :
          op[c].pc = "update" /\ op'[c].result = "200" /\ ~op[c].overlapped =>
              \A f \in Fields \ DOMAIN op[c].set :
                  row'[op[c].id].vals[f] = row[op[c].id].vals[f]]_vars

(***************************************************************************)
(* "omitted fields retain their current database values"                   *)
(* (handlers/servers/mod.rs:128-129).                                      *)
(***************************************************************************)
OmittedFieldsKept ==
    [][\A c \in Writers :
          op[c].pc = "update" /\ op'[c].result = "200" =>
              \A f \in Fields \ DOMAIN op[c].set :
                  row'[op[c].id].vals[f] = row[op[c].id].vals[f]]_vars

(***************************************************************************)
(* "`AppError::NotFound` - server does not exist" (servers.rs:244): an     *)
(* update whose server does not exist is not answered with another error.  *)
(***************************************************************************)
UpdateOfMissingIsNotFound ==
    [][\A c \in Writers :
          op[c].pc = "update" /\ op'[c].pc = "done" /\ ~row[op[c].id].present =>
              op'[c].result = "404"]_vars

=============================================================================
