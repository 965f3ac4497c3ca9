------------------------------- MODULE UserSync -------------------------------
(***************************************************************************)
(* The local users table and the two writers that keep it in step with     *)
(* Clerk: the webhook handler (services/api/src/handlers/webhooks.rs) and  *)
(* the upsert of the JWT middleware (services/api/src/auth.rs).            *)
(*                                                                         *)
(* Clerk is the environment.  It owns the accounts, numbers their changes, *)
(* sends one event per change, redelivers an event until it is answered    *)
(* with 2xx, promises no order, and may give up on one.  A session token   *)
(* carries the email its account had when it was issued and outlives later *)
(* changes until it expires.                                               *)
(***************************************************************************)
EXTENDS Naturals, FiniteSets

CONSTANTS
    Accounts,     \* Clerk user ids
    Emails,       \* email addresses
    MAX_CHANGES,  \* bound on the changes Clerk makes to one account
    MAX_TOKENS,   \* bound on the session tokens outstanding
    PARTIAL       \* whether payloads may lack the primary email

None == ""        \* no email: unwrap_or_default of a missing primary email
Gone == "gone"    \* the account (or the row) does not exist

VARIABLES
    account,   \* Clerk's view: each account's email, or Gone
    seq,       \* the number of changes Clerk made to each account
    events,    \* webhook events not yet acknowledged
    tokens,    \* session tokens that have not expired
    users,     \* the users table: clerk_id -> email, or Gone
    applied,   \* history: the newest change of each account applied so far
    late       \* history: accounts with an older change applied after a newer,
               \* or an event given up

vars == <<account, seq, events, tokens, users, applied, late>>

(***************************************************************************)
(* A change of an account, as an event or a token carries it.              *)
(***************************************************************************)
Change == [clerk_id : Accounts, email : Emails \cup {None, Gone},
           seq : 0 .. MAX_CHANGES]

(***************************************************************************)
(* The type of the state.                                                  *)
(***************************************************************************)
TypeOK ==
    /\ account \in [Accounts -> Emails \cup {Gone}]
    /\ seq \in [Accounts -> 0 .. MAX_CHANGES]
    /\ events \subseteq Change
    /\ tokens \subseteq Change
    /\ users \in [Accounts -> Emails \cup {None, Gone}]
    /\ applied \in [Accounts -> 0 .. MAX_CHANGES]
    /\ late \subseteq Accounts

Init ==
    /\ account = [a \in Accounts |-> Gone]
    /\ seq = [a \in Accounts |-> 0]
    /\ events = {}
    /\ tokens = {}
    /\ users = [a \in Accounts |-> Gone]
    /\ applied = [a \in Accounts |-> 0]
    /\ late = {}

-----------------------------------------------------------------------------
(***************************************************************************)
(* Clerk.                                                                  *)
(***************************************************************************)

(***************************************************************************)
(* An account is created, changes its email or is deleted (for good).      *)
(* Clerk keeps emails unique.  The payload of user.created and             *)
(* user.updated may name no primary email.                                 *)
(***************************************************************************)
ClerkChanges(a) ==
    /\ seq[a] < MAX_CHANGES
    /\ account[a] # Gone \/ seq[a] = 0
    /\ \E e \in Emails \cup {Gone} :
          /\ \A b \in Accounts : account[b] # e \/ (e = Gone /\ b # a)
          /\ account' = [account EXCEPT ![a] = e]
          /\ seq' = [seq EXCEPT ![a] = @ + 1]
          /\ \E p \in {e} \cup (IF PARTIAL /\ e # Gone THEN {None} ELSE {}) :
                events' = events \cup {[clerk_id |-> a, email |-> p, seq |-> seq'[a]]}
    /\ UNCHANGED <<tokens, users, applied, late>>

(***************************************************************************)
(* A session starts: its token carries the account's email of now.         *)
(***************************************************************************)
IssueToken(a) ==
    /\ account[a] # Gone
    /\ Cardinality(tokens) < MAX_TOKENS
    /\ tokens' = tokens \cup {[clerk_id |-> a, email |-> account[a], seq |-> seq[a]]}
    /\ UNCHANGED <<account, seq, events, users, applied, late>>

TokenExpires(t) ==
    /\ t \in tokens
    /\ tokens' = tokens \ {t}
    /\ UNCHANGED <<account, seq, events, users, applied, late>>

(***************************************************************************)
(* Clerk stops redelivering an event.                                      *)
(***************************************************************************)
GiveUp(ev) ==
    /\ ev \in events
    /\ events' = events \ {ev}
    /\ late' = late \cup {ev.clerk_id}
    /\ UNCHANGED <<account, seq, tokens, users, applied>>

-----------------------------------------------------------------------------
(***************************************************************************)
(* The platform API.                                                       *)
(***************************************************************************)

(***************************************************************************)
(* The users table keeps emails unique: an upsert of an email that another *)
(* row holds fails.                                                        *)
(***************************************************************************)
Conflict(a, e) == \E b \in Accounts \ {a} : users[b] = e

History(change) ==
    /\ applied' = [applied EXCEPT ![change.clerk_id] =
                     IF change.seq > @ THEN change.seq ELSE @]
    /\ late' = late \cup {a \in {change.clerk_id} : change.seq < applied[a]}

(***************************************************************************)
(* INSERT ... ON CONFLICT (clerk_id) DO UPDATE SET email, the statement of *)
(* both writers.                                                           *)
(***************************************************************************)
UpsertUser(change) == users' = [users EXCEPT ![change.clerk_id] = change.email]

(***************************************************************************)
(* user.created and user.updated, acknowledged: whatever the order of the  *)
(* events, the last one handled wins.                                      *)
(***************************************************************************)
HandleUserUpsert(ev) ==
    /\ ev \in events
    /\ ev.email # Gone
    /\ ~Conflict(ev.clerk_id, ev.email)
    /\ UpsertUser(ev)
    /\ History(ev)
    /\ UNCHANGED <<account, seq, tokens>>

(***************************************************************************)
(* user.deleted: the row and, by cascade, all that belongs to it go; a     *)
(* missing row is no error.                                                *)
(***************************************************************************)
HandleUserDelete(ev) ==
    /\ ev \in events
    /\ ev.email = Gone
    /\ users' = [users EXCEPT ![ev.clerk_id] = Gone]
    /\ History(ev)
    /\ UNCHANGED <<account, seq, tokens>>

(***************************************************************************)
(* One delivery of an event: it is handled and acknowledged, handled with  *)
(* the acknowledgement lost, so that Clerk sends it again, or answered 500 *)
(* on a conflict, which leaves it pending too (a stuttering step).         *)
(***************************************************************************)
Webhook(ev) ==
    /\ HandleUserUpsert(ev) \/ HandleUserDelete(ev)
    /\ events' = events \ {ev}

WebhookUnacknowledged(ev) ==
    /\ HandleUserUpsert(ev) \/ HandleUserDelete(ev)
    /\ events' = events

(***************************************************************************)
(* Step 5 of the JWT middleware: the claims of a valid token are upserted. *)
(* On a conflict the request ends with 500 and nothing is written.         *)
(***************************************************************************)
Authenticate(t) ==
    /\ t \in tokens
    /\ ~Conflict(t.clerk_id, t.email)
    /\ UpsertUser(t)
    /\ History(t)
    /\ UNCHANGED <<account, seq, events, tokens>>

Next ==
    \/ \E a \in Accounts : ClerkChanges(a) \/ IssueToken(a)
    \/ \E t \in tokens : TokenExpires(t) \/ Authenticate(t)
    \/ \E ev \in events : Webhook(ev) \/ WebhookUnacknowledged(ev) \/ GiveUp(ev)

Spec == Init /\ [][Next]_vars

-----------------------------------------------------------------------------

(***************************************************************************)
(* When no event of an account is pending, its row agrees with Clerk       *)
(* unless an older change was applied after a newer one (an event out of   *)
(* order or redelivered, or a token issued before the change), or an event *)
(* was given up.                                                           *)
(***************************************************************************)
DivergesOnlyIfLate ==
    \A a \in Accounts :
        /\ \A ev \in events : ev.clerk_id # a
        /\ a \notin late
        => users[a] = account[a]

(***************************************************************************)
(* "`user.deleted` -> hard-delete user" (webhooks.rs:68): an account       *)
(* deleted at Clerk, with its user.deleted event handled, has no row.      *)
(***************************************************************************)
DeletedUserStaysGone ==
    \A a \in Accounts :
        account[a] = Gone /\ seq[a] > 0 /\ applied[a] = seq[a] => users[a] = Gone

(***************************************************************************)
(* "existing records are not broken by a missing email in a partial        *)
(* update" (webhooks.rs:128-130): a row that has an email keeps one.       *)
(***************************************************************************)
EmailSurvivesPartialUpdate ==
    [][\A a \in Accounts : users[a] \in Emails => users'[a] # None]_vars

=============================================================================
