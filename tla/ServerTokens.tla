---------------------------- MODULE ServerTokens ----------------------------
(***************************************************************************)
(* The bearer tokens the Platform API issues for a server and the audit    *)
(* events it logs about them (api/src/handlers/tokens.rs), next to the     *)
(* server's credentials: the handlers of both run on the same requests,    *)
(* check the ownership of the same row first, and lose their rows with it. *)
(*                                                                         *)
(* A handler is dropped where it waits: after a statement has taken effect *)
(* and before its result is read, the change is there and no event is.     *)
(***************************************************************************)
EXTENDS CredentialSync

CONSTANTS MAX_TOKENS    \* bound on tokens ever issued

ASSUME TokensAssumption == MAX_TOKENS \in Nat

VARIABLES token,        \* is_active of each token's row, or that it has none
          issued,       \* tokens issued so far
          trail,        \* token events handed to the audit logger
          dropped       \* history: changes whose handler was dropped unlogged
tokenVars == <<token, issued, trail, dropped>>

TokenIds == 1..MAX_TOKENS

(* Where a token request is: which statement is next, or has taken effect. *)
TokenSteps == {"issue", "issued", "find_token", "revoke", "revoked"}

ResourcesInit ==
  /\ Init
  /\ token = [t \in TokenIds |-> "none"]
  /\ issued = 0
  /\ trail = {}
  /\ dropped = {}

credentialVars == <<tableVars, cache, handlerVars, connected, channel, untold, lateFill>>

---------------------------------------------------------------------------
(* verify_server_ownership, then the handler's own statements.             *)
VerifyTokenOwnership(a, to, t) ==
  /\ VerifyOwnership(a, to, t)
  /\ UNCHANGED tokenVars

(* create_token_handler: INSERT; the foreign key answers for the server.   *)
InsertToken(a) ==
  /\ IF live
       THEN /\ issued < MAX_TOKENS
            /\ issued' = issued + 1
            /\ token' = [token EXCEPT ![issued + 1] = "active"]
            /\ Goto(a, "issue", "issued", issued + 1)
       ELSE /\ Goto(a, "issue", "idle", 0)
            /\ UNCHANGED <<token, issued>>
  /\ UNCHANGED <<credentialVars, trail, dropped>>

(* revoke_token_handler: SELECT server_id, 404 if there is no such token   *)
(* of this server; then UPDATE, whatever the row has become in between.    *)
FindToken(a) ==
  /\ Goto(a, "find_token", IF token[apiId[a]] # "none" THEN "revoke" ELSE "idle", apiId[a])
  /\ UNCHANGED <<credentialVars, tokenVars>>

UpdateTokenTimeOnly(a) ==
  /\ Goto(a, "revoke", "revoked", apiId[a])
  /\ UNCHANGED <<credentialVars, tokenVars>>

UpdateToken(a) ==
  /\ Goto(a, "revoke", "revoked", apiId[a])
  /\ token' = [token EXCEPT ![apiId[a]] = IF @ = "none" THEN "none" ELSE "revoked"]
  /\ UNCHANGED <<credentialVars, issued, trail, dropped>>

(* emit_audit, with the response that follows.                             *)
EmitAudit(a, action) == trail' = trail \cup {<<action, apiId[a]>>}

TokenIssued(a) ==
  /\ Goto(a, "issued", "idle", 0)
  /\ EmitAudit(a, "ServerTokenGenerate")
  /\ UNCHANGED <<credentialVars, token, issued, dropped>>

TokenRevoked(a) ==
  /\ Goto(a, "revoked", "idle", 0)
  /\ EmitAudit(a, "ServerTokenRevoke")
  /\ UNCHANGED <<credentialVars, token, issued, dropped>>

(* A statement fails, with or without its effect, or the request is        *)
(* dropped: no answer and no event.                                        *)
Unlogged(a) ==
  CASE apiPc[a] = "issued"  -> {<<"ServerTokenGenerate", apiId[a]>>}
    [] apiPc[a] = "revoked" -> {<<"ServerTokenRevoke", apiId[a]>>}
    [] OTHER                -> {}

TokenAbort(a) ==
  /\ apiPc[a] \in TokenSteps
  /\ Goto(a, apiPc[a], "idle", 0)
  /\ dropped' = dropped \cup Unlogged(a)
  /\ UNCHANGED <<credentialVars, token, issued, trail>>

(* delete_server_handler: ON DELETE CASCADE reaches both tables.           *)
DeleteServer ==
  /\ ServerDeleted
  /\ token' = [t \in TokenIds |-> "none"]
  /\ UNCHANGED <<issued, trail, dropped>>

TokenCall(a) ==
  \/ VerifyTokenOwnership(a, "issue", 0)
  \/ \E t \in 1..issued : VerifyTokenOwnership(a, "find_token", t)
  \/ InsertToken(a) \/ FindToken(a) \/ UpdateToken(a)
  \/ TokenIssued(a) \/ TokenRevoked(a) \/ TokenAbort(a)

CredentialCall(a) == apiPc[a] \notin TokenSteps /\ Api(a) /\ UNCHANGED tokenVars

ResourcesNext ==
  \/ \E a \in ApiCalls : TokenCall(a) \/ CredentialCall(a)
  \/ DeleteServer
  \/ /\ (\E h \in Handlers : Inject(h)) \/ LruEvict \/ Listen \/ Notified \/ ConnectionLost
     /\ UNCHANGED tokenVars

ResourcesSpec == ResourcesInit /\ [][ResourcesNext]_<<vars, tokenVars>>

---------------------------------------------------------------------------
(* Properties *)

(* The audit trail explains the table: every change that is there was      *)
(* logged, or its handler is about to log it or was dropped before it      *)
(* could; and no revocation is on record for a token that still works      *)
(* (tokens.rs:194, 303).                                                   *)
Underway(step) == {apiId[a] : a \in {b \in ApiCalls : apiPc[b] = step}}
Recorded(action, step) ==
  {t \in TokenIds : <<action, t>> \in trail \cup dropped} \cup Underway(step)

TrailExplainsTable ==
  /\ {t \in TokenIds : token[t] # "none"} \subseteq Recorded("ServerTokenGenerate", "issued")
  /\ {t \in TokenIds : token[t] = "revoked"} \subseteq Recorded("ServerTokenRevoke", "revoked")
  /\ \A t \in TokenIds : <<"ServerTokenRevoke", t>> \in trail => token[t] # "active"
=============================================================================
