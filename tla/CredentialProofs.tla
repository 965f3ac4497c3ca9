--------------------------- MODULE CredentialProofs ---------------------------
(***************************************************************************)
(* Proofs about ServerTokens, and CredentialSync under it, for any number  *)
(* of API calls, inject requests, credentials and tokens; about            *)
(* CredentialInjection for any jobs, resolutions and statuses; and about   *)
(* AuditLogger, which keeps the record of both, for any events, callers,   *)
(* capacity and batch size.                                                *)
(*                                                                         *)
(* A module that is brought in by INSTANCE takes the names it has in common*)
(* with this module from it; no theorem is about two of the components at  *)
(* once.                                                                   *)
(***************************************************************************)
EXTENDS ServerTokens, Sequences, TLAPS

(* Everything ServerTokens and CredentialSync change.                      *)
resourceVars == <<vars, tokenVars>>

---------------------------------------------------------------------------
(* The injector's cached credential *)

(***************************************************************************)
(* Stale is all that has to be accounted for: no fact about the table is   *)
(* needed, only the shape of the variables that announce an eviction.      *)
(***************************************************************************)
EvictionTraced ==
  /\ DOMAIN apiPc = ApiCalls
  /\ channel \in Nat
  /\ StaleOnlyIfAnnouncedOrMissed

(***************************************************************************)
(* A change for which Unannounced ran leaves no unexplained stale entry.   *)
(***************************************************************************)
LEMMA UnannouncedExplains ==
  ASSUME UNCHANGED cache, Unannounced(rows')
  PROVE  StaleOnlyIfAnnouncedOrMissed'
  BY DEF Unannounced, Copies, StaleOnlyIfAnnouncedOrMissed, Stale, Newest

(***************************************************************************)
(* A step that leaves the table, the cache and their history alone, and no *)
(* call that was about to notify, explains what was explained before.      *)
(***************************************************************************)
LEMMA QuietStep ==
  ASSUME EvictionTraced, UNCHANGED <<cache, rows, lateFill>>,
         channel' \in Nat, channel > 0 => channel' > 0,
         DOMAIN apiPc' = ApiCalls,
         \A a \in ApiCalls : apiPc[a] = "notify" => apiPc'[a] = "notify",
         untold \subseteq untold' \cup {Newest}
  PROVE  EvictionTraced'
  BY DEF EvictionTraced, StaleOnlyIfAnnouncedOrMissed, Stale, Announced, Newest

(* A call of the API that goes on to its next step leaves the other calls  *)
(* where they are.                                                         *)
LEMMA GotoMoves ==
  ASSUME NEW a \in ApiCalls, NEW from, NEW to, NEW c,
         DOMAIN apiPc = ApiCalls, Goto(a, from, to, c)
  PROVE  /\ apiPc[a] = from /\ apiPc'[a] = to
         /\ DOMAIN apiPc' = ApiCalls
         /\ \A b \in ApiCalls \ {a} : apiPc'[b] = apiPc[b]
  BY DEF Goto

(* The steps of the credential handlers keep the trace of evictions: what  *)
(* they change they announce, or they are still to announce it.            *)
LEMMA ApiExplains ==
  ASSUME EvictionTraced, NEW a \in ApiCalls, Api(a)
  PROVE  EvictionTraced'
<1> USE DEF EvictionTraced
<1>1. CASE \E to \in {"store", "find_rotate", "find_delete"}, c \in Nat :
             VerifyOwnership(a, to, c)
  <2>1. PICK to \in {"store", "find_rotate", "find_delete"}, c \in Nat :
              VerifyOwnership(a, to, c)
    BY <1>1
  <2>2. QED
    BY <2>1, GotoMoves, QuietStep DEF VerifyOwnership, tableVars
<1>2. CASE Store(a)
  <2>1. CASE live
    BY <1>2, <2>1, GotoMoves, UnannouncedExplains DEF Store
  <2>2. CASE ~live
    BY <1>2, <2>2, GotoMoves, QuietStep DEF Store
  <2>3. QED
    BY <2>1, <2>2
<1>3. CASE Lookup(a)
  <2>1. PICK from, to : from \in {"find_rotate", "find_delete"} /\ Goto(a, from, to, apiId[a])
    BY <1>3 DEF Lookup
  <2>2. QED
    BY <1>3, <2>1, GotoMoves, QuietStep DEF Lookup, tableVars
<1>4. CASE RotateUpdate(a)
  <2>1. CASE rows[apiId[a]] = 0
    BY <1>4, <2>1, GotoMoves, QuietStep DEF RotateUpdate
  <2>2. CASE rows[apiId[a]] # 0
    <3>1. apiPc'[a] = "notify" /\ DOMAIN apiPc' = ApiCalls /\ channel' \in Nat
      BY <1>4, <2>2, GotoMoves DEF RotateUpdate
    <3>2. QED
      BY <3>1 DEF StaleOnlyIfAnnouncedOrMissed, Announced
  <2>3. QED
    BY <2>1, <2>2
<1>5. CASE RotateNotify(a)
  <2>1. CASE connected
    <3>1. channel' > 0 /\ channel' \in Nat /\ DOMAIN apiPc' = ApiCalls
      BY <1>5, <2>1, GotoMoves DEF RotateNotify
    <3>2. QED
      BY <3>1 DEF StaleOnlyIfAnnouncedOrMissed, Announced
  <2>2. CASE ~connected
    BY <1>5, <2>2, GotoMoves, UnannouncedExplains DEF RotateNotify, tableVars
  <2>3. QED
    BY <2>1, <2>2
<1>6. CASE Delete(a)
  BY <1>6, GotoMoves, UnannouncedExplains DEF Delete
<1>7. CASE ApiAbort(a)
  <2>1. CASE apiPc[a] = "notify"
    BY <1>7, <2>1, GotoMoves, UnannouncedExplains DEF ApiAbort, tableVars
  <2>2. CASE apiPc[a] # "notify"
    BY <1>7, <2>2, GotoMoves, QuietStep DEF ApiAbort, tableVars
  <2>3. QED
    BY <2>1, <2>2
<1>8. QED
  BY <1>1, <1>2, <1>3, <1>4, <1>5, <1>6, <1>7 DEF Api

(***************************************************************************)
(* What the injector and its listener do.                                  *)
(***************************************************************************)
LEMMA InjectorExplains ==
  ASSUME EvictionTraced,
         (\E h \in Handlers : Inject(h)) \/ LruEvict \/ Listen \/ Notified \/ ConnectionLost
  PROVE  EvictionTraced'
<1> USE DEF EvictionTraced, tableVars, apiVars
<1>1. ASSUME NEW h \in Handlers, InjectLookup(h) \/ InjectEnd(h)
      PROVE  EvictionTraced'
  BY <1>1, QuietStep DEF InjectLookup, InjectEnd
<1>2. ASSUME NEW h \in Handlers, InjectQuery(h)
      PROVE  EvictionTraced'
  BY <1>2, QuietStep DEF InjectQuery
<1>3. ASSUME NEW h \in Handlers, InjectPut(h)
      PROVE  EvictionTraced'
  <2>1. cache' = loaded[h] /\ (lateFill' <=> loaded[h] # Newest) /\ Newest' = Newest
    BY <1>3, Zenon DEF InjectPut, Newest
  <2>2. StaleOnlyIfAnnouncedOrMissed'
    BY <2>1, Zenon DEF StaleOnlyIfAnnouncedOrMissed, Stale
  <2>3. QED
    BY <1>3, <2>2 DEF InjectPut
<1>4. CASE LruEvict \/ Notified
  BY <1>4 DEF LruEvict, Notified, Emptied, StaleOnlyIfAnnouncedOrMissed, Stale, None
<1>5. CASE Listen
  BY <1>5, QuietStep DEF Listen
<1>6. CASE ConnectionLost
  <2>1. CASE channel > 0
    BY <1>6, <2>1, UnannouncedExplains DEF ConnectionLost
  <2>2. CASE ~(channel > 0)
    BY <1>6, <2>2, QuietStep DEF ConnectionLost
  <2>3. QED
    BY <2>1, <2>2
<1>7. QED
  BY <1>1, <1>2, <1>3, <1>4, <1>5, <1>6 DEF Inject

(* Deleting the server, which deletes its credentials by cascade, is       *)
(* announced to nobody and recorded as such.                               *)
LEMMA ServerDeletedExplains ==
  ASSUME EvictionTraced, ServerDeleted
  PROVE  EvictionTraced'
  BY UnannouncedExplains DEF ServerDeleted, EvictionTraced, apiVars

(***************************************************************************)
(* Token requests move no call away from its pg_notify.                    *)
(***************************************************************************)
LEMMA TokenCallExplains ==
  ASSUME EvictionTraced, NEW a \in ApiCalls, TokenCall(a)
  PROVE  EvictionTraced'
<1> USE DEF EvictionTraced
<1>1. UNCHANGED <<rows, cache, channel, untold, lateFill>>
  BY DEF TokenCall, VerifyTokenOwnership, VerifyOwnership, InsertToken, FindToken,
         UpdateToken, TokenIssued, TokenRevoked, TokenAbort, credentialVars, tableVars
<1>2. PICK from, to, c : from \in TokenSteps \cup {"idle"} /\ Goto(a, from, to, c)
  BY DEF TokenCall, VerifyTokenOwnership, VerifyOwnership, InsertToken, FindToken,
         UpdateToken, TokenIssued, TokenRevoked, TokenAbort, TokenSteps
<1>3. QED
  BY <1>1, <1>2, GotoMoves, QuietStep DEF TokenSteps

(***************************************************************************)
(* The injector's cached credential is the newest one unless its eviction  *)
(* is on the way, it became outdated by a change the listener never hears  *)
(* of, or was so when put: for every interleaving of the API's statements, *)
(* its pg_notify, the injector's SELECT and put, and lost connections.     *)
(***************************************************************************)
THEOREM StaleExplained == ResourcesSpec => []StaleOnlyIfAnnouncedOrMissed
<1>1. ResourcesInit => EvictionTraced
  BY DEF ResourcesInit, Init, EvictionTraced, StaleOnlyIfAnnouncedOrMissed, Stale
<1>2. EvictionTraced /\ [ResourcesNext]_resourceVars => EvictionTraced'
  <2> SUFFICES ASSUME EvictionTraced, [ResourcesNext]_resourceVars
               PROVE  EvictionTraced'
    OBVIOUS
  <2>1. CASE UNCHANGED resourceVars
    BY <2>1, QuietStep DEF resourceVars, vars, tableVars, apiVars, EvictionTraced
  <2>2. QED
    BY <2>1, ApiExplains, InjectorExplains, ServerDeletedExplains, TokenCallExplains
       DEF ResourcesNext, CredentialCall, DeleteServer
<1>3. EvictionTraced => StaleOnlyIfAnnouncedOrMissed
  BY DEF EvictionTraced
<1>4. QED
  BY <1>1, <1>2, <1>3, PTL DEF ResourcesSpec, resourceVars

---------------------------------------------------------------------------
(* The audit trail of the tokens *)

(* The steps of a token handler after which a record is still to be        *)
(* written.                                                                *)
About == {"find_token", "revoke", "revoked", "issued"}

(***************************************************************************)
(* TrailExplainsTable, token by token.                                     *)
(***************************************************************************)
Explained(t) ==
  /\ token[t] # "none" =>
       \/ <<"ServerTokenGenerate", t>> \in trail \cup dropped
       \/ \E a \in ApiCalls : apiPc[a] = "issued" /\ apiId[a] = t
  /\ token[t] = "revoked" =>
       \/ <<"ServerTokenRevoke", t>> \in trail \cup dropped
       \/ \E a \in ApiCalls : apiPc[a] = "revoked" /\ apiId[a] = t
  /\ <<"ServerTokenRevoke", t>> \in trail => token[t] # "active"

(***************************************************************************)
(* TrailExplainsTable alone is not inductive: a revocation about to be     *)
(* recorded must already be in the table, and no record or request may be  *)
(* about an id that is still to be issued.                                 *)
(***************************************************************************)
TokensTraced ==
  /\ DOMAIN apiPc = ApiCalls /\ DOMAIN apiId = ApiCalls
  /\ token \in [TokenIds -> {"none", "active", "revoked"}]
  /\ issued \in 0..MAX_TOKENS
  /\ \A a \in ApiCalls : apiPc[a] \in About => apiId[a] \in 1..issued
  /\ \A a \in ApiCalls : apiPc[a] = "revoked" => token[apiId[a]] # "active"
  /\ \A t \in TokenIds : <<"ServerTokenRevoke", t>> \in trail => t <= issued
  /\ \A t \in TokenIds : Explained(t)

(***************************************************************************)
(* A call that is neither before nor after about a token leaves the        *)
(* tokens' part alone.                                                     *)
(***************************************************************************)
LEMMA OtherCallKeepsTrail ==
  ASSUME TokensTraced, NEW a \in ApiCalls, NEW from, NEW to, NEW c,
         Goto(a, from, to, c), from \notin {"issued", "revoked"}, to \notin About,
         UNCHANGED tokenVars
  PROVE  TokensTraced'
  BY DEF TokensTraced, About, Goto, tokenVars, Explained

(* The steps of the token handlers keep the trail: a change of a token is  *)
(* followed by its record.                                                 *)
LEMMA TokenCallKeepsTrail ==
  ASSUME TokensTraced, NEW a \in ApiCalls, TokenCall(a)
  PROVE  TokensTraced'
<1> USE DEF TokensTraced, About, Goto, tokenVars, TokenIds, Explained
<1>1. CASE VerifyTokenOwnership(a, "issue", 0)
  BY <1>1, OtherCallKeepsTrail DEF VerifyTokenOwnership, VerifyOwnership
<1>2. ASSUME NEW t \in 1..issued, VerifyTokenOwnership(a, "find_token", t)
      PROVE  TokensTraced'
  BY <1>2 DEF VerifyTokenOwnership, VerifyOwnership
<1>3. CASE InsertToken(a)
  <2>1. CASE live
    <3>1. /\ issued < MAX_TOKENS /\ issued' = issued + 1 /\ UNCHANGED <<trail, dropped>>
          /\ token' = [token EXCEPT ![issued + 1] = "active"]
          /\ apiPc' = [apiPc EXCEPT ![a] = "issued"] /\ apiPc[a] = "issue"
          /\ apiId' = [apiId EXCEPT ![a] = issued + 1]
      BY <1>3, <2>1 DEF InsertToken
    <3>2. ASSUME NEW t \in TokenIds PROVE Explained(t)'
      <4>1. CASE t = issued + 1
        BY <3>1, <4>1, TokensAssumption
      <4>2. CASE t # issued + 1
        <5>1. token'[t] = token[t] /\ Explained(t)
          BY <3>1, <4>2
        <5>2. \A b \in ApiCalls : apiPc[b] \in {"issued", "revoked"}
                                    => apiPc'[b] = apiPc[b] /\ apiId'[b] = apiId[b]
          BY <3>1
        <5>3. QED
          BY <3>1, <5>1, <5>2
      <4>3. QED
        BY <4>1, <4>2
    <3>3. QED
      BY <3>1, <3>2, TokensAssumption
  <2>2. CASE ~live
    BY <1>3, <2>2, OtherCallKeepsTrail DEF InsertToken
  <2>3. QED
    BY <2>1, <2>2
<1>4. CASE FindToken(a)
  BY <1>4 DEF FindToken
<1>5. CASE UpdateToken(a)
  <2>1. /\ apiPc' = [apiPc EXCEPT ![a] = "revoked"] /\ apiPc[a] = "revoke"
        /\ apiId' = [apiId EXCEPT ![a] = apiId[a]]
        /\ UNCHANGED <<issued, trail, dropped>>
    BY <1>5 DEF UpdateToken
  <2>2. /\ token' \in [TokenIds -> {"none", "active", "revoked"}]
        /\ \A t \in TokenIds \ {apiId[a]} : token'[t] = token[t]
        /\ token'[apiId[a]] = (IF token[apiId[a]] = "none" THEN "none" ELSE "revoked")
    BY <1>5, TokensAssumption DEF UpdateToken
  <2>3. ASSUME NEW t \in TokenIds PROVE Explained(t)'
    <3>1. \A b \in ApiCalls : apiPc[b] \in {"issued", "revoked"}
                                => apiPc'[b] = apiPc[b] /\ apiId'[b] = apiId[b]
      BY <2>1
    <3>2. CASE t = apiId[a]
      BY <2>1, <2>2, <3>1, <3>2
    <3>3. CASE t # apiId[a]
      BY <2>1, <2>2, <3>1, <3>3
    <3>4. QED
      BY <3>2, <3>3
  <2>4. ASSUME NEW b \in ApiCalls, apiPc'[b] \in About
        PROVE  /\ apiId'[b] \in 1..issued'
               /\ apiPc'[b] = "revoked" => token'[apiId'[b]] # "active"
    <3>1. apiId'[b] = apiId[b] /\ apiPc[b] \in About /\ apiId[b] \in TokenIds
      BY <2>1, <2>4, TokensAssumption
    <3>2. QED
      BY <2>1, <2>2, <2>4, <3>1
  <2>5. QED
    BY <2>1, <2>2, <2>3, <2>4
<1>6. CASE TokenIssued(a)
  BY <1>6 DEF TokenIssued, EmitAudit
<1>7. CASE TokenRevoked(a)
  BY <1>7 DEF TokenRevoked, EmitAudit
<1>8. CASE TokenAbort(a)
  BY <1>8 DEF TokenAbort, TokenSteps, Unlogged
<1>9. QED
  BY <1>1, <1>2, <1>3, <1>4, <1>5, <1>6, <1>7, <1>8 DEF TokenCall

(***************************************************************************)
(* A credential request is never at a token's step, nor ends at one.       *)
(***************************************************************************)
LEMMA CredentialCallKeepsTrail ==
  ASSUME TokensTraced, NEW a \in ApiCalls, CredentialCall(a)
  PROVE  TokensTraced'
<1>1. \E from, to, c : Goto(a, from, to, c) /\ to \notin About
  BY DEF CredentialCall, Api, VerifyOwnership, Store, Lookup, RotateUpdate, RotateNotify,
         Delete, ApiAbort, About
<1>2. apiPc[a] \notin {"issued", "revoked"} /\ UNCHANGED tokenVars
  BY DEF CredentialCall, TokenSteps
<1>3. QED
  BY <1>1, <1>2, OtherCallKeepsTrail DEF Goto

(***************************************************************************)
(* The audit trail explains the table of tokens: no order of statements,   *)
(* dropped handlers, repeated revocations and the server's deletion leaves *)
(* a change without its event, its handler or its drop on record, or a     *)
(* revocation on record for a token that works.                            *)
(***************************************************************************)
THEOREM TrailExplains == ResourcesSpec => []TrailExplainsTable
<1>1. ResourcesInit => TokensTraced
  BY TokensAssumption
     DEF ResourcesInit, Init, TokensTraced, About, Explained, TokenIds
<1>2. TokensTraced /\ [ResourcesNext]_resourceVars => TokensTraced'
  <2> SUFFICES ASSUME TokensTraced, [ResourcesNext]_resourceVars
               PROVE  TokensTraced'
    OBVIOUS
  <2>1. CASE DeleteServer
    <3>1. /\ UNCHANGED <<apiVars, issued, trail, dropped>>
          /\ token' = [t \in TokenIds |-> "none"]
      BY <2>1 DEF DeleteServer, ServerDeleted
    <3>2. ASSUME NEW b \in ApiCalls, apiPc[b] = "revoked"
          PROVE  token'[apiId[b]] # "active"
      BY <3>1, <3>2, TokensAssumption DEF TokensTraced, About, TokenIds
    <3>3. \A t \in TokenIds : Explained(t)'
      BY <3>1 DEF Explained
    <3>4. QED
      BY <3>1, <3>2, <3>3 DEF apiVars, TokensTraced
  <2>2. CASE UNCHANGED <<apiVars, tokenVars>>
    <3>1. ASSUME NEW t \in TokenIds PROVE Explained(t)'
      BY <2>2 DEF apiVars, tokenVars, TokensTraced, Explained
    <3>2. QED
      BY <2>2, <3>1 DEF apiVars, tokenVars, TokensTraced
  <2>3. QED
    BY <2>1, <2>2, TokenCallKeepsTrail, CredentialCallKeepsTrail
       DEF ResourcesNext, resourceVars, vars, apiVars, Inject, InjectLookup, InjectQuery, InjectPut,
           InjectEnd, LruEvict, Listen, Notified, ConnectionLost
<1>3. TokensTraced => TrailExplainsTable
  <2> SUFFICES ASSUME TokensTraced PROVE TrailExplainsTable
    OBVIOUS
  <2>1. ASSUME NEW t \in TokenIds, token[t] # "none"
        PROVE  t \in Recorded("ServerTokenGenerate", "issued")
    <3>1. \/ <<"ServerTokenGenerate", t>> \in trail \cup dropped
          \/ \E a \in ApiCalls : apiPc[a] = "issued" /\ apiId[a] = t
      BY <2>1 DEF TokensTraced, Explained
    <3>2. QED
      BY <3>1, Zenon DEF Recorded, Underway
  <2>2. ASSUME NEW t \in TokenIds, token[t] = "revoked"
        PROVE  t \in Recorded("ServerTokenRevoke", "revoked")
    <3>1. \/ <<"ServerTokenRevoke", t>> \in trail \cup dropped
          \/ \E a \in ApiCalls : apiPc[a] = "revoked" /\ apiId[a] = t
      BY <2>2 DEF TokensTraced, Explained
    <3>2. QED
      BY <3>1, Zenon DEF Recorded, Underway
  <2>3. QED
    BY <2>1, <2>2 DEF TokensTraced, Explained, TrailExplainsTable
<1>4. QED
  BY <1>1, <1>2, <1>3, PTL DEF ResourcesSpec, resourceVars

-----------------------------------------------------------------------------
(* The injector                                                            *)

CONSTANTS Jobs, Key, Resolutions, Statuses
VARIABLES at, checked, job, reply, sent
Proxy == INSTANCE CredentialInjection

-----------------------------------------------------------------------------
(* Which addresses the injector may call (OutboundUrl).  The table of      *)
(* networks and the ranges are compared through a list of conditions on    *)
(* the parts of an address.                                                *)

SameBits(width, k, a, b) == a \div 2 ^ (width - k) = b \div 2 ^ (width - k)

(* The IPv4 addresses that is_blocked_ip refuses (ssrf.rs), octet by octet.*)
Listed4(x) ==
    \/ x[1] = 0
    \/ x[1] = 10
    \/ x[1] = 127
    \/ x[1] = 172 /\ 16 <= x[2] /\ x[2] <= 31
    \/ x[1] = 192 /\ x[2] = 168
    \/ x[1] = 169 /\ x[2] = 254
    \/ x[1] = 100 /\ 64 <= x[2] /\ x[2] <= 127
    \/ 224 <= x[1]
    \/ x[1] = 192 /\ x[2] = 0 /\ x[3] = 2
    \/ x[1] = 198 /\ x[2] = 51 /\ x[3] = 100
    \/ x[1] = 203 /\ x[2] = 0 /\ x[3] = 113

(* x is in the network a.b.c.d/p, not below a.b.c.d, not above a.b.c.d.    *)
Net4(a, b, c, d, p, x) == Proxy!Contains(<< <<a, b, c, d>>, p>>, 8, x)
From4(a, b, c, d, x) == Proxy!AtMost(<<a, b, c, d>>, x)
To4(a, b, c, d, x) == Proxy!AtMost(x, <<a, b, c, d>>)

(* The parts of an address, and the bound of each.                         *)
LEMMA Parts4 == ASSUME NEW x \in Proxy!Ipv4Addr PROVE DOMAIN x = 1 .. 4 /\ \A i \in 1 .. 4 : x[i] \in Nat /\ x[i] <= 255
BY DEF Proxy!Ipv4Addr

(* The indices of the parts.                                               *)
LEMMA Indices4 == \A i \in 1 .. 4 : i = 1 \/ i = 2 \/ i = 3 \/ i = 4
OBVIOUS

(* Ipv4Network::contains part by part.                                    *)
LEMMA PrefixBits4 ==
    ASSUME NEW a, NEW b, NEW c, NEW d, NEW p, NEW x \in Proxy!Ipv4Addr
    PROVE  Net4(a, b, c, d, p, x) <=>
             /\ SameBits(8, Proxy!Covered(p, 8, 1), x[1], a)
             /\ SameBits(8, Proxy!Covered(p, 8, 2), x[2], b)
             /\ SameBits(8, Proxy!Covered(p, 8, 3), x[3], c)
             /\ SameBits(8, Proxy!Covered(p, 8, 4), x[4], d)
<1>1. DOMAIN x = 1 .. 4
  BY Parts4
<1>2. QED
  BY <1>1, Indices4 DEF Proxy!Contains, SameBits, Net4

(* The order of addresses, written out part by part.                       *)
LEMMA Order4 ==
    ASSUME NEW a, NEW b, NEW c, NEW d, NEW x \in Proxy!Ipv4Addr
    PROVE  /\ From4(a, b, c, d, x) <=>
                \/ a < x[1]
                \/ a = x[1] /\ b < x[2]
                \/ a = x[1] /\ b = x[2] /\ c < x[3]
                \/ a = x[1] /\ b = x[2] /\ c = x[3] /\ (d < x[4] \/ d = x[4])
           /\ To4(a, b, c, d, x) <=>
                \/ x[1] < a
                \/ x[1] = a /\ x[2] < b
                \/ x[1] = a /\ x[2] = b /\ x[3] < c
                \/ x[1] = a /\ x[2] = b /\ x[3] = c /\ (x[4] < d \/ x[4] = d)
<1>1. PICK y : y = <<a, b, c, d>>
  BY Zenon
<1>2. /\ DOMAIN x = 1 .. 4 /\ DOMAIN y = 1 .. 4
      /\ y[1] = a /\ y[2] = b /\ y[3] = c /\ y[4] = d
  BY <1>1, Parts4
<1>3. x = y <=> x[1] = a /\ x[2] = b /\ x[3] = c /\ x[4] = d
  BY <1>1, <1>2, Indices4 DEF Proxy!Ipv4Addr
<1>4. (\E i \in 1 .. 4 : x[i] < y[i] /\ \A j \in 1 .. i - 1 : x[j] = y[j]) <=>
            \/ x[1] < a
            \/ x[1] = a /\ x[2] < b
            \/ x[1] = a /\ x[2] = b /\ x[3] < c
            \/ x[1] = a /\ x[2] = b /\ x[3] = c /\ x[4] < d
  BY <1>2, Indices4
<1>5. (\E i \in 1 .. 4 : y[i] < x[i] /\ \A j \in 1 .. i - 1 : y[j] = x[j]) <=>
            \/ a < x[1]
            \/ a = x[1] /\ b < x[2]
            \/ a = x[1] /\ b = x[2] /\ c < x[3]
            \/ a = x[1] /\ b = x[2] /\ c = x[3] /\ d < x[4]
  BY <1>2, Indices4
<1>6. Proxy!AtMost(x, y) <=> x = y \/ \E i \in 1 .. 4 : x[i] < y[i] /\ \A j \in 1 .. i - 1 : x[j] = y[j]
  BY <1>2 DEF Proxy!AtMost
<1>7. Proxy!AtMost(y, x) <=> x = y \/ \E i \in 1 .. 4 : y[i] < x[i] /\ \A j \in 1 .. i - 1 : y[j] = x[j]
  BY <1>2 DEF Proxy!AtMost
<1>8. From4(a, b, c, d, x) = Proxy!AtMost(y, x) /\ To4(a, b, c, d, x) = Proxy!AtMost(x, y)
  BY <1>1 DEF From4, To4
<1>9. QED
  BY ONLY <1>3, <1>4, <1>5, <1>6, <1>7, <1>8

(* The bits of each part that the prefixes in use cover.                   *)
LEMMA Covered4 ==
    /\ Proxy!Covered(4, 8, 1) = 4 /\ Proxy!Covered(4, 8, 2) = 0 /\ Proxy!Covered(4, 8, 3) = 0 /\ Proxy!Covered(4, 8, 4) = 0
    /\ Proxy!Covered(8, 8, 1) = 8 /\ Proxy!Covered(8, 8, 2) = 0 /\ Proxy!Covered(8, 8, 3) = 0 /\ Proxy!Covered(8, 8, 4) = 0
    /\ Proxy!Covered(10, 8, 1) = 8 /\ Proxy!Covered(10, 8, 2) = 2 /\ Proxy!Covered(10, 8, 3) = 0 /\ Proxy!Covered(10, 8, 4) = 0
    /\ Proxy!Covered(12, 8, 1) = 8 /\ Proxy!Covered(12, 8, 2) = 4 /\ Proxy!Covered(12, 8, 3) = 0 /\ Proxy!Covered(12, 8, 4) = 0
    /\ Proxy!Covered(16, 8, 1) = 8 /\ Proxy!Covered(16, 8, 2) = 8 /\ Proxy!Covered(16, 8, 3) = 0 /\ Proxy!Covered(16, 8, 4) = 0
    /\ Proxy!Covered(24, 8, 1) = 8 /\ Proxy!Covered(24, 8, 2) = 8 /\ Proxy!Covered(24, 8, 3) = 8 /\ Proxy!Covered(24, 8, 4) = 0
BY DEF Proxy!Covered

(* What the table of networks covers.                                      *)
LEMMA Blocked4 ==
    ASSUME NEW x \in Proxy!Ipv4Addr
    PROVE  (\E net \in Proxy!blocked_ipv4_networks : Proxy!Contains(net, 8, x)) <=> Listed4(x)
<1>1. x[1] \in Nat /\ x[1] <= 255 /\ x[2] \in Nat /\ x[2] <= 255 /\ x[3] \in Nat /\ x[3] <= 255 /\ x[4] \in Nat /\ x[4] <= 255
  BY Parts4
<1>2. Net4(10, 0, 0, 0, 8, x) <=> x[1] = 10
  <2>1. Net4(10, 0, 0, 0, 8, x) <=>
          /\ SameBits(8, 8, x[1], 10) /\ SameBits(8, 0, x[2], 0)
          /\ SameBits(8, 0, x[3], 0) /\ SameBits(8, 0, x[4], 0)
    BY PrefixBits4, Covered4
  <2>2. QED
    BY <1>1, <2>1 DEF SameBits
<1>3. Net4(172, 16, 0, 0, 12, x) <=> x[1] = 172 /\ 16 <= x[2] /\ x[2] <= 31
  <2>1. Net4(172, 16, 0, 0, 12, x) <=>
          /\ SameBits(8, 8, x[1], 172) /\ SameBits(8, 4, x[2], 16)
          /\ SameBits(8, 0, x[3], 0) /\ SameBits(8, 0, x[4], 0)
    BY PrefixBits4, Covered4
  <2>2. QED
    BY <1>1, <2>1 DEF SameBits
<1>4. Net4(192, 168, 0, 0, 16, x) <=> x[1] = 192 /\ x[2] = 168
  <2>1. Net4(192, 168, 0, 0, 16, x) <=>
          /\ SameBits(8, 8, x[1], 192) /\ SameBits(8, 8, x[2], 168)
          /\ SameBits(8, 0, x[3], 0) /\ SameBits(8, 0, x[4], 0)
    BY PrefixBits4, Covered4
  <2>2. QED
    BY <1>1, <2>1 DEF SameBits
<1>5. Net4(127, 0, 0, 0, 8, x) <=> x[1] = 127
  <2>1. Net4(127, 0, 0, 0, 8, x) <=>
          /\ SameBits(8, 8, x[1], 127) /\ SameBits(8, 0, x[2], 0)
          /\ SameBits(8, 0, x[3], 0) /\ SameBits(8, 0, x[4], 0)
    BY PrefixBits4, Covered4
  <2>2. QED
    BY <1>1, <2>1 DEF SameBits
<1>6. Net4(169, 254, 0, 0, 16, x) <=> x[1] = 169 /\ x[2] = 254
  <2>1. Net4(169, 254, 0, 0, 16, x) <=>
          /\ SameBits(8, 8, x[1], 169) /\ SameBits(8, 8, x[2], 254)
          /\ SameBits(8, 0, x[3], 0) /\ SameBits(8, 0, x[4], 0)
    BY PrefixBits4, Covered4
  <2>2. QED
    BY <1>1, <2>1 DEF SameBits
<1>7. Net4(100, 64, 0, 0, 10, x) <=> x[1] = 100 /\ 64 <= x[2] /\ x[2] <= 127
  <2>1. Net4(100, 64, 0, 0, 10, x) <=>
          /\ SameBits(8, 8, x[1], 100) /\ SameBits(8, 2, x[2], 64)
          /\ SameBits(8, 0, x[3], 0) /\ SameBits(8, 0, x[4], 0)
    BY PrefixBits4, Covered4
  <2>2. QED
    BY <1>1, <2>1 DEF SameBits
<1>8. Net4(224, 0, 0, 0, 4, x) <=> 224 <= x[1] /\ x[1] <= 239
  <2>1. Net4(224, 0, 0, 0, 4, x) <=>
          /\ SameBits(8, 4, x[1], 224) /\ SameBits(8, 0, x[2], 0)
          /\ SameBits(8, 0, x[3], 0) /\ SameBits(8, 0, x[4], 0)
    BY PrefixBits4, Covered4
  <2>2. QED
    BY <1>1, <2>1 DEF SameBits
<1>9. Net4(240, 0, 0, 0, 4, x) <=> 240 <= x[1]
  <2>1. Net4(240, 0, 0, 0, 4, x) <=>
          /\ SameBits(8, 4, x[1], 240) /\ SameBits(8, 0, x[2], 0)
          /\ SameBits(8, 0, x[3], 0) /\ SameBits(8, 0, x[4], 0)
    BY PrefixBits4, Covered4
  <2>2. QED
    BY <1>1, <2>1 DEF SameBits
<1>10. Net4(0, 0, 0, 0, 8, x) <=> x[1] = 0
  <2>1. Net4(0, 0, 0, 0, 8, x) <=>
          /\ SameBits(8, 8, x[1], 0) /\ SameBits(8, 0, x[2], 0)
          /\ SameBits(8, 0, x[3], 0) /\ SameBits(8, 0, x[4], 0)
    BY PrefixBits4, Covered4
  <2>2. QED
    BY <1>1, <2>1 DEF SameBits
<1>11. Net4(192, 0, 2, 0, 24, x) <=> x[1] = 192 /\ x[2] = 0 /\ x[3] = 2
  <2>1. Net4(192, 0, 2, 0, 24, x) <=>
          /\ SameBits(8, 8, x[1], 192) /\ SameBits(8, 8, x[2], 0)
          /\ SameBits(8, 8, x[3], 2) /\ SameBits(8, 0, x[4], 0)
    BY PrefixBits4, Covered4
  <2>2. QED
    BY <1>1, <2>1 DEF SameBits
<1>12. Net4(198, 51, 100, 0, 24, x) <=> x[1] = 198 /\ x[2] = 51 /\ x[3] = 100
  <2>1. Net4(198, 51, 100, 0, 24, x) <=>
          /\ SameBits(8, 8, x[1], 198) /\ SameBits(8, 8, x[2], 51)
          /\ SameBits(8, 8, x[3], 100) /\ SameBits(8, 0, x[4], 0)
    BY PrefixBits4, Covered4
  <2>2. QED
    BY <1>1, <2>1 DEF SameBits
<1>13. Net4(203, 0, 113, 0, 24, x) <=> x[1] = 203 /\ x[2] = 0 /\ x[3] = 113
  <2>1. Net4(203, 0, 113, 0, 24, x) <=>
          /\ SameBits(8, 8, x[1], 203) /\ SameBits(8, 8, x[2], 0)
          /\ SameBits(8, 8, x[3], 113) /\ SameBits(8, 0, x[4], 0)
    BY PrefixBits4, Covered4
  <2>2. QED
    BY <1>1, <2>1 DEF SameBits
<1>14. QED
  BY <1>1, <1>2, <1>3, <1>4, <1>5, <1>6, <1>7, <1>8, <1>9, <1>10, <1>11, <1>12, <1>13
  DEF Proxy!blocked_ipv4_networks, Net4, Listed4

(* What the ranges cover.                                                  *)
LEMMA Reserved4 ==
    ASSUME NEW x \in Proxy!Ipv4Addr
    PROVE  (\E range \in Proxy!ReservedV4 : Proxy!AtMost(range[1], x) /\ Proxy!AtMost(x, range[2])) <=> Listed4(x)
<1>1. x[1] \in Nat /\ x[1] <= 255 /\ x[2] \in Nat /\ x[2] <= 255 /\ x[3] \in Nat /\ x[3] <= 255 /\ x[4] \in Nat /\ x[4] <= 255
  BY Parts4
<1>2. From4(0, 0, 0, 0, x) /\ To4(0, 255, 255, 255, x) <=> x[1] = 0
  BY <1>1, Order4
<1>3. From4(10, 0, 0, 0, x) /\ To4(10, 255, 255, 255, x) <=> x[1] = 10
  BY <1>1, Order4
<1>4. From4(100, 64, 0, 0, x) /\ To4(100, 127, 255, 255, x) <=> x[1] = 100 /\ 64 <= x[2] /\ x[2] <= 127
  BY <1>1, Order4
<1>5. From4(127, 0, 0, 0, x) /\ To4(127, 255, 255, 255, x) <=> x[1] = 127
  BY <1>1, Order4
<1>6. From4(169, 254, 0, 0, x) /\ To4(169, 254, 255, 255, x) <=> x[1] = 169 /\ x[2] = 254
  BY <1>1, Order4
<1>7. From4(172, 16, 0, 0, x) /\ To4(172, 31, 255, 255, x) <=> x[1] = 172 /\ 16 <= x[2] /\ x[2] <= 31
  BY <1>1, Order4
<1>8. From4(192, 0, 2, 0, x) /\ To4(192, 0, 2, 255, x) <=> x[1] = 192 /\ x[2] = 0 /\ x[3] = 2
  BY <1>1, Order4
<1>9. From4(192, 168, 0, 0, x) /\ To4(192, 168, 255, 255, x) <=> x[1] = 192 /\ x[2] = 168
  BY <1>1, Order4
<1>10. From4(198, 51, 100, 0, x) /\ To4(198, 51, 100, 255, x) <=> x[1] = 198 /\ x[2] = 51 /\ x[3] = 100
  BY <1>1, Order4
<1>11. From4(203, 0, 113, 0, x) /\ To4(203, 0, 113, 255, x) <=> x[1] = 203 /\ x[2] = 0 /\ x[3] = 113
  BY <1>1, Order4
<1>12. From4(224, 0, 0, 0, x) /\ To4(255, 255, 255, 255, x) <=> 224 <= x[1]
  BY <1>1, Order4
<1>13. QED
  BY <1>1, <1>2, <1>3, <1>4, <1>5, <1>6, <1>7, <1>8, <1>9, <1>10, <1>11, <1>12
  DEF Proxy!ReservedV4, Proxy!TOP, From4, To4, Listed4

(* The IPv6 addresses that is_blocked_ip refuses, word by word.            *)
Listed8(x) ==
    \/ x[1] = 0 /\ x[2] = 0 /\ x[3] = 0 /\ x[4] = 0 /\ x[5] = 0 /\ x[6] = 0 /\ x[7] = 0 /\ x[8] = 1
    \/ x[1] = 0 /\ x[2] = 0 /\ x[3] = 0 /\ x[4] = 0 /\ x[5] = 0 /\ x[6] = 65535
    \/ 64512 <= x[1] /\ x[1] <= 65023
    \/ 65152 <= x[1] /\ x[1] <= 65215

(* The same as Net4, From4 and To4 for the eight words of an IPv6 address. *)
Net8(a, b, c, d, e, f, g, h, p, x) == Proxy!Contains(<< <<a, b, c, d, e, f, g, h>>, p>>, 16, x)
From8(a, b, c, d, e, f, g, h, x) == Proxy!AtMost(<<a, b, c, d, e, f, g, h>>, x)
To8(a, b, c, d, e, f, g, h, x) == Proxy!AtMost(x, <<a, b, c, d, e, f, g, h>>)

(* The parts of an address, and the bound of each.                         *)
LEMMA Parts8 == ASSUME NEW x \in Proxy!Ipv6Addr PROVE DOMAIN x = 1 .. 8 /\ \A i \in 1 .. 8 : x[i] \in Nat /\ x[i] <= 65535
BY DEF Proxy!Ipv6Addr

(* The indices of the parts.                                               *)
LEMMA Indices8 == \A i \in 1 .. 8 : i = 1 \/ i = 2 \/ i = 3 \/ i = 4 \/ i = 5 \/ i = 6 \/ i = 7 \/ i = 8
OBVIOUS

(* Ipv6Network::contains part by part.                                    *)
LEMMA PrefixBits8 ==
    ASSUME NEW a, NEW b, NEW c, NEW d, NEW e, NEW f, NEW g, NEW h, NEW p, NEW x \in Proxy!Ipv6Addr
    PROVE  Net8(a, b, c, d, e, f, g, h, p, x) <=>
             /\ SameBits(16, Proxy!Covered(p, 16, 1), x[1], a)
             /\ SameBits(16, Proxy!Covered(p, 16, 2), x[2], b)
             /\ SameBits(16, Proxy!Covered(p, 16, 3), x[3], c)
             /\ SameBits(16, Proxy!Covered(p, 16, 4), x[4], d)
             /\ SameBits(16, Proxy!Covered(p, 16, 5), x[5], e)
             /\ SameBits(16, Proxy!Covered(p, 16, 6), x[6], f)
             /\ SameBits(16, Proxy!Covered(p, 16, 7), x[7], g)
             /\ SameBits(16, Proxy!Covered(p, 16, 8), x[8], h)
<1>1. DOMAIN x = 1 .. 8
  BY Parts8
<1>2. QED
  BY <1>1, Indices8 DEF Proxy!Contains, SameBits, Net8

(* The order of addresses, written out part by part.                       *)
LEMMA Order8 ==
    ASSUME NEW a, NEW b, NEW c, NEW d, NEW e, NEW f, NEW g, NEW h, NEW x \in Proxy!Ipv6Addr
    PROVE  /\ From8(a, b, c, d, e, f, g, h, x) <=>
                \/ a < x[1]
                \/ a = x[1] /\ b < x[2]
                \/ a = x[1] /\ b = x[2] /\ c < x[3]
                \/ a = x[1] /\ b = x[2] /\ c = x[3] /\ d < x[4]
                \/ a = x[1] /\ b = x[2] /\ c = x[3] /\ d = x[4] /\ e < x[5]
                \/ a = x[1] /\ b = x[2] /\ c = x[3] /\ d = x[4] /\ e = x[5] /\ f < x[6]
                \/ a = x[1] /\ b = x[2] /\ c = x[3] /\ d = x[4] /\ e = x[5] /\ f = x[6] /\ g < x[7]
                \/ a = x[1] /\ b = x[2] /\ c = x[3] /\ d = x[4] /\ e = x[5] /\ f = x[6] /\ g = x[7] /\ (h < x[8] \/ h = x[8])
           /\ To8(a, b, c, d, e, f, g, h, x) <=>
                \/ x[1] < a
                \/ x[1] = a /\ x[2] < b
                \/ x[1] = a /\ x[2] = b /\ x[3] < c
                \/ x[1] = a /\ x[2] = b /\ x[3] = c /\ x[4] < d
                \/ x[1] = a /\ x[2] = b /\ x[3] = c /\ x[4] = d /\ x[5] < e
                \/ x[1] = a /\ x[2] = b /\ x[3] = c /\ x[4] = d /\ x[5] = e /\ x[6] < f
                \/ x[1] = a /\ x[2] = b /\ x[3] = c /\ x[4] = d /\ x[5] = e /\ x[6] = f /\ x[7] < g
                \/ x[1] = a /\ x[2] = b /\ x[3] = c /\ x[4] = d /\ x[5] = e /\ x[6] = f /\ x[7] = g /\ (x[8] < h \/ x[8] = h)
<1>1. PICK y : y = <<a, b, c, d, e, f, g, h>>
  BY Zenon
<1>2. /\ DOMAIN x = 1 .. 8 /\ DOMAIN y = 1 .. 8
      /\ y[1] = a /\ y[2] = b /\ y[3] = c /\ y[4] = d /\ y[5] = e /\ y[6] = f /\ y[7] = g /\ y[8] = h
  BY <1>1, Parts8
<1>3. x = y <=> x[1] = a /\ x[2] = b /\ x[3] = c /\ x[4] = d /\ x[5] = e /\ x[6] = f /\ x[7] = g /\ x[8] = h
  BY <1>1, <1>2, Indices8 DEF Proxy!Ipv6Addr
<1>4. (\E i \in 1 .. 8 : x[i] < y[i] /\ \A j \in 1 .. i - 1 : x[j] = y[j]) <=>
            \/ x[1] < a
            \/ x[1] = a /\ x[2] < b
            \/ x[1] = a /\ x[2] = b /\ x[3] < c
            \/ x[1] = a /\ x[2] = b /\ x[3] = c /\ x[4] < d
            \/ x[1] = a /\ x[2] = b /\ x[3] = c /\ x[4] = d /\ x[5] < e
            \/ x[1] = a /\ x[2] = b /\ x[3] = c /\ x[4] = d /\ x[5] = e /\ x[6] < f
            \/ x[1] = a /\ x[2] = b /\ x[3] = c /\ x[4] = d /\ x[5] = e /\ x[6] = f /\ x[7] < g
            \/ x[1] = a /\ x[2] = b /\ x[3] = c /\ x[4] = d /\ x[5] = e /\ x[6] = f /\ x[7] = g /\ x[8] < h
  BY <1>2, Indices8
<1>5. (\E i \in 1 .. 8 : y[i] < x[i] /\ \A j \in 1 .. i - 1 : y[j] = x[j]) <=>
            \/ a < x[1]
            \/ a = x[1] /\ b < x[2]
            \/ a = x[1] /\ b = x[2] /\ c < x[3]
            \/ a = x[1] /\ b = x[2] /\ c = x[3] /\ d < x[4]
            \/ a = x[1] /\ b = x[2] /\ c = x[3] /\ d = x[4] /\ e < x[5]
            \/ a = x[1] /\ b = x[2] /\ c = x[3] /\ d = x[4] /\ e = x[5] /\ f < x[6]
            \/ a = x[1] /\ b = x[2] /\ c = x[3] /\ d = x[4] /\ e = x[5] /\ f = x[6] /\ g < x[7]
            \/ a = x[1] /\ b = x[2] /\ c = x[3] /\ d = x[4] /\ e = x[5] /\ f = x[6] /\ g = x[7] /\ h < x[8]
  BY <1>2, Indices8
<1>6. Proxy!AtMost(x, y) <=> x = y \/ \E i \in 1 .. 8 : x[i] < y[i] /\ \A j \in 1 .. i - 1 : x[j] = y[j]
  BY <1>2 DEF Proxy!AtMost
<1>7. Proxy!AtMost(y, x) <=> x = y \/ \E i \in 1 .. 8 : y[i] < x[i] /\ \A j \in 1 .. i - 1 : y[j] = x[j]
  BY <1>2 DEF Proxy!AtMost
<1>8. From8(a, b, c, d, e, f, g, h, x) = Proxy!AtMost(y, x) /\ To8(a, b, c, d, e, f, g, h, x) = Proxy!AtMost(x, y)
  BY <1>1 DEF From8, To8
<1>9. QED
  BY ONLY <1>3, <1>4, <1>5, <1>6, <1>7, <1>8

(* The bits of each part that the prefixes in use cover.                   *)
LEMMA Covered8 ==
    /\ Proxy!Covered(7, 16, 1) = 7 /\ Proxy!Covered(7, 16, 2) = 0 /\ Proxy!Covered(7, 16, 3) = 0 /\ Proxy!Covered(7, 16, 4) = 0
       /\ Proxy!Covered(7, 16, 5) = 0 /\ Proxy!Covered(7, 16, 6) = 0 /\ Proxy!Covered(7, 16, 7) = 0 /\ Proxy!Covered(7, 16, 8) = 0
    /\ Proxy!Covered(10, 16, 1) = 10 /\ Proxy!Covered(10, 16, 2) = 0 /\ Proxy!Covered(10, 16, 3) = 0 /\ Proxy!Covered(10, 16, 4) = 0
       /\ Proxy!Covered(10, 16, 5) = 0 /\ Proxy!Covered(10, 16, 6) = 0 /\ Proxy!Covered(10, 16, 7) = 0 /\ Proxy!Covered(10, 16, 8) = 0
    /\ Proxy!Covered(96, 16, 1) = 16 /\ Proxy!Covered(96, 16, 2) = 16 /\ Proxy!Covered(96, 16, 3) = 16 /\ Proxy!Covered(96, 16, 4) = 16
       /\ Proxy!Covered(96, 16, 5) = 16 /\ Proxy!Covered(96, 16, 6) = 16 /\ Proxy!Covered(96, 16, 7) = 0 /\ Proxy!Covered(96, 16, 8) = 0
    /\ Proxy!Covered(128, 16, 1) = 16 /\ Proxy!Covered(128, 16, 2) = 16 /\ Proxy!Covered(128, 16, 3) = 16 /\ Proxy!Covered(128, 16, 4) = 16
       /\ Proxy!Covered(128, 16, 5) = 16 /\ Proxy!Covered(128, 16, 6) = 16 /\ Proxy!Covered(128, 16, 7) = 16 /\ Proxy!Covered(128, 16, 8) = 16
BY DEF Proxy!Covered

(* What the table of networks covers.                                      *)
LEMMA Blocked8 ==
    ASSUME NEW x \in Proxy!Ipv6Addr
    PROVE  (\E net \in Proxy!blocked_ipv6_networks : Proxy!Contains(net, 16, x)) <=> Listed8(x)
<1>1. \A i \in 1 .. 8 : x[i] \in Nat /\ x[i] <= 65535
  BY Parts8
<1>2. Net8(0, 0, 0, 0, 0, 0, 0, 1, 128, x) <=> x[1] = 0 /\ x[2] = 0 /\ x[3] = 0 /\ x[4] = 0 /\ x[5] = 0 /\ x[6] = 0 /\ x[7] = 0 /\ x[8] = 1
  <2>1. Net8(0, 0, 0, 0, 0, 0, 0, 1, 128, x) <=>
          /\ SameBits(16, 16, x[1], 0) /\ SameBits(16, 16, x[2], 0)
          /\ SameBits(16, 16, x[3], 0) /\ SameBits(16, 16, x[4], 0)
          /\ SameBits(16, 16, x[5], 0) /\ SameBits(16, 16, x[6], 0)
          /\ SameBits(16, 16, x[7], 0) /\ SameBits(16, 16, x[8], 1)
    BY PrefixBits8, Covered8
  <2>2. QED
    BY <1>1, <2>1 DEF SameBits
<1>3. Net8(65152, 0, 0, 0, 0, 0, 0, 0, 10, x) <=> 65152 <= x[1] /\ x[1] <= 65215
  <2>1. Net8(65152, 0, 0, 0, 0, 0, 0, 0, 10, x) <=>
          /\ SameBits(16, 10, x[1], 65152) /\ SameBits(16, 0, x[2], 0)
          /\ SameBits(16, 0, x[3], 0) /\ SameBits(16, 0, x[4], 0)
          /\ SameBits(16, 0, x[5], 0) /\ SameBits(16, 0, x[6], 0)
          /\ SameBits(16, 0, x[7], 0) /\ SameBits(16, 0, x[8], 0)
    BY PrefixBits8, Covered8
  <2>2. QED
    BY <1>1, <2>1 DEF SameBits
<1>4. Net8(64512, 0, 0, 0, 0, 0, 0, 0, 7, x) <=> 64512 <= x[1] /\ x[1] <= 65023
  <2>1. Net8(64512, 0, 0, 0, 0, 0, 0, 0, 7, x) <=>
          /\ SameBits(16, 7, x[1], 64512) /\ SameBits(16, 0, x[2], 0)
          /\ SameBits(16, 0, x[3], 0) /\ SameBits(16, 0, x[4], 0)
          /\ SameBits(16, 0, x[5], 0) /\ SameBits(16, 0, x[6], 0)
          /\ SameBits(16, 0, x[7], 0) /\ SameBits(16, 0, x[8], 0)
    BY PrefixBits8, Covered8
  <2>2. QED
    BY <1>1, <2>1 DEF SameBits
<1>5. Net8(0, 0, 0, 0, 0, 65535, 0, 0, 96, x) <=> x[1] = 0 /\ x[2] = 0 /\ x[3] = 0 /\ x[4] = 0 /\ x[5] = 0 /\ x[6] = 65535
  <2>1. Net8(0, 0, 0, 0, 0, 65535, 0, 0, 96, x) <=>
          /\ SameBits(16, 16, x[1], 0) /\ SameBits(16, 16, x[2], 0)
          /\ SameBits(16, 16, x[3], 0) /\ SameBits(16, 16, x[4], 0)
          /\ SameBits(16, 16, x[5], 0) /\ SameBits(16, 16, x[6], 65535)
          /\ SameBits(16, 0, x[7], 0) /\ SameBits(16, 0, x[8], 0)
    BY PrefixBits8, Covered8
  <2>2. QED
    BY <1>1, <2>1 DEF SameBits
<1>6. QED
  BY <1>1, <1>2, <1>3, <1>4, <1>5
  DEF Proxy!blocked_ipv6_networks, Net8, Listed8

(* What the ranges cover.                                                  *)
LEMMA Reserved8 ==
    ASSUME NEW x \in Proxy!Ipv6Addr
    PROVE  (\E range \in Proxy!ReservedV6 : Proxy!AtMost(range[1], x) /\ Proxy!AtMost(x, range[2])) <=> Listed8(x)
<1>1. \A i \in 1 .. 8 : x[i] \in Nat /\ x[i] <= 65535
  BY Parts8
<1>2. From8(0, 0, 0, 0, 0, 0, 0, 1, x) /\ To8(0, 0, 0, 0, 0, 0, 0, 1, x) <=> x[1] = 0 /\ x[2] = 0 /\ x[3] = 0 /\ x[4] = 0 /\ x[5] = 0 /\ x[6] = 0 /\ x[7] = 0 /\ x[8] = 1
  BY <1>1, Order8
<1>3. From8(0, 0, 0, 0, 0, 65535, 0, 0, x) /\ To8(0, 0, 0, 0, 0, 65535, 65535, 65535, x) <=> x[1] = 0 /\ x[2] = 0 /\ x[3] = 0 /\ x[4] = 0 /\ x[5] = 0 /\ x[6] = 65535
  BY <1>1, Order8
<1>4. From8(64512, 0, 0, 0, 0, 0, 0, 0, x) /\ To8(65023, 65535, 65535, 65535, 65535, 65535, 65535, 65535, x) <=> 64512 <= x[1] /\ x[1] <= 65023
  BY <1>1, Order8
<1>5. From8(65152, 0, 0, 0, 0, 0, 0, 0, x) /\ To8(65215, 65535, 65535, 65535, 65535, 65535, 65535, 65535, x) <=> 65152 <= x[1] /\ x[1] <= 65215
  BY <1>1, Order8
<1>6. QED
  BY <1>1, <1>2, <1>3, <1>4, <1>5
  DEF Proxy!ReservedV6, Proxy!TOP, From8, To8, Listed8

(* The table of networks blocks exactly the ranges its comments name, for  *)
(* every IPv4 and every IPv6 address (ssrf.rs:52-111).                     *)
THEOREM BlockedIsReserved ==
    ASSUME NEW h \in Proxy!IpAddr
    PROVE  Proxy!is_blocked_ip(h) <=> Proxy!Reserved(h)
<1>1. CASE h.kind = "v4"
  <2>1. h.ip \in Proxy!Ipv4Addr
    BY <1>1 DEF Proxy!IpAddr
  <2>2. QED
    BY <1>1, <2>1, Blocked4, Reserved4 DEF Proxy!is_blocked_ip, Proxy!Reserved
<1>2. CASE h.kind = "v6"
  <2>1. h.ip \in Proxy!Ipv6Addr
    BY <1>2 DEF Proxy!IpAddr
  <2>2. QED
    BY <1>2, <2>1, Blocked8, Reserved8 DEF Proxy!is_blocked_ip, Proxy!Reserved
<1>3. QED
  BY <1>1, <1>2 DEF Proxy!IpAddr

-----------------------------------------------------------------------------
(* What the injector's handler has done by each of its awaits: before the  *)
(* request nothing has been sent, replied or recorded; between the request *)
(* and the end the request is out and not yet recorded.                    *)
BeforeRequest == at \in {"arrived", "lookup", "resolving"}
DuringRequest == at \in {"sent", "body"}

UseTraced ==
    /\ job \in Jobs
    /\ BeforeRequest => sent = Proxy!NotSent /\ reply = Proxy!NoReply /\ trail = <<>> /\ checked = {}
    /\ at = "resolving" => job.url.host.kind = "domain"
    /\ DuringRequest => sent # Proxy!NotSent /\ trail = <<>>
    /\ at = "sent" => reply = Proxy!NoReply
    /\ at = "body" => reply.status = 200 /\ DOMAIN reply = {"status", "upstream", "json"}
    /\ at \in {"arrived", "lookup", "resolving", "sent", "body", "done", "dropped"}

(* The inductive invariant: the two properties, and what they need to know *)
(* of the handler's place.                                                 *)
InjectInv == UseTraced /\ Proxy!EveryUseAudited /\ Proxy!BlocksExactlyReserved

(* The errors the handler returns: none has the status of an answer, and   *)
(* only a refused URL has status 422 (error.rs:160-196).                   *)
LEMMA ErrorStatuses ==
    /\ \A e \in {"Forbidden", "BadRequest", "InternalServerError", "CredentialNotFound",
                 "UpstreamTimeout", "UpstreamUnreachable"} :
         /\ Proxy!into_response(e).status \notin {200, 422}
         /\ Proxy!into_response(e) # Proxy!NoReply
    /\ Proxy!into_response("SsrfBlocked").status = 422
<1>1. \A e \in {"Forbidden", "BadRequest", "InternalServerError", "CredentialNotFound",
                 "UpstreamTimeout", "UpstreamUnreachable"} :
         Proxy!status_code(e) \in {403, 400, 500, 404, 504, 502}
  BY DEF Proxy!status_code
<1>2. Proxy!status_code("SsrfBlocked") = 422
  BY DEF Proxy!status_code
<1>3. QED
  BY <1>1, <1>2 DEF Proxy!into_response, Proxy!NoReply

(* A request carries the credential somewhere.                             *)
LEMMA CarriedIsSent == ASSUME NEW c, c.auth_type \in Proxy!AuthTypes PROVE Proxy!Carried(c) # Proxy!NotSent
BY DEF Proxy!AuthTypes, Proxy!Carried, Proxy!NotSent

(* The first event of a trail.                                             *)
LEMMA FirstEvent == ASSUME NEW v PROVE Len(Append(<<>>, v)) = 1 /\ Append(<<>>, v)[1] = v
OBVIOUS

(* An early return before the request leaves nothing sent and nothing on   *)
(* record, and is no refusal of an address (inject.rs:95-208).             *)
LEMMA ReturnKeeps ==
    ASSUME InjectInv, BeforeRequest, UNCHANGED <<job, sent, trail>>,
           NEW e \in {"Forbidden", "BadRequest", "InternalServerError", "CredentialNotFound",
                 "UpstreamTimeout", "UpstreamUnreachable"}, Proxy!Return(e)
    PROVE  InjectInv'
<1>1. reply'.status \notin {200, 422}
  BY ErrorStatuses DEF Proxy!Return
<1>2. sent' = Proxy!NotSent /\ trail' = <<>> /\ job' \in Jobs /\ at' = "done"
  BY DEF InjectInv, UseTraced, Proxy!Return
<1>3. UseTraced'
  BY <1>2 DEF UseTraced, BeforeRequest, DuringRequest
<1>4. QED
  BY <1>1, <1>2, <1>3 DEF InjectInv, Proxy!EveryUseAudited, Proxy!BlocksExactlyReserved

(* The end of the checks: the request goes out, or an early return.  The   *)
(* addresses known at that point have been found harmless                  *)
(* (inject.rs:160-208).                                                    *)
LEMMA SendKeeps ==
    ASSUME InjectInv, BeforeRequest, UNCHANGED <<job, trail>>, Proxy!Send,
           \A ip \in Proxy!Addresses' : ~Proxy!Reserved(ip)
    PROVE  InjectInv'
<1>1. CASE \E e \in {"BadRequest", "InternalServerError"} : Proxy!Return(e) /\ UNCHANGED sent
  BY <1>1, ReturnKeeps
<1>2. CASE at' = "sent" /\ sent' = Proxy!Carried(job.credential) /\ UNCHANGED reply
                 /\ job.credential.auth_type \in Proxy!AuthTypes
  <2>1. sent' # Proxy!NotSent /\ trail' = <<>> /\ reply' = Proxy!NoReply /\ job' \in Jobs
    BY <1>2, CarriedIsSent DEF InjectInv, UseTraced
  <2>2. UseTraced'
    BY <1>2, <2>1 DEF UseTraced, BeforeRequest, DuringRequest
  <2>3. QED
    BY <1>2, <2>1, <2>2 DEF InjectInv, Proxy!EveryUseAudited, Proxy!BlocksExactlyReserved
<1>3. QED
  BY <1>1, <1>2 DEF Proxy!Send

(* Nothing is sent and nothing recorded on arrival.                        *)
LEMMA InjectInitially == Proxy!Init => InjectInv
BY DEF Proxy!Init, InjectInv, UseTraced, BeforeRequest, DuringRequest, Proxy!EveryUseAudited,
       Proxy!BlocksExactlyReserved

(* Every step of the handler keeps the account of its use of the           *)
(* credential.                                                             *)
LEMMA InjectInductive ==
    ASSUME Proxy!HostsValid
    PROVE  InjectInv /\ [Proxy!Next]_(Proxy!vars) => InjectInv'
<1> SUFFICES ASSUME InjectInv, [Proxy!Next]_(Proxy!vars) PROVE InjectInv'
  OBVIOUS
<1>1. CASE Proxy!Admit
  <2>1. CASE Proxy!Return("Forbidden")
    BY <1>1, <2>1, ReturnKeeps DEF Proxy!Admit, BeforeRequest
  <2>2. CASE at' = "lookup" /\ UNCHANGED reply
    BY <1>1, <2>2 DEF Proxy!Admit, InjectInv, UseTraced, BeforeRequest, DuringRequest, Proxy!EveryUseAudited,
                      Proxy!BlocksExactlyReserved, Proxy!Addresses
  <2>3. QED
    BY <1>1, <2>1, <2>2 DEF Proxy!Admit
<1>2. CASE Proxy!LookupFails
  BY <1>2, ReturnKeeps DEF Proxy!LookupFails, BeforeRequest
<1>3. CASE Proxy!ResolveFails
  BY <1>3, ReturnKeeps DEF Proxy!ResolveFails, BeforeRequest
<1>4. CASE Proxy!Lookup
  <2>1. BeforeRequest /\ UNCHANGED <<job, checked, trail>> /\ sent = Proxy!NotSent /\ checked = {} /\ job \in Jobs
    BY <1>4 DEF Proxy!Lookup, BeforeRequest, InjectInv, UseTraced
  <2>2. CASE \E e \in {"CredentialNotFound", "InternalServerError", "BadRequest"} : Proxy!Return(e) /\ UNCHANGED sent
    BY <2>1, <2>2, ReturnKeeps
  <2>3. CASE ~Proxy!validate_url(job.url) /\ Proxy!Return("SsrfBlocked") /\ UNCHANGED sent
    <3>1. at' = "done" /\ sent' = Proxy!NotSent /\ trail' = <<>> /\ reply'.status = 422
      BY <2>1, <2>3, ErrorStatuses DEF Proxy!Return, InjectInv, UseTraced
    <3>2. UseTraced'
      BY <2>1, <3>1 DEF UseTraced, BeforeRequest, DuringRequest
    <3>3. Proxy!Addresses' = Proxy!Addresses /\ checked = {}
      BY <2>1 DEF Proxy!Addresses
    <3>4. ASSUME Proxy!Addresses # {}, job.url.scheme \in {"http", "https"}, job.url.port \notin Proxy!BLOCKED_PORTS
          PROVE  \E ip \in Proxy!Addresses : Proxy!Reserved(ip)
      <4>1. job.url.host.kind \in {"v4", "v6"} /\ Proxy!Addresses = {job.url.host}
        BY <3>3, <3>4 DEF Proxy!Addresses
      <4>2. job.url.host \in Proxy!IpAddr
        BY <2>1, <4>1 DEF Proxy!HostsValid
      <4>3. job.url.host # Proxy!NoHost /\ job.url.host.kind # "domain"
        BY <4>1 DEF Proxy!NoHost
      <4>4. Proxy!is_blocked_ip(job.url.host)
        BY <2>3, <3>4, <4>3 DEF Proxy!validate_url
      <4>5. QED
        BY <4>1, <4>2, <4>4, BlockedIsReserved
    <3>5. Proxy!BlocksExactlyReserved'
      BY <2>1, <3>1, <3>3, <3>4 DEF Proxy!BlocksExactlyReserved
    <3>6. QED
      BY <3>1, <3>2, <3>5 DEF InjectInv, Proxy!EveryUseAudited
  <2>4. CASE job.url.host.kind = "domain" /\ at' = "resolving" /\ UNCHANGED <<reply, sent>>
    BY <2>1, <2>4 DEF InjectInv, UseTraced, BeforeRequest, DuringRequest, Proxy!EveryUseAudited,
                      Proxy!BlocksExactlyReserved, Proxy!Addresses
  <2>5. CASE Proxy!validate_url(job.url) /\ job.url.host.kind # "domain" /\ Proxy!Send
    <3>1. \A ip \in Proxy!Addresses' : ~Proxy!Reserved(ip)
      <4>1. CASE job.url.host.kind \in {"v4", "v6"}
        <5>1. Proxy!Addresses' = {job.url.host} /\ ~Proxy!is_blocked_ip(job.url.host)
          BY <2>1, <2>5, <4>1 DEF Proxy!Addresses, Proxy!validate_url
        <5>2. job.url.host \in Proxy!IpAddr
          BY <2>1, <4>1 DEF Proxy!HostsValid
        <5>3. QED
          BY <5>1, <5>2, BlockedIsReserved
      <4>2. CASE job.url.host.kind \notin {"v4", "v6"}
        BY <2>1, <4>2 DEF Proxy!Addresses
      <4>3. QED
        BY <4>1, <4>2
    <3>2. QED
      BY <2>1, <2>5, <3>1, SendKeeps
  <2>6. QED
    BY <1>4, <2>2, <2>3, <2>4, <2>5 DEF Proxy!Lookup
<1>5. ASSUME NEW ips \in Resolutions, Proxy!Resolved(ips) PROVE InjectInv'
  <2>1. /\ BeforeRequest /\ UNCHANGED <<job, trail>> /\ sent = Proxy!NotSent /\ trail = <<>> /\ checked' = ips
        /\ job \in Jobs /\ job.url.host.kind = "domain" /\ Proxy!Addresses' = ips
    BY <1>5 DEF Proxy!Resolved, BeforeRequest, InjectInv, UseTraced, Proxy!Addresses
  <2>2. \A ip \in ips : Proxy!is_blocked_ip(ip) <=> Proxy!Reserved(ip)
    BY BlockedIsReserved DEF Proxy!HostsValid
  <2>3. CASE (\E ip \in ips : Proxy!is_blocked_ip(ip)) /\ Proxy!Return("SsrfBlocked") /\ UNCHANGED sent
    <3>1. at' = "done" /\ sent' = Proxy!NotSent /\ trail' = <<>> /\ reply'.status = 422
      BY <2>1, <2>3, ErrorStatuses DEF Proxy!Return
    <3>2. UseTraced'
      BY <2>1, <3>1 DEF UseTraced, BeforeRequest, DuringRequest
    <3>3. QED
      BY <2>1, <2>2, <2>3, <3>1, <3>2 DEF InjectInv, Proxy!EveryUseAudited, Proxy!BlocksExactlyReserved
  <2>4. CASE (\A ip \in ips : ~Proxy!is_blocked_ip(ip)) /\ Proxy!Send
    BY <2>1, <2>2, <2>4, SendKeeps
  <2>5. QED
    BY <1>5, <2>3, <2>4 DEF Proxy!Resolved
<1>6. ASSUME NEW e \in {"UpstreamTimeout", "UpstreamUnreachable"}, Proxy!SendFails(e) PROVE InjectInv'
  <2>1. at = "sent" /\ at' = "done" /\ UNCHANGED <<job, checked, sent>> /\ sent # Proxy!NotSent /\ job \in Jobs
    BY <1>6 DEF Proxy!SendFails, Proxy!Return, InjectInv, UseTraced, DuringRequest
  <2>2. \E v : trail' = Append(<<>>, v) /\ v.success = FALSE
    BY <1>6, <2>1 DEF Proxy!SendFails, InjectInv, UseTraced, DuringRequest, Proxy!Event
  <2>3. Len(trail') = 1 /\ trail'[1].success = FALSE
    BY <2>2, FirstEvent
  <2>4. reply'.status \notin {200, 422}
    BY <1>6, ErrorStatuses DEF Proxy!SendFails, Proxy!Return
  <2>5. UseTraced'
    BY <2>1 DEF UseTraced, BeforeRequest, DuringRequest
  <2>6. QED
    BY <2>1, <2>3, <2>4, <2>5 DEF InjectInv, Proxy!EveryUseAudited, Proxy!BlocksExactlyReserved, Proxy!Addresses
<1>7. ASSUME NEW s \in Statuses, Proxy!Answered(s) PROVE InjectInv'
  <2>1. at = "sent" /\ at' = "body" /\ UNCHANGED <<job, checked, sent, trail>> /\ reply'.status = 200
        /\ DOMAIN reply' = {"status", "upstream", "json"}
    BY <1>7 DEF Proxy!Answered
  <2>2. UseTraced'
    BY <2>1 DEF InjectInv, UseTraced, BeforeRequest, DuringRequest
  <2>3. QED
    BY <2>1, <2>2 DEF InjectInv, Proxy!EveryUseAudited, Proxy!BlocksExactlyReserved, Proxy!Addresses
<1>8. ASSUME NEW json \in BOOLEAN, Proxy!Proxied(json) PROVE InjectInv'
  <2>1. at = "body" /\ at' = "done" /\ UNCHANGED <<job, checked, sent>> /\ sent # Proxy!NotSent /\ job \in Jobs
    BY <1>8 DEF Proxy!Proxied, InjectInv, UseTraced, DuringRequest
  <2>2. \E v : trail' = Append(<<>>, v) /\ v.success = TRUE
    <3>1. \A c : Proxy!Event("CredentialAccess", TRUE, c).success = TRUE
      BY DEF Proxy!Event
    <3>2. \E c : trail' = Append(<<>>, Proxy!Event("CredentialAccess", TRUE, c))
      BY <1>8, <2>1, Zenon DEF Proxy!Proxied, InjectInv, UseTraced, DuringRequest
    <3>3. QED
      BY <3>1, <3>2, Zenon
  <2>3. Len(trail') = 1 /\ trail'[1].success = TRUE
    BY <2>2, FirstEvent
  <2>4. reply'.status = 200
    BY <1>8, <2>1 DEF Proxy!Proxied, InjectInv, UseTraced
  <2>5. UseTraced'
    BY <2>1 DEF UseTraced, BeforeRequest, DuringRequest
  <2>6. QED
    BY <2>1, <2>3, <2>4, <2>5 DEF InjectInv, Proxy!EveryUseAudited, Proxy!BlocksExactlyReserved, Proxy!Addresses
<1>9. CASE Proxy!Dropped
  <2>1. at' = "dropped" /\ reply' = Proxy!NoReply /\ UNCHANGED <<job, checked, sent, trail>> /\ job \in Jobs
    BY <1>9 DEF Proxy!Dropped, InjectInv, UseTraced
  <2>2. UseTraced'
    BY <2>1 DEF UseTraced, BeforeRequest, DuringRequest
  <2>3. QED
    BY <2>1, <2>2 DEF InjectInv, Proxy!EveryUseAudited, Proxy!BlocksExactlyReserved, Proxy!Addresses
<1>10. CASE UNCHANGED Proxy!vars
  <2>1. job' = job /\ at' = at /\ checked' = checked /\ sent' = sent /\ reply' = reply /\ trail' = trail
    BY <1>10 DEF Proxy!vars
  <2>2. UseTraced'
    BY <2>1 DEF InjectInv, UseTraced, BeforeRequest, DuringRequest
  <2>3. QED
    BY <2>1, <2>2 DEF InjectInv, Proxy!EveryUseAudited, Proxy!BlocksExactlyReserved, Proxy!Addresses
<1>11. QED
  BY <1>1, <1>2, <1>3, <1>4, <1>5, <1>6, <1>7, <1>8, <1>9, <1>10 DEF Proxy!Next

(* For every set of calls, resolutions and statuses, a request goes out    *)
(* only when no address of its host lies in a reserved range, and one      *)
(* refused over its addresses has one that does (ssrf.rs:52-259,           *)
(* inject.rs:147-158).                                                     *)
THEOREM RefusesExactlyReserved ==
    ASSUME Proxy!HostsValid
    PROVE  Proxy!Spec => []Proxy!BlocksExactlyReserved
<1>1. InjectInv => Proxy!BlocksExactlyReserved
  BY DEF InjectInv
<1>2. QED
  BY InjectInitially, InjectInductive, <1>1, PTL DEF Proxy!Spec

(* For every set of calls, a call that ended after its request went out    *)
(* has left exactly one audit event, and one refused before none           *)
(* (inject.rs:209-277).                                                    *)
THEOREM UsesAudited ==
    ASSUME Proxy!HostsValid
    PROVE  Proxy!Spec => []Proxy!EveryUseAudited
<1>1. InjectInv => Proxy!EveryUseAudited
  BY DEF InjectInv
<1>2. QED
  BY InjectInitially, InjectInductive, <1>1, PTL DEF Proxy!Spec

-----------------------------------------------------------------------------
(* The audit log                                                           *)

CONSTANTS BATCH_SIZE, Bad, CHANNEL_CAPACITY, Callers, Events
VARIABLES aborted, batch, buffer, caller, failed, handle, inTime, inserted,
          logged, open, refused, signal, table, writer
Audit == INSTANCE AuditLogger

(* Nothing is in the empty queue.                                          *)
LEMMA RangeOfEmpty == Audit!Range(<<>>) = {}
BY DEF Audit!Range

(* Sending an event adds it to what the channel holds.                     *)
LEMMA RangeOfAppend ==
  ASSUME NEW S, NEW s \in Seq(S), NEW e
  PROVE  Audit!Range(Append(s, e)) = Audit!Range(s) \cup {e}
<1>1. Append(s, e) \in Seq(S \cup {e}) /\ Len(Append(s, e)) = Len(s) + 1 /\ Len(s) \in Nat
  OBVIOUS
<1>2. \A i \in 1..Len(s) : Append(s, e)[i] = s[i]
  OBVIOUS
<1>3. Append(s, e)[Len(s) + 1] = e
  OBVIOUS
<1>4. DOMAIN s = 1..Len(s) /\ DOMAIN Append(s, e) = 1..(Len(s) + 1)
  BY <1>1
<1>5. QED
  BY <1>1, <1>2, <1>3, <1>4 DEF Audit!Range

(* Receiving an event takes it off what the channel holds.                 *)
LEMMA RangeOfTail ==
  ASSUME NEW S, NEW s \in Seq(S), s # <<>>
  PROVE  /\ Audit!Range(s) = {Head(s)} \cup Audit!Range(Tail(s))
         /\ Tail(s) \in Seq(S) /\ Head(s) \in S
<1>1. Len(s) \in Nat /\ Len(s) >= 1 /\ Len(Tail(s)) = Len(s) - 1 /\ Tail(s) \in Seq(S)
  OBVIOUS
<1>2. Head(s) = s[1] /\ \A i \in 1..Len(Tail(s)) : Tail(s)[i] = s[i + 1]
  OBVIOUS
<1>3. DOMAIN s = 1..Len(s) /\ DOMAIN Tail(s) = 1..(Len(s) - 1)
  BY <1>1
<1>4. ASSUME NEW x \in Audit!Range(s) PROVE x \in {Head(s)} \cup Audit!Range(Tail(s))
  <2>1. PICK i \in 1..Len(s) : x = s[i]
    BY <1>3 DEF Audit!Range
  <2>2. CASE i = 1
    BY <1>2, <2>1, <2>2
  <2>3. CASE i # 1
    <3>1. i - 1 \in 1..(Len(s) - 1) /\ (i - 1) + 1 = i
      BY <1>1, <2>1, <2>3
    <3>2. QED
      BY <1>1, <1>2, <1>3, <2>1, <3>1 DEF Audit!Range
  <2>4. QED
    BY <2>2, <2>3
<1>5. {Head(s)} \cup Audit!Range(Tail(s)) \subseteq Audit!Range(s)
  BY <1>1, <1>2, <1>3 DEF Audit!Range
<1>6. QED
  BY <1>1, <1>4, <1>5

(* A transaction that commits adds its rows to the table.                  *)
LEMMA RangeOfConcat ==
  ASSUME NEW S, NEW s \in Seq(S), NEW t \in Seq(S)
  PROVE  Audit!Range(s \o t) = Audit!Range(s) \cup Audit!Range(t) /\ s \o t \in Seq(S)
<1>1. /\ Len(s) \in Nat /\ Len(t) \in Nat /\ Len(s \o t) = Len(s) + Len(t) /\ s \o t \in Seq(S)
      /\ \A i \in 1..Len(s) : (s \o t)[i] = s[i]
  OBVIOUS
<1>2. ASSUME NEW j \in 1..Len(t) PROVE (s \o t)[Len(s) + j] = t[j] /\ Len(s) + j \in 1..(Len(s) + Len(t))
  BY <1>1
<1>3. DOMAIN s = 1..Len(s) /\ DOMAIN t = 1..Len(t) /\ DOMAIN (s \o t) = 1..(Len(s) + Len(t))
  BY <1>1
<1>4. ASSUME NEW x \in Audit!Range(s \o t) PROVE x \in Audit!Range(s) \cup Audit!Range(t)
  <2>1. PICK i \in 1..(Len(s) + Len(t)) : x = (s \o t)[i]
    BY <1>3 DEF Audit!Range
  <2>2. CASE i \in 1..Len(s)
    BY <1>1, <1>3, <2>1, <2>2 DEF Audit!Range
  <2>3. CASE i \notin 1..Len(s)
    <3>1. i - Len(s) \in 1..Len(t) /\ Len(s) + (i - Len(s)) = i
      BY <1>1, <2>3
    <3>2. x = t[i - Len(s)]
      BY <1>2, <2>1, <3>1
    <3>3. QED
      BY <1>3, <3>1, <3>2 DEF Audit!Range
  <2>4. QED
    BY <2>2, <2>3
<1>5. ASSUME NEW x \in Audit!Range(s) \cup Audit!Range(t) PROVE x \in Audit!Range(s \o t)
  <2>1. CASE x \in Audit!Range(s)
    BY <1>1, <1>3, <2>1 DEF Audit!Range
  <2>2. CASE x \in Audit!Range(t)
    <3>1. PICK j \in 1..Len(t) : x = t[j]
      BY <1>3, <2>2 DEF Audit!Range
    <3>2. QED
      BY <1>2, <1>3, <3>1 DEF Audit!Range
  <2>3. QED
    BY <2>1, <2>2
<1>6. QED
  BY <1>1, <1>4, <1>5

---------------------------------------------------------------------------
(* Event e was logged before event f, every event of S before every event  *)
(* of T, and the events of s in this order.                                *)
BeforeIn(log, e, f) == \E p, q \in 1..Len(log) : p < q /\ log[p] = e /\ log[q] = f
AllBefore(log, S, T) == \A x \in S, y \in T : BeforeIn(log, x, y)
Ordered(log, s) == \A i, j \in 1..Len(s) : i < j => BeforeIn(log, s[i], s[j])

(* An event logged now comes after all that were logged, and leaves their  *)
(* order alone.                                                            *)
LEMMA LoggedLater ==
  ASSUME NEW S, NEW log \in Seq(S), NEW e \in S
  PROVE  /\ \A x, y : BeforeIn(log, x, y) => BeforeIn(Append(log, e), x, y)
         /\ \A x \in Audit!Range(log) : BeforeIn(Append(log, e), x, e)
<1>1. /\ Len(log) \in Nat /\ Len(Append(log, e)) = Len(log) + 1
      /\ Append(log, e)[Len(log) + 1] = e
      /\ \A i \in 1..Len(log) : Append(log, e)[i] = log[i]
  OBVIOUS
<1>2. ASSUME NEW x, NEW y, BeforeIn(log, x, y) PROVE BeforeIn(Append(log, e), x, y)
  <2>1. PICK p \in 1..Len(log), q \in 1..Len(log) : p < q /\ log[p] = x /\ log[q] = y
    BY <1>2 DEF BeforeIn
  <2>2. p \in 1..(Len(log) + 1) /\ q \in 1..(Len(log) + 1)
    BY <1>1
  <2>3. QED
    BY <1>1, <2>1, <2>2 DEF BeforeIn
<1>3. ASSUME NEW x \in Audit!Range(log) PROVE BeforeIn(Append(log, e), x, e)
  <2>1. PICK p \in 1..Len(log) : log[p] = x
    BY DEF Audit!Range
  <2>2. p \in 1..(Len(log) + 1) /\ Len(log) + 1 \in 1..(Len(log) + 1) /\ p < Len(log) + 1
    BY <1>1
  <2>3. QED
    BY <1>1, <2>1, <2>2 DEF BeforeIn
<1>4. QED
  BY <1>2, <1>3

(* Logging an event keeps every order there was.                           *)
LEMMA OrderedLater ==
  ASSUME NEW S, NEW log \in Seq(S), NEW e \in S
  PROVE  /\ \A s : Ordered(log, s) => Ordered(Append(log, e), s)
         /\ \A A, B : AllBefore(log, A, B) => AllBefore(Append(log, e), A, B)
BY LoggedLater DEF Ordered, AllBefore

(* Taking the first event of a queue that is in order leaves the rest in   *)
(* order, after the event that was taken.                                  *)
LEMMA OrderedTail ==
  ASSUME NEW S, NEW log, NEW s \in Seq(S), s # <<>>, Ordered(log, s)
  PROVE  Ordered(log, Tail(s)) /\ AllBefore(log, {Head(s)}, Audit!Range(Tail(s)))
<1>1. Len(s) \in Nat /\ Len(s) >= 1 /\ Len(Tail(s)) = Len(s) - 1 /\ Tail(s) \in Seq(S)
  OBVIOUS
<1>2. Head(s) = s[1] /\ \A i \in 1..Len(Tail(s)) : Tail(s)[i] = s[i + 1]
  OBVIOUS
<1>3. \A i \in 1..Len(Tail(s)) : i + 1 \in 1..Len(s) /\ 1 < i + 1
  BY <1>1
<1>4. ASSUME NEW i \in 1..Len(Tail(s)), NEW j \in 1..Len(Tail(s)), i < j
      PROVE  BeforeIn(log, Tail(s)[i], Tail(s)[j])
  <2>1. i + 1 < j + 1
    BY <1>1, <1>4
  <2>2. QED
    BY <1>2, <1>3, <2>1 DEF Ordered
<1>5. ASSUME NEW y \in Audit!Range(Tail(s)) PROVE BeforeIn(log, Head(s), y)
  <2>1. PICK i \in 1..Len(Tail(s)) : y = Tail(s)[i]
    BY <1>1 DEF Audit!Range
  <2>2. 1 \in 1..Len(s)
    BY <1>1
  <2>3. QED
    BY <1>2, <1>3, <2>1, <2>2 DEF Ordered
<1>6. QED
  BY <1>4, <1>5 DEF Ordered, AllBefore

(* Two queues in order, the first before the second, are in order together.*)
LEMMA OrderedConcat ==
  ASSUME NEW S, NEW log, NEW s \in Seq(S), NEW t \in Seq(S),
         Ordered(log, s), Ordered(log, t), AllBefore(log, Audit!Range(s), Audit!Range(t))
  PROVE  Ordered(log, s \o t)
<1>1. /\ Len(s) \in Nat /\ Len(t) \in Nat /\ Len(s \o t) = Len(s) + Len(t)
      /\ \A i \in 1..Len(s) : (s \o t)[i] = s[i] /\ s[i] \in Audit!Range(s)
  BY DEF Audit!Range
<1>2. ASSUME NEW i \in 1..(Len(s) + Len(t)), i \notin 1..Len(s)
      PROVE  i - Len(s) \in 1..Len(t) /\ (s \o t)[i] = t[i - Len(s)] /\ t[i - Len(s)] \in Audit!Range(t)
  <2>1. i - Len(s) \in 1..Len(t) /\ i > Len(s) /\ i <= Len(s) + Len(t)
    BY <1>1, <1>2
  <2>2. (s \o t)[i] = t[i - Len(s)]
    BY <1>1, <2>1
  <2>3. QED
    BY <2>1, <2>2 DEF Audit!Range
<1>3. ASSUME NEW i \in 1..(Len(s) + Len(t)), NEW j \in 1..(Len(s) + Len(t)), i < j
      PROVE  BeforeIn(log, (s \o t)[i], (s \o t)[j])
  <2>1. CASE i \in 1..Len(s) /\ j \in 1..Len(s)
    BY <1>1, <1>3, <2>1 DEF Ordered
  <2>2. CASE i \in 1..Len(s) /\ j \notin 1..Len(s)
    BY <1>1, <1>2, <2>2 DEF AllBefore
  <2>3. CASE i \notin 1..Len(s)
    <3>1. j \notin 1..Len(s) /\ i - Len(s) < j - Len(s)
      BY <1>1, <1>3, <2>3
    <3>2. QED
      BY <1>2, <2>3, <3>1 DEF Ordered
  <2>4. QED
    BY <2>1, <2>2, <2>3
<1>4. QED
  BY <1>1, <1>3 DEF Ordered

(* An event logged after all of a queue is in order at its end.            *)
LEMMA OrderedAppend ==
  ASSUME NEW S, NEW log, NEW s \in Seq(S), NEW e \in S,
         Ordered(log, s), AllBefore(log, Audit!Range(s), {e})
  PROVE  Ordered(log, Append(s, e))
<1>1. /\ Len(s) \in Nat /\ Len(Append(s, e)) = Len(s) + 1
      /\ Append(s, e)[Len(s) + 1] = e
      /\ \A i \in 1..Len(s) : Append(s, e)[i] = s[i] /\ s[i] \in Audit!Range(s)
  BY DEF Audit!Range
<1>2. ASSUME NEW i \in 1..(Len(s) + 1), NEW j \in 1..(Len(s) + 1), i < j
      PROVE  BeforeIn(log, Append(s, e)[i], Append(s, e)[j])
  <2>1. i \in 1..Len(s)
    BY <1>1, <1>2
  <2>2. CASE j \in 1..Len(s)
    BY <1>1, <1>2, <2>1, <2>2 DEF Ordered
  <2>3. CASE j \notin 1..Len(s)
    <3>1. j = Len(s) + 1
      BY <1>1, <2>3
    <3>2. QED
      BY <1>1, <2>1, <3>1 DEF AllBefore
  <2>4. QED
    BY <2>2, <2>3
<1>3. QED
  BY <1>1, <1>2 DEF Ordered

---------------------------------------------------------------------------
(* What the proof needs of the types.                                      *)
AuditShapes ==
  /\ channel \in Seq(Events) /\ buffer \in Seq(Events) /\ batch \in Seq(Events)
  /\ inserted \in Seq(Events) /\ table \in Seq(Events) /\ logged \in Seq(Events)
  /\ writer \in Audit!WriterSteps
  /\ caller \in [Callers -> Audit!CallerSteps]

(* An event is logged once, and only an event that was logged and not      *)
(* refused is on its way or in the table.                                  *)
Known ==
  /\ \A p, q \in 1..Len(logged) : logged[p] = logged[q] => p = q
  /\ refused \subseteq Audit!Range(logged)
  /\ Audit!Range(table) \cup Audit!Range(inserted) \cup Audit!Range(batch) \cup Audit!Range(buffer) \cup Audit!Range(channel)
       \subseteq Audit!Accepted

(* The table, the open transaction, the batch, the buffer and the channel  *)
(* hold events in the order they were logged, one after the other.         *)
AuditInOrder ==
  /\ Ordered(logged, table) /\ Ordered(logged, inserted) /\ Ordered(logged, batch)
  /\ Ordered(logged, buffer) /\ Ordered(logged, channel)
  /\ AllBefore(logged, Audit!Range(table),
               Audit!Range(inserted) \cup Audit!Range(batch) \cup Audit!Range(buffer) \cup Audit!Range(channel))
  /\ AllBefore(logged, Audit!Range(inserted), Audit!Range(batch) \cup Audit!Range(buffer) \cup Audit!Range(channel))
  /\ AllBefore(logged, Audit!Range(batch), Audit!Range(buffer) \cup Audit!Range(channel))
  /\ AllBefore(logged, Audit!Range(buffer), Audit!Range(channel))

(* The events on their way to the table when the writer has not drained the*)
(* channel for the last time, and when it has.                             *)
OnTheWay ==
  Audit!Range(inserted) \cup Audit!Range(batch)
    \cup IF signal = "taken" THEN {} ELSE Audit!Range(buffer) \cup Audit!Range(channel)

(* Every event logged before the shutdown is in the table, in a batch that *)
(* failed, or on its way to one of these.                                  *)
Flow ==
  /\ inTime \subseteq Audit!Range(table) \cup failed \cup OnTheWay
  /\ signal = "taken" <=> writer \in {"last_flush", "last_commit", "closing", "exited"}
  /\ writer \notin {"flush", "last_flush"} => batch = <<>>
  /\ writer \in {"select", "closing", "exited"} => inserted = <<>>
  /\ \A c \in Callers : caller[c] = "joined" => writer = "exited"

(* The inductive invariant of the logger.                                  *)
AuditInv == AuditShapes /\ Known /\ AuditInOrder /\ Flow

(* Logging an event that was not logged keeps the log without duplicates.  *)
LEMMA AppendKeepsDistinct ==
  ASSUME NEW S, NEW s \in Seq(S), NEW e \in S, e \notin Audit!Range(s),
         \A p, q \in 1..Len(s) : s[p] = s[q] => p = q
  PROVE  \A p, q \in 1..Len(Append(s, e)) : Append(s, e)[p] = Append(s, e)[q] => p = q
<1>1. /\ Len(s) \in Nat /\ Len(Append(s, e)) = Len(s) + 1
      /\ Append(s, e)[Len(s) + 1] = e
      /\ \A i \in 1..Len(s) : Append(s, e)[i] = s[i] /\ s[i] \in Audit!Range(s)
  BY DEF Audit!Range
<1>2. \A p \in 1..(Len(s) + 1) : p \in 1..Len(s) \/ p = Len(s) + 1
  BY <1>1
<1>3. QED
  BY <1>1, <1>2

(* Logging an event, into the channel or refused when it is full or closed *)
(* (audit.rs, log), keeps the invariant.                                   *)
LEMMA LogStep ==
  ASSUME AuditInv, NEW e \in Events, Audit!Log(e) PROVE AuditInv'
<1> USE DEF AuditInv, AuditShapes
<1>1. /\ e \notin Audit!Range(logged) /\ logged' = Append(logged, e) /\ e \in Events
      /\ UNCHANGED <<buffer, writer, batch, inserted, table, signal, caller, failed>>
  BY DEF Audit!Log, Audit!flushVars, Audit!shutdownVars
<1>2. Audit!Range(logged') = Audit!Range(logged) \cup {e} /\ logged' \in Seq(Events)
  BY <1>1, RangeOfAppend
<1>3. /\ \A s : Ordered(logged, s) => Ordered(logged', s)
      /\ \A A, B : AllBefore(logged, A, B) => AllBefore(logged', A, B)
      /\ AllBefore(logged', Audit!Range(logged), {e})
  BY <1>1, OrderedLater, LoggedLater DEF AllBefore
<1>a. \A p, q \in 1..Len(logged') : logged'[p] = logged'[q] => p = q
  <2>1. logged \in Seq(Events) /\ \A p, q \in 1..Len(logged) : logged[p] = logged[q] => p = q
    BY DEF Known
  <2>2. \A p, q \in 1..Len(Append(logged, e)) :
          Append(logged, e)[p] = Append(logged, e)[q] => p = q
    BY <1>1, <2>1, AppendKeepsDistinct
  <2>3. QED
    BY <1>1, <2>2
<1>4. CASE channel' = Append(channel, e) /\ UNCHANGED refused /\ (inTime' = inTime \cup {e} \/ UNCHANGED inTime)
           /\ (signal # "held" => UNCHANGED inTime)
  <2>1. Audit!Range(channel') = Audit!Range(channel) \cup {e} /\ channel' \in Seq(Events)
    BY <1>1, <1>4, RangeOfAppend
  <2>2. Known'
    BY <1>1, <1>2, <1>4, <1>a, <2>1 DEF Known, Audit!Accepted
  <2>3. Ordered(logged', channel')
    <3>1. AllBefore(logged', Audit!Range(channel), {e})
      BY <1>3 DEF AllBefore, Known, Audit!Accepted
    <3>2. QED
      BY <1>1, <1>3, <1>4, <3>1, OrderedAppend DEF AuditInOrder
  <2>4. AuditInOrder'
    <3>1. /\ Audit!Range(table) \subseteq Audit!Range(logged) /\ Audit!Range(inserted) \subseteq Audit!Range(logged)
          /\ Audit!Range(batch) \subseteq Audit!Range(logged) /\ Audit!Range(buffer) \subseteq Audit!Range(logged)
      BY DEF Known, Audit!Accepted
    <3>2. \A A, B : AllBefore(logged, A, B) /\ A \subseteq Audit!Range(logged) => AllBefore(logged', A, B \cup {e})
      BY <1>3 DEF AllBefore
    <3>3. AllBefore(logged', Audit!Range(table),
               Audit!Range(inserted) \cup Audit!Range(batch) \cup Audit!Range(buffer) \cup Audit!Range(channel'))
      BY <2>1, <3>1, <1>3 DEF AllBefore, AuditInOrder
    <3>4. AllBefore(logged', Audit!Range(inserted), Audit!Range(batch) \cup Audit!Range(buffer) \cup Audit!Range(channel'))
      BY <2>1, <3>1, <1>3 DEF AllBefore, AuditInOrder
    <3>5. AllBefore(logged', Audit!Range(batch), Audit!Range(buffer) \cup Audit!Range(channel'))
      BY <2>1, <3>1, <1>3 DEF AllBefore, AuditInOrder
    <3>6. AllBefore(logged', Audit!Range(buffer), Audit!Range(channel'))
      BY <2>1, <3>1, <1>3 DEF AllBefore, AuditInOrder
    <3>7. QED
      BY <1>1, <1>3, <2>3, <3>3, <3>4, <3>5, <3>6 DEF AuditInOrder
  <2>5. Flow'
    BY <1>1, <1>4, <2>1 DEF Flow, OnTheWay
  <2>6. QED
    BY <1>1, <1>2, <2>1, <2>2, <2>4, <2>5
<1>5. CASE UNCHANGED <<channel, inTime>> /\ refused' = refused \cup {e}
  <2>1. Known'
    BY <1>1, <1>2, <1>5, <1>a DEF Known, Audit!Accepted
  <2>2. AuditInOrder'
    BY <1>1, <1>3, <1>5 DEF AuditInOrder
  <2>3. Flow'
    BY <1>1, <1>5 DEF Flow, OnTheWay
  <2>4. QED
    BY <1>1, <1>2, <1>5, <2>1, <2>2, <2>3
<1>6. QED
  BY <1>4, <1>5 DEF Audit!Log

(* Receiving an event into the buffer keeps the invariant.                 *)
LEMMA ReceiveStep == ASSUME AuditInv, Audit!Receive PROVE AuditInv'
<1> USE DEF AuditInv, AuditShapes
<1>1. /\ channel # <<>> /\ channel' = Tail(channel) /\ writer = "select" /\ signal # "taken"
      /\ UNCHANGED <<table, logged, refused, inTime, failed, signal, caller>>
  BY DEF Audit!Receive, Audit!shutdownVars, Audit!historyVars, Flow
<1>2. PICK h \in Events : h = Head(channel)
  BY <1>1, RangeOfTail
<1>3. /\ Audit!Range(channel) = {h} \cup Audit!Range(channel') /\ channel' \in Seq(Events)
      /\ Ordered(logged, channel') /\ AllBefore(logged, {h}, Audit!Range(channel'))
  BY <1>1, <1>2, RangeOfTail, OrderedTail DEF AuditInOrder
<1>4. PICK full \in Seq(Events) : full = Append(buffer, h) /\ Audit!Range(full) = Audit!Range(buffer) \cup {h}
                                    /\ Ordered(logged, full)
  <2>1. AllBefore(logged, Audit!Range(buffer), {h})
    BY <1>3 DEF AuditInOrder, AllBefore
  <2>2. Append(buffer, h) \in Seq(Events) /\ Audit!Range(Append(buffer, h)) = Audit!Range(buffer) \cup {h}
    BY RangeOfAppend
  <2>3. Ordered(logged, Append(buffer, h))
    BY <2>1, OrderedAppend DEF AuditInOrder
  <2>4. QED
    BY <2>2, <2>3
<1>5. batch = <<>> /\ inserted = <<>>
  BY <1>1 DEF Flow
<1>6. CASE Audit!StartFlush(full, "flush")
  <2>1. /\ batch' = full /\ inserted' = <<>> /\ buffer' = <<>> /\ writer' = "flush"
        /\ Audit!Range(inserted') = {} /\ Audit!Range(buffer') = {}
    BY <1>6, RangeOfEmpty DEF Audit!StartFlush
  <2>2. AuditShapes' /\ Known'
    BY <1>1, <1>3, <1>4, <2>1 DEF Known, Audit!Accepted, Audit!WriterSteps
  <2>3. AuditInOrder'
    <3>1. Ordered(logged, <<>>)
      BY DEF Ordered
    <3>2. AllBefore(logged, Audit!Range(table), Audit!Range(full) \cup Audit!Range(channel'))
      BY <1>3, <1>4 DEF AuditInOrder, AllBefore
    <3>3. AllBefore(logged, Audit!Range(full), Audit!Range(channel'))
      BY <1>3, <1>4 DEF AuditInOrder, AllBefore
    <3>4. QED
      BY <1>1, <1>3, <1>4, <2>1, <3>1, <3>2, <3>3 DEF AuditInOrder, AllBefore
  <2>4. Flow'
    BY <1>1, <1>3, <1>4, <1>5, <2>1, RangeOfEmpty DEF Flow, OnTheWay
  <2>5. QED
    BY <2>2, <2>3, <2>4
<1>7. CASE buffer' = full /\ UNCHANGED <<writer, Audit!flushVars>>
  <2>1. AuditShapes' /\ Known'
    BY <1>1, <1>3, <1>4, <1>7 DEF Known, Audit!Accepted, Audit!flushVars
  <2>2. AuditInOrder'
    <3>1. AllBefore(logged, Audit!Range(full), Audit!Range(channel'))
      BY <1>3, <1>4 DEF AuditInOrder, AllBefore
    <3>2. Audit!Range(full) \cup Audit!Range(channel') = Audit!Range(buffer) \cup Audit!Range(channel)
      BY <1>3, <1>4
    <3>3. QED
      BY <1>1, <1>3, <1>4, <1>7, <3>1, <3>2 DEF AuditInOrder, AllBefore, Audit!flushVars
  <2>3. Flow'
    BY <1>1, <1>3, <1>4, <1>5, <1>7 DEF Flow, OnTheWay, Audit!flushVars
  <2>4. QED
    BY <2>1, <2>2, <2>3
<1>8. QED
  BY <1>2, <1>4, <1>6, <1>7 DEF Audit!Receive

(* Taking the buffer as a batch, on the timer or for the last time, keeps  *)
(* the invariant.                                                          *)
LEMMA FlushStep == ASSUME AuditInv, Audit!TimerFires \/ Audit!Drain PROVE AuditInv'
<1> USE DEF AuditInv, AuditShapes
<1>1. /\ writer = "select" /\ signal # "taken" /\ batch = <<>> /\ inserted = <<>>
      /\ UNCHANGED <<table, logged, refused, inTime, failed, caller>>
      /\ Audit!Range(<<>>) = {} /\ Ordered(logged, <<>>)
  BY RangeOfEmpty DEF Audit!TimerFires, Audit!Drain, Audit!shutdownVars, Audit!historyVars, Flow, Ordered
<1>2. /\ batch' \in Seq(Events) /\ Ordered(logged, batch')
      /\ AllBefore(logged, Audit!Range(batch'), Audit!Range(channel'))
      /\ Audit!Range(batch') \cup Audit!Range(channel') = Audit!Range(buffer) \cup Audit!Range(channel)
      /\ channel' \in {channel, <<>>}
      /\ \/ signal' # "taken" /\ writer' = "flush"
         \/ /\ Audit!Range(channel') = {} /\ signal' = "taken"
            /\ writer' = "last_flush" \/ (writer' = "closing" /\ batch' = <<>>)
  <2>1. CASE Audit!TimerFires
    <3>1. /\ batch' = buffer /\ channel' = channel /\ signal' = signal /\ writer' = "flush"
      BY <2>1 DEF Audit!TimerFires, Audit!StartFlush, Audit!shutdownVars
    <3>2. QED
      BY <1>1, <3>1 DEF AuditInOrder
  <2>2. CASE Audit!Drain
    <3>1. Audit!Range(buffer \o channel) = Audit!Range(buffer) \cup Audit!Range(channel) /\ buffer \o channel \in Seq(Events)
      BY RangeOfConcat
    <3>2. Ordered(logged, buffer \o channel)
      BY OrderedConcat DEF AuditInOrder
    <3>3. channel' = <<>> /\ signal' = "taken" /\ batch' = buffer \o channel
      BY <2>2 DEF Audit!Drain, Audit!StartFlush
    <3>4. writer' = "last_flush" \/ (writer' = "closing" /\ buffer \o channel = <<>>)
      BY <2>2 DEF Audit!Drain, Audit!StartFlush
    <3>5. AllBefore(logged, Audit!Range(buffer \o channel), {})
      BY DEF AllBefore
    <3>6. QED
      BY <1>1, <3>1, <3>2, <3>3, <3>4, <3>5
  <2>3. QED
    BY <2>1, <2>2
<1>3. inserted' = <<>> /\ buffer' = <<>>
  BY DEF Audit!TimerFires, Audit!Drain, Audit!StartFlush
<1>4. AuditShapes' /\ Known'
  BY <1>1, <1>2, <1>3 DEF Known, Audit!Accepted, Audit!WriterSteps
<1>5. AuditInOrder'
  <2>1. AllBefore(logged, Audit!Range(table), Audit!Range(batch') \cup Audit!Range(channel'))
    BY <1>2 DEF AuditInOrder, AllBefore
  <2>2. Ordered(logged, channel')
    BY <1>1, <1>2 DEF AuditInOrder
  <2>3. QED
    BY <1>1, <1>2, <1>3, <2>1, <2>2 DEF AuditInOrder, AllBefore
<1>6. Flow'
  BY <1>1, <1>2, <1>3 DEF Flow, OnTheWay
<1>7. QED
  BY <1>4, <1>5, <1>6

(* Inserting a row, which fails for a bad event and drops the batch, keeps *)
(* the invariant (audit.rs, flush_batch).                                  *)
LEMMA InsertStep == ASSUME AuditInv, Audit!Insert PROVE AuditInv'
<1> USE DEF AuditInv, AuditShapes
<1>1. /\ writer \in {"flush", "last_flush"} /\ batch # <<>> /\ batch' = Tail(batch)
      /\ UNCHANGED <<channel, buffer, signal, caller, table, logged, refused, inTime>>
  BY DEF Audit!Insert, Audit!shutdownVars, Audit!historyVars
<1>2. PICK h \in Events : h = Head(batch)
  BY <1>1, RangeOfTail
<1>3. /\ Audit!Range(batch) = {h} \cup Audit!Range(batch') /\ batch' \in Seq(Events)
      /\ Ordered(logged, batch') /\ AllBefore(logged, {h}, Audit!Range(batch'))
  BY <1>1, <1>2, RangeOfTail, OrderedTail DEF AuditInOrder
<1>4. /\ inserted' \in Seq(Events) /\ Ordered(logged, inserted')
      /\ \/ Audit!Range(inserted') = Audit!Range(inserted) \cup {h} /\ UNCHANGED failed
         \/ UNCHANGED inserted /\ failed' = failed \cup {h}
  <2>1. CASE inserted' = Append(inserted, h) /\ UNCHANGED failed
    <3>1. AllBefore(logged, Audit!Range(inserted), {h})
      BY <1>3 DEF AuditInOrder, AllBefore
    <3>2. Append(inserted, h) \in Seq(Events) /\ Audit!Range(Append(inserted, h)) = Audit!Range(inserted) \cup {h}
      BY RangeOfAppend
    <3>3. Ordered(logged, Append(inserted, h))
      BY <3>1, OrderedAppend DEF AuditInOrder
    <3>4. QED
      BY <2>1, <3>2, <3>3
  <2>2. CASE UNCHANGED inserted /\ failed' = failed \cup {h}
    BY <2>2 DEF AuditInOrder
  <2>3. QED
    BY <1>2, <2>1, <2>2 DEF Audit!Insert
<1>5. /\ \/ writer' = writer
         \/ writer' = (IF writer = "flush" THEN "commit" ELSE "last_commit") /\ batch' = <<>>
      /\ writer' \in Audit!WriterSteps
  <2>1. Len(batch) \in Nat /\ Len(batch) # 0 /\ Len(Tail(batch)) = Len(batch) - 1
    BY <1>1
  <2>2. Len(batch) > 1 \/ Len(Tail(batch)) = 0
    BY <2>1
  <2>3. batch' \in Seq(Events) /\ (Len(batch') = 0 => batch' = <<>>)
    BY <1>3
  <2>4. QED
    BY <1>1, <2>2, <2>3 DEF Audit!Insert, Audit!WriterSteps
<1>6. AuditShapes' /\ Known'
  BY <1>1, <1>3, <1>4, <1>5 DEF Known, Audit!Accepted
<1>7. AuditInOrder'
  <2>1. AllBefore(logged, Audit!Range(inserted'), Audit!Range(batch') \cup Audit!Range(buffer) \cup Audit!Range(channel))
    BY <1>3, <1>4 DEF AuditInOrder, AllBefore
  <2>2. AllBefore(logged, Audit!Range(table),
               Audit!Range(inserted') \cup Audit!Range(batch') \cup Audit!Range(buffer) \cup Audit!Range(channel))
    BY <1>3, <1>4 DEF AuditInOrder, AllBefore
  <2>3. AllBefore(logged, Audit!Range(batch'), Audit!Range(buffer) \cup Audit!Range(channel))
    BY <1>3 DEF AuditInOrder, AllBefore
  <2>4. QED
    BY <1>1, <1>3, <1>4, <2>1, <2>2, <2>3 DEF AuditInOrder
<1>8. Flow'
  <2>1. inTime' \subseteq Audit!Range(table') \cup failed' \cup OnTheWay'
    BY <1>1, <1>3, <1>4 DEF Flow, OnTheWay
  <2>2. QED
    BY <1>1, <1>5, <2>1 DEF Flow
<1>9. QED
  BY <1>6, <1>7, <1>8

(* A transaction that does not begin or that commits keeps the invariant.  *)
LEMMA EndStep == ASSUME AuditInv, Audit!BeginFails \/ Audit!Commit PROVE AuditInv'
<1> USE DEF AuditInv, AuditShapes
<1>1. /\ writer \in {"flush", "last_flush", "commit", "last_commit"}
      /\ UNCHANGED <<channel, buffer, signal, caller, logged, refused, inTime>>
      /\ batch' = <<>> /\ inserted' = <<>> /\ writer' = Audit!AfterFlush
      /\ Audit!Range(<<>>) = {} /\ Ordered(logged, <<>>)
  <2>1. CASE Audit!BeginFails
    <3>1. writer \in {"flush", "last_flush"} /\ batch' = <<>> /\ inserted = <<>> /\ writer' = Audit!AfterFlush
      BY ONLY <2>1, Zenon DEF Audit!BeginFails
    <3>2. UNCHANGED <<channel, buffer, inserted, signal, caller, logged, refused, inTime>>
      BY ONLY <2>1 DEF Audit!BeginFails, Audit!shutdownVars, Audit!historyVars
    <3>3. Audit!Range(<<>>) = {} /\ Ordered(logged, <<>>)
      BY ONLY RangeOfEmpty DEF Ordered
    <3>4. QED
      BY ONLY <3>1, <3>2, <3>3
  <2>2. CASE Audit!Commit
    <3>1. writer \in {"commit", "last_commit"} /\ inserted' = <<>> /\ writer' = Audit!AfterFlush
      BY ONLY <2>2, Zenon DEF Audit!Commit
    <3>2. UNCHANGED <<channel, buffer, batch, signal, caller, logged, refused, inTime>>
      BY ONLY <2>2 DEF Audit!Commit, Audit!shutdownVars, Audit!historyVars
    <3>3. Audit!Range(<<>>) = {} /\ Ordered(logged, <<>>)
      BY ONLY RangeOfEmpty DEF Ordered
    <3>4. batch = <<>>
      BY ONLY AuditInv, <3>1, Zenon DEF AuditInv, Flow
    <3>5. QED
      BY ONLY <3>1, <3>2, <3>3, <3>4
  <2>3. QED
    BY <2>1, <2>2
<1>2. /\ table' \in Seq(Events) /\ Ordered(logged, table')
      /\ \/ UNCHANGED table /\ failed' = failed \cup Audit!Range(batch) \cup Audit!Range(inserted)
         \/ Audit!Range(table') = Audit!Range(table) \cup Audit!Range(inserted) /\ UNCHANGED failed /\ batch = <<>>
  <2>1. CASE Audit!BeginFails
    BY <1>1, <2>1 DEF Audit!BeginFails, AuditInOrder
  <2>2. CASE Audit!Commit /\ UNCHANGED table /\ failed' = failed \cup Audit!Range(inserted)
    BY <1>1, <2>2 DEF Audit!Commit, AuditInOrder, Flow
  <2>3. CASE Audit!Commit /\ table' = table \o inserted /\ UNCHANGED failed
    <3>1. Audit!Range(table \o inserted) = Audit!Range(table) \cup Audit!Range(inserted) /\ table \o inserted \in Seq(Events)
      BY RangeOfConcat
    <3>2. AllBefore(logged, Audit!Range(table), Audit!Range(inserted))
      BY DEF AuditInOrder, AllBefore
    <3>3. Ordered(logged, table \o inserted)
      BY <3>2, OrderedConcat DEF AuditInOrder
    <3>4. batch = <<>>
      BY <2>3 DEF Audit!Commit, Flow
    <3>5. QED
      BY <2>3, <3>1, <3>3, <3>4
  <2>4. QED
    BY <2>1, <2>2, <2>3 DEF Audit!Commit
<1>3. writer' \in Audit!WriterSteps
  BY <1>1 DEF Audit!AfterFlush, Audit!WriterSteps
<1>4. AuditShapes' /\ Known'
  BY <1>1, <1>2, <1>3 DEF Known, Audit!Accepted
<1>5. AuditInOrder'
  <2>1. AllBefore(logged, Audit!Range(table'), Audit!Range(buffer) \cup Audit!Range(channel))
    BY <1>2 DEF AuditInOrder, AllBefore
  <2>2. QED
    BY <1>1, <1>2, <2>1 DEF AuditInOrder, AllBefore
<1>6. Flow'
  BY <1>1, <1>2 DEF Flow, OnTheWay, Audit!AfterFlush
<1>7. QED
  BY <1>4, <1>5, <1>6

(* The writer ending keeps the invariant.                                  *)
LEMMA CloseStep == ASSUME AuditInv, Audit!Close PROVE AuditInv'
<1> USE DEF AuditInv, AuditShapes
<1>1. /\ writer = "closing" /\ writer' = "exited" /\ channel' = <<>>
      /\ UNCHANGED <<buffer, batch, inserted, signal, caller, table, logged, refused, inTime, failed>>
      /\ Audit!Range(<<>>) = {} /\ Ordered(logged, <<>>)
  BY RangeOfEmpty DEF Audit!Close, Audit!flushVars, Audit!shutdownVars, Audit!historyVars, Ordered
<1>2. AuditShapes' /\ Known'
  BY <1>1 DEF Known, Audit!Accepted, Audit!WriterSteps
<1>3. AuditInOrder'
  BY <1>1 DEF AuditInOrder, AllBefore
<1>4. Flow'
  BY <1>1 DEF Flow, OnTheWay
<1>5. QED
  BY <1>2, <1>3, <1>4

(* The steps of shutdown, of several callers, keep the invariant.          *)
LEMMA ShutdownStep ==
  ASSUME AuditInv, (\E c \in Callers : Audit!Shutdown(c)) \/ UNCHANGED Audit!vars PROVE AuditInv'
<1> USE DEF AuditInv, AuditShapes
<1>1. UNCHANGED <<channel, buffer, writer, batch, inserted, table, logged, refused, inTime, failed>>
  BY DEF Audit!Shutdown, Audit!ShutdownSignal, Audit!ShutdownTake, Audit!ShutdownJoin, Audit!ShutdownTimeout, Audit!vars, Audit!flushVars, Audit!historyVars
<1>2. signal' = "taken" <=> signal = "taken"
  BY DEF Audit!Shutdown, Audit!ShutdownSignal, Audit!ShutdownTake, Audit!ShutdownJoin, Audit!ShutdownTimeout, Audit!vars
<1>3. \A d \in Callers : caller'[d] = "joined" => writer = "exited"
  BY DEF Audit!Shutdown, Audit!ShutdownSignal, Audit!ShutdownTake, Audit!ShutdownJoin, Audit!ShutdownTimeout, Audit!vars, Flow
<1>a. caller' \in [Callers -> Audit!CallerSteps]
  BY DEF Audit!Shutdown, Audit!ShutdownSignal, Audit!ShutdownTake, Audit!ShutdownJoin, Audit!ShutdownTimeout, Audit!vars, Audit!CallerSteps
<1>4. AuditShapes' /\ Known' /\ AuditInOrder'
  BY <1>1, <1>a DEF Known, Audit!Accepted, AuditInOrder
<1>5. Flow'
  BY <1>1, <1>2, <1>3 DEF Flow, OnTheWay
<1>6. QED
  BY <1>4, <1>5

(* The invariant holds throughout.                                         *)
LEMMA AuditInvHolds == Audit!Spec => []AuditInv
<1>1. Audit!Init => AuditInv
  <2> SUFFICES ASSUME Audit!Init PROVE AuditInv
    OBVIOUS
  <2>1. Audit!Range(<<>>) = {} /\ Ordered(logged, <<>>)
    BY RangeOfEmpty DEF Ordered
  <2>2. AuditShapes /\ Known /\ AuditInOrder
    BY <2>1 DEF Audit!Init, AuditShapes, Audit!WriterSteps, Audit!CallerSteps, Known, AuditInOrder, AllBefore
  <2>3. Flow
    BY <2>1 DEF Audit!Init, Flow
  <2>4. QED
    BY <2>2, <2>3 DEF AuditInv
<1>2. AuditInv /\ [Audit!Next]_(Audit!vars) => AuditInv'
  BY LogStep, ReceiveStep, FlushStep, InsertStep, EndStep, CloseStep, ShutdownStep DEF Audit!Next, Audit!Writer
<1>3. QED
  BY <1>1, <1>2, PTL DEF Audit!Spec

(* When shutdown returns, every event that was logged before it began is in*)
(* the table or in a batch that failed (audit.rs, shutdown).               *)
THEOREM ShutdownLosesNothing == Audit!Spec => []Audit!ShutdownFlushes
<1>1. AuditInv => Audit!ShutdownFlushes
  BY RangeOfEmpty DEF AuditInv, Flow, OnTheWay, Audit!ShutdownFlushes
<1>2. QED
  BY <1>1, AuditInvHolds, PTL

(* An event is in the table once, and the rows of the table are in the     *)
(* order the events were logged (audit.rs, run_writer and flush_batch).    *)
THEOREM WrittenOnceInOrder == Audit!Spec => []Audit!OnceInOrder
<1>1. AuditInv => Audit!OnceInOrder
  <2> SUFFICES ASSUME AuditInv PROVE Audit!OnceInOrder
    OBVIOUS
  <2>1. ASSUME NEW i \in 1..Len(table), NEW j \in 1..Len(table), i < j
        PROVE  table[i] # table[j] /\ Audit!Before(table[i], table[j])
    <3>1. PICK p \in 1..Len(logged), q \in 1..Len(logged) :
            p < q /\ logged[p] = table[i] /\ logged[q] = table[j]
      BY <2>1 DEF AuditInv, AuditInOrder, Ordered, BeforeIn
    <3>2. Len(logged) \in Nat
      BY DEF AuditInv, AuditShapes
    <3>3. QED
      BY <3>1, <3>2 DEF AuditInv, Known, Audit!Before
  <2>2. QED
    BY <2>1 DEF AuditInv, Known, Audit!OnceInOrder
<1>2. QED
  BY <1>1, AuditInvHolds, PTL
=============================================================================
