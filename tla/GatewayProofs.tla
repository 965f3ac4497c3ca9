---------------------------- MODULE GatewayProofs -----------------------------
(***************************************************************************)
(* Proofs about what the gateway serves from. ConfigSync, for any servers, *)
(* slugs, versions and coalescing threshold: the two maps of the cache stay*)
(* together, and the sync task loses nothing of what it was told.          *)
(* McpTransport, for any requests and bodies. SseSessions, for any sessions*)
(* and posts.                                                              *)
(*                                                                         *)
(* A module that is brought in by INSTANCE takes the names it has in common*)
(* with this module from it; no theorem is about two of the components at  *)
(* once.                                                                   *)
(***************************************************************************)
EXTENDS ConfigSync, FiniteSetTheorems, WellFoundedInduction, TLAPS

---------------------------------------------------------------------------
(* What the task is told *)

(***************************************************************************)
(* The notification n is what the trigger says of a row in status st at    *)
(* version ver; the last notification about s in seq is one; and it tells  *)
(* of the row as it is now.                                                *)
(***************************************************************************)
Says(n, st, ver) == n.ver = ver /\ (n.op = "delete" <=> st = "absent")

(* The last notification of seq about server s says that its row has status*)
(* st and version ver.                                                     *)
LastSays(seq, s, st, ver) ==
  \E i \in 1..Len(seq) :
    /\ seq[i].id = s
    /\ Says(seq[i], st, ver)
    /\ \A j \in 1..Len(seq) : j > i => seq[j].id # s

(* The last notification of seq about s tells what its row is now.         *)
LastTells(seq, s) == LastSays(seq, s, status[s], version[s])

(* What is on the way tells s as its row is now: the channel if it mentions*)
(* s, the batch otherwise.                                                 *)
Told(s) == IF Mentions(channel, s) THEN LastTells(channel, s) ELSE LastTells(batch, s)

(***************************************************************************)
(* What is pending cannot put the cache out of step: the row is gone from  *)
(* both, or the task has read it at the version it has.                    *)
(***************************************************************************)
Settled(s) ==
  \/ status[s] # "active" /\ cache[s] = 0
  \/ status[s] # "absent" /\ versions[s] = version[s]

(***************************************************************************)
(* Given the table's columns: a notification is about a row that existed,  *)
(* is not ahead of it, and says "delete" only of a row that is gone for    *)
(* good.                                                                   *)
(***************************************************************************)
Honest(n, st, ver) ==
  /\ n \in Notification
  /\ ver[n.id] >= 1 /\ n.ver <= ver[n.id]
  /\ n.op = "delete" => st[n.id] = "absent"

(* No notification of seq says what the row never was.                     *)
AllHonest(seq, st, ver) == \A i \in 1..Len(seq) : Honest(seq[i], st, ver)

(***************************************************************************)
(* The version map never runs ahead of the table, and a row read at its    *)
(* present version is cached as it is.                                     *)
(***************************************************************************)
ReadIsCached(s) ==
  /\ versions[s] <= version[s]
  /\ versions[s] = version[s] /\ versions[s] # 0 /\ status[s] # "absent"
       => s \in evicted \/ InSync(s)

(* A server that was neither missed nor coalesced away is told of, or      *)
(* settled, or the gateway has it as it is.                                *)
InStep(s) ==
  s \notin missed \cup coalesced =>
    IF Pending(s) THEN Told(s) \/ Settled(s) ELSE s \in evicted \/ InSync(s)

(* What the proof needs of the types.                                      *)
Shapes ==
  /\ status \in [Servers -> {"absent", "active", "inactive"}]
  /\ version \in [Servers -> Nat]
  /\ versions \in [Servers -> Nat]
  /\ cache \in [Servers -> Nat]
  /\ channel \in Seq(Notification)
  /\ batch \in Seq(Notification)
  /\ phase \in Phases
  /\ \A s \in Servers : status[s] # "absent" => version[s] >= 1

(***************************************************************************)
(* Only a task that has LISTENed has a connection, a channel and a batch.  *)
(***************************************************************************)
Quiet ==
  /\ phase \in {"start", "mark", "connect", "replay"}
       => ~connected /\ channel = <<>> /\ batch = <<>>
  /\ phase = "apply" => batch # <<>>
  /\ phase = "start" => \A s \in Servers : cache[s] = 0

(* The inductive invariant of the synchronisation.                         *)
IInv ==
  /\ Shapes
  /\ Quiet
  /\ AllHonest(channel, status, version)
  /\ AllHonest(batch, status, version)
  /\ \A s \in Servers : ReadIsCached(s) /\ InStep(s)

---------------------------------------------------------------------------
(* Lemmas about sequences of notifications *)

(* The members of a queue of notifications are notifications.              *)
LEMMA NotificationTypes ==
  ASSUME NEW seq \in Seq(Notification), NEW k \in 1..Len(seq)
  PROVE  seq[k] \in Notification /\ seq[k].ver \in Nat /\ seq[k].id \in Servers
<1>1. seq[k] \in Notification
  OBVIOUS
<1>2. QED
  BY <1>1 DEF Notification

(* What a notification sent at the end of the channel changes for a server,*)
(* the one it names or another (notify_config_change).                     *)
LEMMA AppendedNotification ==
  ASSUME NEW seq \in Seq(Notification), NEW n \in Notification, NEW s, NEW st, NEW ver
  PROVE  /\ Append(seq, n) \in Seq(Notification)
         /\ Mentions(Append(seq, n), s) <=> Mentions(seq, s) \/ n.id = s
         /\ n.id = s /\ Says(n, st, ver) => LastSays(Append(seq, n), s, st, ver)
         /\ n.id # s /\ LastSays(seq, s, st, ver) => LastSays(Append(seq, n), s, st, ver)
<1> DEFINE t == Append(seq, n)
<1>1. /\ t \in Seq(Notification) /\ Len(t) = Len(seq) + 1 /\ t[Len(seq) + 1] = n
      /\ \A i \in 1..Len(seq) : t[i] = seq[i]
      /\ Len(seq) \in Nat
  OBVIOUS
<1> HIDE DEF t
<1>2. Mentions(t, s) <=> Mentions(seq, s) \/ n.id = s
  BY <1>1 DEF Mentions
<1>3. n.id = s /\ Says(n, st, ver) => LastSays(t, s, st, ver)
  BY <1>1 DEF LastSays
<1>4. ASSUME n.id # s, LastSays(seq, s, st, ver) PROVE LastSays(t, s, st, ver)
  <2>1. PICK i \in 1..Len(seq) : /\ seq[i].id = s /\ Says(seq[i], st, ver)
                                 /\ \A j \in 1..Len(seq) : j > i => seq[j].id # s
    BY <1>4 DEF LastSays
  <2>2. i \in 1..Len(t) /\ t[i] = seq[i] /\ \A j \in 1..Len(t) : j > i => t[j].id # s
    BY <1>1, <1>4, <2>1
  <2>3. QED
    BY <2>1, <2>2 DEF LastSays
<1>5. QED
  BY <1>1, <1>2, <1>3, <1>4 DEF t

(* What taking the first notification off a queue changes for a server.    *)
LEMMA FirstNotification ==
  ASSUME NEW seq \in Seq(Notification), seq # <<>>, NEW s, NEW st, NEW ver
  PROVE  /\ Head(seq) = seq[1] /\ 1 \in 1..Len(seq)
         /\ Tail(seq) \in Seq(Notification) /\ Len(Tail(seq)) = Len(seq) - 1
         /\ \A i \in 1..Len(Tail(seq)) : Tail(seq)[i] = seq[i + 1] /\ i + 1 \in 1..Len(seq)
         /\ Mentions(seq, s) <=> Head(seq).id = s \/ Mentions(Tail(seq), s)
         /\ LastSays(seq, s, st, ver) =>
              IF Mentions(Tail(seq), s) THEN LastSays(Tail(seq), s, st, ver)
                                        ELSE Head(seq).id = s /\ Says(Head(seq), st, ver)
<1> DEFINE t == Tail(seq)
<1>1. /\ t \in Seq(Notification) /\ Len(t) = Len(seq) - 1 /\ Len(seq) \in Nat /\ Len(seq) >= 1
      /\ \A i \in 1..Len(t) : t[i] = seq[i + 1]
      /\ Head(seq) = seq[1]
  OBVIOUS
<1> HIDE DEF t
<1>2. \A i \in 1..Len(seq) : i = 1 \/ (i - 1 \in 1..Len(t) /\ t[i - 1] = seq[i])
  BY <1>1
<1>3. \A i \in 1..Len(t) : i + 1 \in 1..Len(seq)
  BY <1>1
<1>4. Mentions(seq, s) <=> Head(seq).id = s \/ Mentions(t, s)
  BY <1>1, <1>2, <1>3 DEF Mentions
<1>5. ASSUME LastSays(seq, s, st, ver)
      PROVE  IF Mentions(t, s) THEN LastSays(t, s, st, ver)
                               ELSE Head(seq).id = s /\ Says(Head(seq), st, ver)
  <2>1. PICK i \in 1..Len(seq) : /\ seq[i].id = s /\ Says(seq[i], st, ver)
                                 /\ \A j \in 1..Len(seq) : j > i => seq[j].id # s
    BY <1>5 DEF LastSays
  <2>2. CASE i = 1
    <3>1. ~Mentions(t, s)
      <4>1. \A j \in 1..Len(t) : j + 1 \in 1..Len(seq) /\ j + 1 > i
        BY <1>1, <1>3, <2>2
      <4>2. \A j \in 1..Len(t) : t[j].id # s
        BY <1>1, <2>1, <4>1, Zenon
      <4>3. QED
        BY <4>2, Zenon DEF Mentions
    <3>2. QED
      BY <1>1, <2>1, <2>2, <3>1
  <2>3. CASE i # 1
    <3>1. i - 1 \in 1..Len(t) /\ t[i - 1] = seq[i]
      BY <1>2, <2>3
    <3>2. \A j \in 1..Len(t) : j > i - 1 => t[j].id # s
      BY <1>1, <1>3, <2>1
    <3>3. Mentions(t, s)
      BY <2>1, <3>1 DEF Mentions
    <3>4. LastSays(t, s, st, ver)
      BY <2>1, <3>1, <3>2 DEF LastSays
    <3>5. QED
      BY <3>3, <3>4
  <2>4. QED
    BY <2>2, <2>3
<1>6. QED
  BY <1>1, <1>3, <1>4, <1>5 DEF t

---------------------------------------------------------------------------
(* coalesce_batch *)

(***************************************************************************)
(* A non-empty set of naturals has a least element.                        *)
(***************************************************************************)
LEMMA LeastNat ==
  ASSUME NEW T \in SUBSET Nat, T # {}
  PROVE  \E x \in T : \A y \in T : x <= y
<1>1. PICK x \in T : \A y \in T : ~(<<y, x>> \in OpToRel(<, Nat))
  BY NatLessThanWellFounded, WFMin
<1>2. \A y \in T : y \in Nat /\ ~(y < x)
  BY <1>1, Zenon DEF OpToRel
<1>3. QED
  BY <1>2

(***************************************************************************)
(* A server the batch mentions keeps a notification, one with the highest  *)
(* version, and only one.                                                  *)
(***************************************************************************)
LEMMA BestOfServer ==
  ASSUME NEW seq \in Seq(Notification), NEW s, NEW bound \in Nat, Mentions(seq, s),
         \A k \in 1..Len(seq) : seq[k].id = s => seq[k].ver <= bound
  PROVE  \E n \in Best(seq) : n.id = s /\ \A k \in 1..Len(seq) : seq[k].id = s => seq[k].ver <= n.ver
<1> DEFINE About == {k \in 1..Len(seq) : seq[k].id = s}
           Short == {m \in Nat : \E k \in About : seq[k].ver = bound - m}
<1>1. \A k \in 1..Len(seq) : seq[k].ver \in Nat
  BY NotificationTypes
<1>2. PICK k0 \in About : TRUE
  BY DEF Mentions
<1>3. bound - seq[k0].ver \in Short
  BY <1>1
<1>4. PICK m \in Short : \A y \in Short : m <= y
  <2>1. Short \in SUBSET Nat /\ Short # {}
    BY <1>3
  <2>2. QED
    BY <2>1, LeastNat, Zenon
<1> DEFINE First == {k \in About : seq[k].ver = bound - m}
<1>5. PICK j \in First : \A y \in First : j <= y
  <2>1. First \in SUBSET Nat /\ First # {}
    BY <1>4
  <2>2. QED
    BY <2>1, LeastNat, Zenon
<1>6. \A k \in About : seq[k].ver <= seq[j].ver
  <2> TAKE k \in About
  <2>1. bound - seq[k].ver \in Short
    BY <1>1
  <2>2. m \in Nat /\ seq[j].ver = bound - m /\ m <= bound - seq[k].ver
    BY <1>4, <1>5, <2>1, Zenon
  <2>3. QED
    BY <1>1, <2>2
<1>7. \A k \in 1..Len(seq) : seq[k].id = seq[j].id =>
        seq[k].ver < seq[j].ver \/ (seq[k].ver = seq[j].ver /\ j <= k)
  <2> TAKE k \in 1..Len(seq)
  <2>1. HAVE seq[k].id = seq[j].id
  <2>2. k \in About /\ j \in About
    BY <2>1
  <2>3. seq[k].ver <= seq[j].ver /\ seq[k].ver \in Nat /\ seq[j].ver \in Nat
    BY <1>1, <1>6, <2>2
  <2>4. seq[k].ver = seq[j].ver => j <= k
    BY <1>5, <2>2
  <2>5. QED
    BY <2>3, <2>4
<1>8. seq[j] \in Best(seq)
  BY <1>7 DEF Best
<1>9. QED
  BY <1>6, <1>8

(* Coalescing keeps one notification for each server, taken from the batch *)
(* (hot_reload.rs, coalesce_batch).                                        *)
LEMMA BestIsSingle ==
  ASSUME NEW seq \in Seq(Notification)
  PROVE  /\ \A n \in Best(seq) : \E k \in 1..Len(seq) : n = seq[k]
         /\ \A n, m \in Best(seq) : n.id = m.id => n = m
         /\ IsFiniteSet(Best(seq))
<1> DEFINE Chosen == {j \in 1..Len(seq) : \A k \in 1..Len(seq) : seq[k].id = seq[j].id =>
                       \/ seq[k].ver < seq[j].ver
                       \/ seq[k].ver = seq[j].ver /\ j <= k}
           pick == [j \in Chosen |-> seq[j]]
<1>1. Best(seq) = {seq[j] : j \in Chosen}
  BY DEF Best
<1>2. \A k \in 1..Len(seq) : seq[k].ver \in Nat
  BY NotificationTypes
<1>3. \A j, k \in Chosen : seq[j].id = seq[k].id => j = k
  BY <1>2
<1>4. IsFiniteSet(Chosen)
  <2>1. IsFiniteSet(1..Len(seq))
    BY FS_Interval
  <2>2. Chosen \in SUBSET (1..Len(seq))
    OBVIOUS
  <2>3. QED
    BY <2>1, <2>2, FS_Subset
<1>5. pick \in Surjection(Chosen, Best(seq))
  BY <1>1 DEF Surjection
<1>6. QED
  BY <1>1, <1>3, <1>4, <1>5, FS_Surjection

(***************************************************************************)
(* An order of a finite set is a sequence that meets every element once.   *)
(***************************************************************************)
LEMMA OrderMeetsAll ==
  ASSUME NEW S, IsFiniteSet(S), NEW f \in Orders(S)
  PROVE  /\ f \in Seq(S)
         /\ \A x \in S : \E i \in 1..Len(f) : f[i] = x
         /\ \A i, j \in 1..Len(f) : f[i] = f[j] => i = j
<1>1. Cardinality(S) \in Nat
  BY FS_CardinalityType
<1>2. /\ f \in [1..Cardinality(S) -> S]
      /\ \A i, j \in 1..Cardinality(S) : f[i] = f[j] => i = j
      /\ \A x \in S : \E i \in 1..Cardinality(S) : f[i] = x
  BY DEF Orders, Bijection, Injection, IsInjective, Surjection
<1>3. f \in Seq(S) /\ Len(f) = Cardinality(S)
  BY <1>1, <1>2
<1>4. QED
  BY <1>2, <1>3

(* The coalesced batch holds those notifications, each once, in some order:*)
(* the order of a HashMap.                                                 *)
LEMMA CoalescedBatch ==
  ASSUME NEW seq \in Seq(Notification), NEW t \in Orders(Best(seq))
  PROVE  /\ t \in Seq(Notification)
         /\ \A i \in 1..Len(t) : t[i] \in Best(seq) /\ \E k \in 1..Len(seq) : t[i] = seq[k]
         /\ \A n \in Best(seq) : \E i \in 1..Len(t) : t[i] = n
         /\ \A i, j \in 1..Len(t) : t[i] = t[j] => i = j
<1>1. /\ t \in Seq(Best(seq))
      /\ \A n \in Best(seq) : \E i \in 1..Len(t) : t[i] = n
      /\ \A i, j \in 1..Len(t) : t[i] = t[j] => i = j
  BY BestIsSingle, OrderMeetsAll
<1>2. \A i \in 1..Len(t) : t[i] \in Best(seq)
  BY <1>1
<1>3. \A n \in Best(seq) : \E k \in 1..Len(seq) : n = seq[k]
  BY BestIsSingle
<1>4. Best(seq) \subseteq Notification
  BY <1>3, NotificationTypes
<1>5. t \in Seq(Notification)
  BY <1>1, <1>4
<1>6. QED
  BY <1>1, <1>2, <1>3, <1>5, Zenon

(***************************************************************************)
(* Coalescing keeps what the batch says of a server's row, except that it  *)
(* may drop its delete.                                                    *)
(***************************************************************************)
LEMMA CoalescingKeepsTheLast ==
  ASSUME NEW seq \in Seq(Notification), NEW t \in Orders(Best(seq)),
         NEW s \in Servers, NEW st, NEW ver \in Nat,
         \A k \in 1..Len(seq) : seq[k].id = s =>
            seq[k].ver <= ver /\ (seq[k].op = "delete" => st = "absent")
  PROVE  /\ Mentions(t, s) <=> Mentions(seq, s)
         /\ LastSays(seq, s, st, ver) =>
              LastSays(t, s, st, ver) \/ s \in DeletesIn(seq) \ DeletesIn(t)
<1>1. ASSUME Mentions(t, s) PROVE Mentions(seq, s)
  BY <1>1, CoalescedBatch DEF Mentions
<1>2. ASSUME Mentions(seq, s)
      PROVE  \E i \in 1..Len(t) : /\ t[i].id = s
                                   /\ \A k \in 1..Len(seq) : seq[k].id = s => seq[k].ver <= t[i].ver
  <2>1. PICK n \in Best(seq) : /\ n.id = s
                               /\ \A k \in 1..Len(seq) : seq[k].id = s => seq[k].ver <= n.ver
    BY <1>2, BestOfServer, Zenon
  <2>2. PICK i \in 1..Len(t) : t[i] = n
    BY CoalescedBatch
  <2>3. QED
    BY <2>1, <2>2
<1>3. ASSUME LastSays(seq, s, st, ver)
      PROVE  LastSays(t, s, st, ver) \/ s \in DeletesIn(seq) \ DeletesIn(t)
  <2>1. PICK l \in 1..Len(seq) : seq[l].id = s /\ Says(seq[l], st, ver)
    BY <1>3 DEF LastSays
  <2>2. PICK i \in 1..Len(t) : /\ t[i].id = s
                               /\ \A k \in 1..Len(seq) : seq[k].id = s => seq[k].ver <= t[i].ver
    BY <1>2, <2>1 DEF Mentions
  <2>3. \A j \in 1..Len(t) : t[j].id = s => j = i
    BY <2>2, CoalescedBatch, BestIsSingle
  <2>4. PICK k \in 1..Len(seq) : t[i] = seq[k]
    BY CoalescedBatch
  <2>5. t[i].ver = ver /\ (t[i].op = "delete" => st = "absent")
    <3>1. seq[k].ver \in Nat /\ seq[k].ver <= ver /\ seq[l].ver = ver /\ seq[l].ver <= seq[k].ver
      BY <2>1, <2>2, <2>4, NotificationTypes DEF Says
    <3>2. QED
      BY <2>2, <2>4, <3>1
  <2>6. CASE st = "absent" /\ t[i].op # "delete"
    <3>1. s \in DeletesIn(seq)
      BY <2>1, <2>6 DEF DeletesIn, Says
    <3>2. s \notin DeletesIn(t)
      BY <2>3, <2>6 DEF DeletesIn
    <3>3. QED
      BY <3>1, <3>2
  <2>7. CASE ~(st = "absent" /\ t[i].op # "delete")
    <3>1. Says(t[i], st, ver)
      BY <2>5, <2>7 DEF Says
    <3>2. \A j \in 1..Len(t) : j > i => t[j].id # s
      BY <2>3
    <3>3. QED
      BY <2>2, <3>1, <3>2 DEF LastSays
  <2>8. QED
    BY <2>6, <2>7
<1>4. QED
  BY <1>1, <1>2, <1>3 DEF Mentions

---------------------------------------------------------------------------
(* The inductive step, by the parts of the system *)

(***************************************************************************)
(* A server whose row, version and cache entry a step leaves alone, and of *)
(* whose notifications it keeps the last.                                  *)
(***************************************************************************)
LEMMA Untouched ==
  ASSUME IInv, NEW s \in Servers,
         status'[s] = status[s], version'[s] = version[s],
         versions'[s] = versions[s], cache'[s] = cache[s],
         s \in evicted => s \in evicted'
  PROVE  /\ ReadIsCached(s)'
         /\ /\ s \in missed \cup coalesced => (s \in missed \cup coalesced)'
            /\ Pending(s)' <=> Pending(s)
            /\ Told(s) => Told(s)'
            => InStep(s)'
<1>1. ReadIsCached(s) /\ InStep(s)
  BY DEF IInv
<1>2. ReadIsCached(s)'
  BY <1>1 DEF ReadIsCached, InSync, Active
<1>3. Settled(s) => Settled(s)'
  BY DEF Settled
<1>4. InSync(s) => InSync(s)'
  BY DEF InSync, Active
<1>5. QED
  BY <1>1, <1>2, <1>3, <1>4 DEF InStep

(***************************************************************************)
(* The table: a change is on the channel, or on record as missed.          *)
(***************************************************************************)
LEMMA DatabaseStep ==
  ASSUME IInv, Database
  PROVE  IInv'
<1> USE DEF Phases
<1>1. PICK s \in Servers, op \in {"insert", "update", "delete"} :
        /\ Commit(s, op, version'[s])
        /\ version' = [version EXCEPT ![s] = version'[s]]
        /\ status' = [status EXCEPT ![s] = status'[s]]
        /\ version'[s] \in Nat /\ version'[s] >= 1 /\ version'[s] >= version[s]
        /\ status'[s] \in {"absent", "active", "inactive"}
        /\ op = "delete" <=> status'[s] = "absent"
        /\ version[s] >= 1 /\ status[s] = "absent" => FALSE
        /\ version'[s] = version[s] => status'[s] = "absent"
  <2>1. ASSUME NEW s \in Servers, InsertRow(s)
        PROVE  /\ Commit(s, "insert", version'[s])
               /\ version' = [version EXCEPT ![s] = version'[s]]
               /\ status' = [status EXCEPT ![s] = status'[s]]
               /\ version[s] = 0 /\ version'[s] = 1 /\ status'[s] = "active"
    BY <2>1 DEF InsertRow, IInv, Shapes
  <2>2. ASSUME NEW s \in Servers, NEW st \in {"active", "inactive"}, UpdateRow(s, st)
        PROVE  /\ Commit(s, "update", version'[s])
               /\ version' = [version EXCEPT ![s] = version'[s]]
               /\ status' = [status EXCEPT ![s] = status'[s]]
               /\ version[s] >= 1 /\ version'[s] = version[s] + 1 /\ status'[s] = st
               /\ status[s] # "absent" /\ version[s] \in Nat
    BY <2>2 DEF UpdateRow, IInv, Shapes
  <2>3. ASSUME NEW s \in Servers, DeleteRow(s)
        PROVE  /\ Commit(s, "delete", version'[s])
               /\ version' = [version EXCEPT ![s] = version'[s]]
               /\ status' = [status EXCEPT ![s] = status'[s]]
               /\ version[s] >= 1 /\ version'[s] = version[s] /\ status'[s] = "absent"
               /\ status[s] # "absent" /\ version[s] \in Nat
    BY <2>3 DEF DeleteRow, IInv, Shapes
  <2>4. QED
    BY <2>1, <2>2, <2>3 DEF Database
<1> DEFINE n == [id |-> s, op |-> op, ver |-> version'[s]]
<1>2. n \in Notification
  BY <1>1 DEF Notification
<1>3. /\ UNCHANGED <<connected, phase, batch, versions, cache, evicted, coalesced>>
      /\ IF connected THEN channel' = Append(channel, n) /\ UNCHANGED missed
                      ELSE missed' = missed \cup {s} /\ UNCHANGED channel
  BY <1>1 DEF Commit, taskVars, cacheVars, historyVars
<1>4. Shapes'
  <2>1. channel' \in Seq(Notification)
    BY <1>2, <1>3, AppendedNotification, Zenon DEF IInv, Shapes
  <2>2. QED
    BY <1>1, <1>3, <2>1, Zenon DEF IInv, Shapes
<1>5. Quiet'
  BY <1>3 DEF IInv, Quiet
<1>6. ASSUME NEW m, Honest(m, status, version) PROVE Honest(m, status', version')
  <2>1. m \in Notification /\ m.id \in Servers /\ m.ver \in Nat
    BY <1>6 DEF Honest, Notification
  <2>2. CASE m.id = s
    <3>1. version[s] \in Nat /\ version[s] >= 1 /\ m.ver <= version[s]
      BY <1>6, <2>2 DEF Honest, IInv, Shapes
    <3>2. m.op # "delete"
      BY <1>1, <1>6, <2>2, <3>1 DEF Honest
    <3>3. QED
      BY <1>1, <2>1, <2>2, <3>1, <3>2 DEF Honest
  <2>3. CASE m.id # s
    <3>1. status'[m.id] = status[m.id] /\ version'[m.id] = version[m.id]
      BY <1>1, <2>1, <2>3 DEF IInv, Shapes
    <3>2. QED
      BY <1>6, <3>1 DEF Honest
  <2>4. QED
    BY <2>2, <2>3
<1>7. Honest(n, status', version')
  <2>1. n.id = s /\ n.op = op /\ n.ver = version'[s]
    OBVIOUS
  <2>2. QED
    BY <1>1, <1>2, <2>1 DEF Honest
<1> HIDE DEF n
<1>8. AllHonest(channel', status', version')
  <2>1. AllHonest(channel, status', version')
    BY <1>6 DEF IInv, AllHonest
  <2>2. CASE connected
    <3>1. \A i \in 1..Len(channel') : \/ i \in 1..Len(channel) /\ channel'[i] = channel[i]
                                      \/ channel'[i] = n
      BY <1>2, <1>3, <2>2 DEF IInv, Shapes
    <3>2. QED
      BY <1>7, <2>1, <3>1 DEF AllHonest
  <2>3. CASE ~connected
    BY <1>3, <2>1, <2>3
  <2>4. QED
    BY <2>2, <2>3
<1>9. AllHonest(batch', status', version')
  BY <1>3, <1>6 DEF IInv, AllHonest
<1>10. ASSUME NEW t \in Servers PROVE ReadIsCached(t)' /\ InStep(t)'
  <2>1. CASE t = s
    <3>1. ReadIsCached(s)'
      <4>1. versions[s] <= version[s] /\ versions'[s] = versions[s] /\ versions[s] \in Nat
            /\ version[s] \in Nat
        BY <1>3 DEF IInv, Shapes, ReadIsCached
      <4>2. QED
        BY <1>1, <4>1 DEF ReadIsCached
    <3>2. InStep(s)'
      <4>1. CASE connected
        <5>1. Mentions(channel', s) /\ LastSays(channel', s, status'[s], version'[s])
          <6>1. n.id = s /\ Says(n, status'[s], version'[s])
            BY <1>1 DEF Says, n
          <6>2. channel \in Seq(Notification)
            BY DEF IInv, Shapes
          <6>3. Mentions(Append(channel, n), s) /\ LastSays(Append(channel, n), s, status'[s], version'[s])
            BY <1>2, <6>1, <6>2, AppendedNotification
          <6>4. QED
            BY <1>3, <4>1, <6>3, Zenon
        <5>2. QED
          BY <5>1 DEF InStep, Told, LastTells, Pending
      <4>2. CASE ~connected
        BY <1>3, <4>2 DEF InStep
      <4>3. QED
        BY <4>1, <4>2
    <3>3. QED
      BY <2>1, <3>1, <3>2
  <2>2. CASE t # s
    <3>1. status'[t] = status[t] /\ version'[t] = version[t]
      BY <1>1, <2>2 DEF IInv, Shapes
    <3>2. /\ Mentions(channel', t) <=> Mentions(channel, t)
          /\ LastSays(channel, t, status[t], version[t])
               => LastSays(channel', t, status[t], version[t])
      <4>1. n.id # t
        BY <2>2 DEF n
      <4>2. channel \in Seq(Notification)
        BY DEF IInv, Shapes
      <4>3. /\ Mentions(Append(channel, n), t) <=> Mentions(channel, t)
            /\ LastSays(channel, t, status[t], version[t])
                 => LastSays(Append(channel, n), t, status[t], version[t])
        BY <1>2, <4>1, <4>2, AppendedNotification
      <4>4. QED
        BY <1>3, <4>3, Zenon
    <3>3. (Pending(t)' <=> Pending(t)) /\ (Told(t) => Told(t)')
      BY <1>3, <3>1, <3>2 DEF Pending, Told, LastTells
    <3>4. QED
      BY <1>3, <3>1, <3>3, Untouched
  <2>3. QED
    BY <2>1, <2>2
<1>11. QED
  BY <1>4, <1>5, <1>8, <1>9, <1>10 DEF IInv

(***************************************************************************)
(* Steps that leave the table, the notifications and the cache alone.      *)
(***************************************************************************)
LEMMA ConnectionStep ==
  ASSUME IInv, Mark \/ Listen \/ ListenFails \/ Disconnect \/ ReceiveReconnects \/ ReplayFails
                 \/ UNCHANGED vars
  PROVE  IInv'
<1>1. UNCHANGED <<status, version, channel, batch, versions, cache, evicted, missed, coalesced>>
  BY DEF Mark, Listen, ListenFails, Disconnect, ReceiveReconnects, ReplayFails, vars,
         dbVars, taskVars, cacheVars, historyVars
<1>2. Quiet' /\ phase' \in Phases
  BY <1>1 DEF IInv, Shapes, Quiet, Phases, Mark, Listen, ListenFails, Disconnect,
              ReceiveReconnects, ReplayFails, vars, dbVars, taskVars, cacheVars, historyVars
<1>3. Shapes'
  BY <1>1, <1>2 DEF IInv, Shapes
<1>4. \A s \in Servers : ReadIsCached(s)' /\ InStep(s)'
  BY <1>1, Untouched DEF Pending, Told, LastTells
<1>5. QED
  BY <1>1, <1>2, <1>3, <1>4 DEF IInv

(***************************************************************************)
(* recv() moves the first notification of the channel to the batch's end.  *)
(***************************************************************************)
LEMMA ReceiveStep ==
  ASSUME IInv, Receive
  PROVE  IInv'
<1>1. /\ channel \in Seq(Notification) /\ channel # <<>> /\ batch \in Seq(Notification)
      /\ channel' = Tail(channel) /\ batch' = Append(batch, Head(channel))
      /\ UNCHANGED <<status, version, versions, cache, evicted, missed, coalesced, phase>>
      /\ phase = "collect"
  BY DEF IInv, Shapes, Receive, dbVars, cacheVars, historyVars
<1> DEFINE n == Head(channel)
<1>2. n = channel[1] /\ 1 \in 1..Len(channel) /\ n \in Notification
  BY <1>1, FirstNotification, NotificationTypes
<1>3. Shapes' /\ Quiet'
  BY <1>1, <1>2, FirstNotification, AppendedNotification DEF IInv, Shapes, Quiet
<1>4. Honest(n, status, version)
  BY <1>2 DEF IInv, AllHonest
<1>5. AllHonest(channel', status', version')
  BY <1>1, FirstNotification DEF IInv, AllHonest
<1>6. AllHonest(batch', status', version')
  <2>1. \A i \in 1..Len(batch') : \/ i \in 1..Len(batch) /\ batch'[i] = batch[i]
                                  \/ batch'[i] = n
    BY <1>1, <1>2
  <2>2. QED
    BY <1>1, <1>4, <2>1 DEF IInv, AllHonest
<1> HIDE DEF n
<1>7. ASSUME NEW s \in Servers PROVE ReadIsCached(s)' /\ InStep(s)'
  <2>1. Mentions(channel, s) <=> n.id = s \/ Mentions(channel', s)
    BY <1>1, FirstNotification, Zenon DEF n
  <2>2. Mentions(batch', s) <=> Mentions(batch, s) \/ n.id = s
    BY <1>1, <1>2, AppendedNotification, Zenon DEF n
  <2>3. Told(s) => Told(s)'
    <3> SUFFICES ASSUME Told(s) PROVE Told(s)'
      OBVIOUS
    <3> DEFINE st == status[s]
               ver == version[s]
    <3>1. CASE Mentions(channel', s)
      <4>1. LastSays(channel, s, st, ver)
        BY <2>1, <3>1 DEF Told, LastTells
      <4>2. LastSays(channel', s, st, ver)
        BY <1>1, <3>1, <4>1, FirstNotification
      <4>3. QED
        BY <1>1, <3>1, <4>2 DEF Told, LastTells
    <3>2. CASE ~Mentions(channel', s) /\ n.id = s
      <4>1. LastSays(channel, s, st, ver)
        BY <2>1, <3>2 DEF Told, LastTells
      <4>2. Says(n, st, ver)
        BY <1>1, <3>2, <4>1, FirstNotification DEF n
      <4>3. LastSays(batch', s, st, ver)
        BY <1>1, <1>2, <3>2, <4>2, AppendedNotification DEF n
      <4>4. QED
        BY <1>1, <3>2, <4>3 DEF Told, LastTells
    <3>3. CASE ~Mentions(channel', s) /\ n.id # s
      <4>1. LastSays(batch, s, st, ver)
        BY <2>1, <3>3 DEF Told, LastTells
      <4>2. LastSays(batch', s, st, ver)
        BY <1>1, <1>2, <3>3, <4>1, AppendedNotification DEF n
      <4>3. QED
        BY <1>1, <3>3, <4>2 DEF Told, LastTells
    <3>4. QED
      BY <3>1, <3>2, <3>3
  <2>4. Pending(s)' <=> Pending(s)
    BY <2>1, <2>2 DEF Pending
  <2>5. QED
    BY <1>1, <2>3, <2>4, Untouched
<1>8. QED
  BY <1>3, <1>5, <1>6, <1>7 DEF IInv

(***************************************************************************)
(* The batch is closed, and coalesced if it is long.                       *)
(***************************************************************************)
LEMMA CloseBatchStep ==
  ASSUME IInv, CloseBatch
  PROVE  IInv'
<1>1. /\ batch \in Seq(Notification) /\ batch # <<>>
      /\ phase = "collect" /\ phase' = "apply"
      /\ UNCHANGED <<status, version, channel, versions, cache, evicted, missed>>
  BY DEF IInv, Shapes, CloseBatch, dbVars, cacheVars
<1>2. CASE ~(Len(batch) > COALESCE_THRESHOLD)
  <2>1. UNCHANGED <<batch, coalesced>>
    BY <1>2 DEF CloseBatch
  <2>2. Shapes' /\ Quiet'
    BY <1>1, <2>1 DEF IInv, Shapes, Quiet, Phases
  <2>3. \A s \in Servers : ReadIsCached(s)' /\ InStep(s)'
    BY <1>1, <2>1, Untouched DEF Pending, Told, LastTells
  <2>4. QED
    BY <1>1, <2>1, <2>2, <2>3 DEF IInv
<1>3. CASE Len(batch) > COALESCE_THRESHOLD
  <2>1. /\ batch' \in Orders(Best(batch))
        /\ coalesced' = coalesced \cup (DeletesIn(batch) \ DeletesIn(batch'))
    BY <1>3 DEF CloseBatch
  <2>2. /\ batch' \in Seq(Notification)
        /\ \A i \in 1..Len(batch') : \E k \in 1..Len(batch) : batch'[i] = batch[k]
    BY <1>1, <2>1, CoalescedBatch
  <2>3. AllHonest(batch', status', version')
    BY <1>1, <2>2 DEF IInv, AllHonest
  <2>4. ASSUME NEW s \in Servers
        PROVE  /\ Mentions(batch', s) <=> Mentions(batch, s)
               /\ LastSays(batch, s, status[s], version[s])
                    => LastSays(batch', s, status[s], version[s]) \/ s \in coalesced'
    <3>1. \A k \in 1..Len(batch) : batch[k].id = s =>
            batch[k].ver <= version[s] /\ (batch[k].op = "delete" => status[s] = "absent")
      BY DEF IInv, AllHonest, Honest
    <3>2. version[s] \in Nat
      BY DEF IInv, Shapes
    <3>3. QED
      BY <1>1, <2>1, <3>1, <3>2, CoalescingKeepsTheLast
  <2>5. batch' # <<>>
    <3>1. 1 \in 1..Len(batch) /\ batch[1].id \in Servers
      BY <1>1, NotificationTypes
    <3>2. Mentions(batch', batch[1].id)
      BY <2>4, <3>1 DEF Mentions
    <3>3. QED
      BY <3>2 DEF Mentions
  <2>6. Shapes' /\ Quiet'
    BY <1>1, <2>2, <2>5 DEF IInv, Shapes, Quiet, Phases
  <2>7. ASSUME NEW s \in Servers PROVE ReadIsCached(s)' /\ InStep(s)'
    <3>1. Pending(s)' <=> Pending(s)
      BY <1>1, <2>4 DEF Pending
    <3>2. CASE s \in coalesced'
      BY <1>1, <3>2, Untouched DEF InStep
    <3>3. CASE s \notin coalesced'
      <4>1. Told(s) => Told(s)'
        BY <1>1, <2>4, <3>3 DEF Told, LastTells
      <4>2. s \in missed \cup coalesced => (s \in missed \cup coalesced)'
        BY <1>1, <2>1
      <4>3. QED
        BY <1>1, <3>1, <4>1, <4>2, Untouched
    <3>4. QED
      BY <3>2, <3>3
  <2>8. QED
    BY <1>1, <2>3, <2>6, <2>7 DEF IInv
<1>4. QED
  BY <1>2, <1>3

(***************************************************************************)
(* The notifications are lost, with a dead connection or with the task.    *)
(***************************************************************************)
LEMMA LossStep ==
  ASSUME IInv, ReceiveFails \/ Panic
  PROVE  IInv'
<1>1. /\ channel' = <<>> /\ batch' = <<>> /\ phase' \in {"mark", "replay"}
      /\ ~connected' /\ missed' = missed \cup PendingServers
      /\ UNCHANGED <<status, version, cache, evicted, coalesced>>
      /\ versions' = versions \/ versions' = [s \in Servers |-> 0]
  BY DEF ReceiveFails, Panic, dbVars, cacheVars, historyVars
<1>2. Shapes' /\ Quiet'
  BY <1>1 DEF IInv, Shapes, Quiet, Phases
<1>3. AllHonest(channel', status', version') /\ AllHonest(batch', status', version')
  BY <1>1 DEF AllHonest
<1>4. ASSUME NEW s \in Servers PROVE ReadIsCached(s)' /\ InStep(s)'
  <2>1. ReadIsCached(s) /\ InStep(s) /\ version[s] \in Nat
    BY DEF IInv, Shapes
  <2>2. ReadIsCached(s)'
    <3>1. versions'[s] = versions[s] \/ versions'[s] = 0
      BY <1>1
    <3>2. QED
      BY <1>1, <2>1, <3>1 DEF ReadIsCached, InSync, Active
  <2>3. ~Pending(s)'
    BY <1>1 DEF Pending, Mentions
  <2>4. s \notin missed' => ~Pending(s) /\ s \notin missed
    BY <1>1 DEF PendingServers
  <2>5. QED
    BY <1>1, <2>1, <2>2, <2>3, <2>4 DEF InStep, InSync, Active
<1>5. QED
  BY <1>2, <1>3, <1>4 DEF IInv

(***************************************************************************)
(* What taking the batch's first payload p off it means: for the task, and *)
(* for p's server and the others.                                          *)
(***************************************************************************)
LEMMA PayloadTaken ==
  ASSUME IInv, NextPayload, NEW p, p = Head(batch)
  PROVE  /\ p.id \in Servers /\ Honest(p, status, version)
         /\ UNCHANGED <<status, version, channel, connected, coalesced>>
         /\ batch' \in Seq(Notification) /\ phase' \in Phases /\ Quiet'
         /\ AllHonest(batch', status', version')
<1>1. /\ batch \in Seq(Notification) /\ batch # <<>> /\ batch' = Tail(batch)
      /\ phase = "apply" /\ phase' = (IF Len(batch) = 1 THEN "collect" ELSE "apply")
      /\ UNCHANGED <<status, version, channel, connected, coalesced>>
  BY DEF IInv, Shapes, Quiet, NextPayload, dbVars, historyVars
<1>2. p = batch[1] /\ 1 \in 1..Len(batch) /\ p.id \in Servers
  BY <1>1, FirstNotification, NotificationTypes
<1>3. Honest(p, status, version)
  BY <1>2 DEF IInv, AllHonest
<1>4. batch' \in Seq(Notification) /\ AllHonest(batch', status', version')
  BY <1>1, FirstNotification DEF IInv, AllHonest
<1>5. phase' \in Phases /\ Quiet'
  <2>1. phase' = "apply" => batch' # <<>>
    <3>1. Len(batch') = Len(batch) - 1 /\ Len(batch) \in Nat
      BY <1>1, FirstNotification
    <3>2. Len(batch') # 0 => batch' # <<>>
      OBVIOUS
    <3>3. QED
      BY <1>1, <3>1, <3>2
  <2>2. QED
    BY <1>1, <2>1 DEF Phases, Quiet
<1>6. QED
  BY <1>1, <1>2, <1>3, <1>4, <1>5

(* Taking the next payload of the batch concerns only the server it names. *)
LEMMA PayloadLeaves ==
  ASSUME IInv, NextPayload, NEW p, p = Head(batch), NEW t \in Servers
  PROVE  IF p.id = t
           THEN /\ Pending(t)
                /\ Told(t) => IF Pending(t)' THEN Told(t)' ELSE Says(p, status[t], version[t])
           ELSE /\ Pending(t)' <=> Pending(t)
                /\ Told(t) => Told(t)'
<1>1. /\ batch \in Seq(Notification) /\ batch # <<>> /\ batch' = Tail(batch)
      /\ UNCHANGED <<status, version, channel>>
  BY DEF IInv, Shapes, Quiet, NextPayload, dbVars
<1>2. /\ Mentions(batch, t) <=> p.id = t \/ Mentions(batch', t)
      /\ LastSays(batch, t, status[t], version[t]) =>
           IF Mentions(batch', t) THEN LastSays(batch', t, status[t], version[t])
                                  ELSE p.id = t /\ Says(p, status[t], version[t])
  BY <1>1, FirstNotification, Zenon
<1>3. QED
  BY <1>1, <1>2 DEF Pending, Told, LastTells

(***************************************************************************)
(* A payload's server is afterwards in step with its row, or on record as  *)
(* missed, or as it was because the task has read the row already.         *)
(***************************************************************************)
LEMMA ApplyStep ==
  ASSUME IInv, ApplyPayload
  PROVE  IInv'
<1>0. PICK p : p = Head(batch)
  OBVIOUS
<1> DEFINE s == p.id
<1>1. NextPayload
  BY Zenon DEF ApplyPayload, ApplyDelete, ApplyStale, ApplyUpsert, ApplyRemove, ApplyFetchFails
<1>2. /\ s \in Servers /\ Honest(p, status, version)
      /\ UNCHANGED <<status, version, channel, connected, coalesced>>
      /\ batch' \in Seq(Notification) /\ phase' \in Phases /\ Quiet'
      /\ AllHonest(batch', status', version')
  BY <1>0, <1>1, PayloadTaken
<1>3. /\ status[s] \in {"absent", "active", "inactive"}
      /\ version[s] \in Nat /\ versions[s] \in Nat /\ version[s] >= 1
      /\ versions[s] <= version[s] /\ p.ver <= version[s]
      /\ p.op = "delete" => status[s] = "absent"
      /\ ReadIsCached(s) /\ InStep(s)
  BY <1>2 DEF IInv, Shapes, ReadIsCached, Honest
<1> HIDE DEF s
<1>4. CASE ApplyStale \/ ApplyFetchFails
  <2>1. UNCHANGED <<versions, cache, evicted>>
    BY <1>4 DEF ApplyStale, ApplyFetchFails, cacheVars
  <2>2. Shapes'
    BY <1>2, <2>1 DEF IInv, Shapes
  <2>3. \A t \in Servers : t \in missed => t \in missed'
    BY <1>4 DEF ApplyStale, ApplyFetchFails
  <2>4. ASSUME NEW t \in Servers, t # s PROVE ReadIsCached(t)' /\ InStep(t)'
    <3>1. (Pending(t)' <=> Pending(t)) /\ (Told(t) => Told(t)')
      BY <1>0, <1>1, <2>4, PayloadLeaves DEF s
    <3>2. t \in missed \cup coalesced => (t \in missed \cup coalesced)'
      BY <1>2, <2>3
    <3>3. QED
      BY <1>2, <2>1, <3>1, <3>2, Untouched
  <2>5. ReadIsCached(s)'
    BY <1>2, <2>1, Untouched
  <2>6. InStep(s)'
    <3>1. CASE s \in missed' \cup coalesced'
      BY <3>1 DEF InStep
    <3>2. CASE s \notin missed' \cup coalesced'
      <4>1. ~(p.ver > versions[s]) /\ p.op # "delete"
        BY <1>0, <1>4, <3>2 DEF ApplyStale, ApplyFetchFails, Newer, s
      <4>2. s \notin missed \cup coalesced
        BY <1>2, <2>3, <3>2
      <4>3. /\ Pending(s)
            /\ Told(s) => IF Pending(s)' THEN Told(s)' ELSE Says(p, status[s], version[s])
        BY <1>0, <1>1, <1>2, PayloadLeaves DEF s
      <4>4. Told(s) \/ Settled(s)
        BY <1>3, <4>2, <4>3 DEF InStep
      <4>5. Settled(s) => Settled(s)' /\ (s \in evicted' \/ InSync(s)')
        BY <1>2, <1>3, <2>1 DEF Settled, ReadIsCached, InSync, Active
      <4>6. CASE Pending(s)'
        <5>1. Told(s)' \/ Settled(s)'
          BY <4>3, <4>5, <4>6, <4>4
        <5>2. QED
          BY <4>6, <5>1 DEF InStep
      <4>7. CASE ~Pending(s)' /\ Told(s)
        <5>1. p.ver = version[s] /\ status[s] # "absent"
          BY <4>1, <4>3, <4>7 DEF Says
        <5>2. versions[s] = version[s]
          BY <1>3, <4>1, <5>1
        <5>3. Settled(s)
          BY <5>1, <5>2 DEF Settled
        <5>4. QED
          BY <4>5, <4>7, <5>3 DEF InStep
      <4>8. QED
        BY <4>5, <4>6, <4>7, <4>4 DEF InStep
    <3>3. QED
      BY <3>1, <3>2
  <2>7. QED
    BY <1>2, <2>2, <2>4, <2>5, <2>6 DEF IInv
<1>5. ASSUME NEW v \in Nat, NEW c \in Nat,
             versions' = [versions EXCEPT ![s] = v],
             cache' = [t \in Servers |-> IF t = s THEN c ELSE cache[t]],
             evicted' = evicted \ {s}, missed' = missed \ {s},
             \/ status[s] # "active" /\ c = 0 /\ v = 0
             \/ status[s] = "active" /\ c = version[s] /\ v = version[s]
      PROVE  IInv'
  <2>1. versions'[s] = v /\ cache'[s] = c
    BY <1>2, <1>5 DEF IInv, Shapes
  <2>2. Shapes'
    BY <1>2, <1>5 DEF IInv, Shapes
  <2>3. ASSUME NEW t \in Servers, t # s PROVE ReadIsCached(t)' /\ InStep(t)'
    <3>1. versions'[t] = versions[t] /\ cache'[t] = cache[t]
      BY <1>5, <2>3 DEF IInv, Shapes
    <3>2. (Pending(t)' <=> Pending(t)) /\ (Told(t) => Told(t)')
      BY <1>0, <1>1, <2>3, PayloadLeaves DEF s
    <3>3. t \in missed \cup coalesced => (t \in missed \cup coalesced)'
      BY <1>2, <1>5, <2>3
    <3>4. t \in evicted => t \in evicted'
      BY <1>5, <2>3
    <3>5. QED
      BY <1>2, <3>1, <3>2, <3>3, <3>4, Untouched
  <2>4. InSync(s)' /\ Settled(s)'
    BY <1>2, <1>5, <2>1 DEF InSync, Active, Settled
  <2>5. ReadIsCached(s)'
    BY <1>2, <1>3, <1>5, <2>1, <2>4 DEF ReadIsCached
  <2>6. InStep(s)'
    BY <1>2, <1>3, <1>5, <2>1, <2>4 DEF InStep
  <2>7. QED
    BY <1>2, <2>2, <2>3, <2>5, <2>6 DEF IInv
<1>6. CASE ApplyDelete \/ ApplyRemove
  <2>1. /\ versions' = [versions EXCEPT ![s] = 0] /\ missed' = missed \ {s}
        /\ CacheRemove(s) /\ status[s] # "active"
    BY <1>0, <1>3, <1>6 DEF ApplyDelete, ApplyRemove, s
  <2>2. cache' = [t \in Servers |-> IF t = s THEN 0 ELSE cache[t]] /\ evicted' = evicted \ {s}
    BY <2>1, Zenon DEF CacheRemove, IInv, Shapes
  <2>3. QED
    BY <1>5, <2>1, <2>2, Zenon
<1>7. CASE ApplyUpsert
  <2>1. /\ versions' = [versions EXCEPT ![s] = version[s]] /\ missed' = missed \ {s}
        /\ CacheUpsert({s}, FALSE) /\ status[s] = "active"
    BY <1>0, <1>7, Zenon DEF ApplyUpsert, s
  <2>2. cache' = [t \in Servers |-> IF t = s THEN version[s] ELSE cache[t]] /\ evicted' = evicted \ {s}
    BY <2>1 DEF CacheUpsert
  <2>3. QED
    BY <1>3, <1>5, <2>1, <2>2, Zenon
<1>8. QED
  BY <1>4, <1>6, <1>7 DEF ApplyPayload

(***************************************************************************)
(* Reading rows without a notification: at startup and in a replay.        *)
(***************************************************************************)
LEMMA LoadStep ==
  ASSUME IInv, LoadAll \/ Replay
  PROVE  IInv'
<1>1. /\ channel = <<>> /\ batch = <<>> /\ ~connected
      /\ UNCHANGED <<status, version, channel, batch, connected, coalesced>>
      /\ phase' = "mark"
  BY Zenon DEF IInv, Quiet, LoadAll, Replay, dbVars, historyVars
<1>2. \A s \in Servers : ~Pending(s) /\ ~Pending(s)'
  BY <1>1 DEF Pending, Mentions
<1>3. \A s \in Servers : version[s] \in Nat /\ versions[s] \in Nat /\ ReadIsCached(s) /\ InStep(s)
  BY DEF IInv, Shapes
<1>4. CASE LoadAll
  <2> DEFINE A == {s \in Servers : status[s] = "active"}
  <2>1. /\ cache' = [s \in Servers |-> IF s \in A THEN version[s] ELSE cache[s]]
        /\ evicted' = evicted \ A /\ UNCHANGED versions
        /\ \A s \in Servers : cache[s] = 0
    BY <1>4 DEF LoadAll, CacheUpsert, IInv, Quiet
  <2>2. Shapes' /\ Quiet'
    BY <1>1, <1>3, <2>1 DEF IInv, Shapes, Quiet, Phases
  <2>3. ASSUME NEW s \in Servers PROVE InSync(s)'
    BY <1>1, <2>1 DEF InSync, Active
  <2>4. \A s \in Servers : ReadIsCached(s)' /\ InStep(s)'
    BY <1>1, <1>2, <1>3, <2>1, <2>3 DEF ReadIsCached, InStep
  <2>5. QED
    BY <1>1, <2>2, <2>4 DEF IInv
<1>5. CASE Replay
  <2>1. PICK rows :
          LET newer == {s \in rows : version[s] > versions[s]}
          IN  /\ \A s \in rows : status[s] = "active"
              /\ cache' = [s \in Servers |-> IF s \in newer THEN version[s] ELSE cache[s]]
              /\ versions' = [s \in Servers |-> IF s \in newer THEN version[s] ELSE versions[s]]
              /\ evicted' = evicted \ newer
              /\ missed' = missed \ rows
    <3>1. PICK margin \in SUBSET (Servers \ recent) :
            LET rows  == {s \in recent \cup margin : status[s] = "active"}
                newer == {s \in rows : version[s] > versions[s]}
            IN  /\ CacheUpsert(newer, FALSE)
                /\ versions' = [s \in Servers |-> IF s \in newer THEN version[s] ELSE versions[s]]
                /\ missed' = missed \ rows
      BY <1>5, Zenon DEF Replay
    <3> DEFINE rows == {s \in recent \cup margin : status[s] = "active"}
    <3>2. \A s \in rows : status[s] = "active"
      OBVIOUS
    <3>3. QED
      BY <3>1, <3>2, Zenon DEF CacheUpsert
  <2>2. Shapes' /\ Quiet'
    BY <1>1, <1>3, <2>1 DEF IInv, Shapes, Quiet, Phases
  <2>3. ASSUME NEW s \in Servers PROVE ReadIsCached(s)' /\ InStep(s)'
    <3>1. CASE s \in rows /\ version[s] > versions[s]
      <4>1. /\ status[s] = "active" /\ versions'[s] = version[s] /\ cache'[s] = version[s]
            /\ s \notin evicted' /\ s \notin missed'
        BY <2>1, <3>1
      <4>2. ReadIsCached(s)'
        BY <1>1, <1>2, <1>3, <4>1 DEF ReadIsCached, InSync, Active
      <4>3. InStep(s)'
        BY <1>1, <1>2, <1>3, <4>1 DEF InStep, InSync, Active
      <4>4. QED
        BY <4>2, <4>3
    <3>2. CASE ~(s \in rows /\ version[s] > versions[s])
      <4>1. versions'[s] = versions[s] /\ cache'[s] = cache[s] /\ (s \in evicted => s \in evicted')
        BY <2>1, <3>2
      <4>2. ASSUME s \in rows PROVE s \in evicted' \/ InSync(s)'
        <5>1. status[s] = "active" /\ version[s] >= 1 /\ version[s] = versions[s]
          BY <1>3, <2>1, <3>2, <4>2 DEF ReadIsCached, IInv, Shapes
        <5>2. s \in evicted \/ InSync(s)
          BY <1>3, <5>1 DEF ReadIsCached
        <5>3. QED
          BY <1>1, <4>1, <5>2 DEF InSync, Active
      <4>3. s \notin rows /\ s \notin missed' => s \notin missed
        BY <2>1
      <4>4. ReadIsCached(s)'
        BY <1>1, <4>1, Untouched
      <4>5. QED
        BY <1>1, <1>2, <1>3, <4>1, <4>2, <4>3, <4>4 DEF InStep, InSync, Active
    <3>3. QED
      BY <3>1, <3>2
  <2>4. QED
    BY <1>1, <2>2, <2>3 DEF IInv
<1>6. QED
  BY <1>4, <1>5

(* The cache dropping an entry on its own keeps the invariant.             *)
LEMMA EvictStep ==
  ASSUME IInv, NEW s \in Servers, Evict(s)
  PROVE  IInv'
<1>1. /\ cache' = [cache EXCEPT ![s] = 0] /\ evicted' = evicted \cup {s}
      /\ UNCHANGED <<status, version, channel, batch, versions, connected, missed, coalesced, phase>>
      /\ cache[s] # 0
  BY DEF Evict, dbVars, taskVars, historyVars
<1>2. Shapes' /\ Quiet'
  BY <1>1 DEF IInv, Shapes, Quiet
<1>3. ASSUME NEW t \in Servers PROVE ReadIsCached(t)' /\ InStep(t)'
  <2>1. (Pending(t)' <=> Pending(t)) /\ (Told(t) => Told(t)')
    BY <1>1 DEF Pending, Told, LastTells
  <2>2. ReadIsCached(t) /\ InStep(t)
    BY DEF IInv
  <2>3. CASE t = s
    <3>1. Settled(s) => Settled(s)'
      BY <1>1 DEF Settled, IInv, Shapes
    <3>2. QED
      BY <1>1, <2>1, <2>2, <2>3, <3>1 DEF ReadIsCached, InStep
  <2>4. CASE t # s
    <3>1. cache'[t] = cache[t] /\ (t \in evicted => t \in evicted')
      BY <1>1, <2>4 DEF IInv, Shapes
    <3>2. QED
      BY <1>1, <2>1, <3>1, Untouched
  <2>5. QED
    BY <2>3, <2>4
<1>4. QED
  BY <1>1, <1>2, <1>3 DEF IInv

(* The invariant holds at the start.                                       *)
LEMMA Initially == Init => IInv
<1> SUFFICES ASSUME Init PROVE IInv
  OBVIOUS
<1>1. Shapes /\ Quiet
  BY DEF Init, Shapes, Quiet, Phases
<1>2. AllHonest(channel, status, version) /\ AllHonest(batch, status, version)
  BY DEF Init, AllHonest
<1>3. \A s \in Servers : ReadIsCached(s) /\ InStep(s)
  BY <1>1 DEF Init, ReadIsCached, InStep, Shapes
<1>4. QED
  BY <1>1, <1>2, <1>3 DEF IInv

(* Every step of the database, the connection, the listener and the cache  *)
(* keeps the invariant.                                                    *)
LEMMA Inductive == IInv /\ [Next]_vars => IInv'
  BY DatabaseStep, ConnectionStep, ReceiveStep, CloseBatchStep, LossStep, ApplyStep, LoadStep,
     EvictStep DEF Next, Listener

(***************************************************************************)
(* The sync task loses nothing of what it was told: once nothing is        *)
(* pending for a server, the cache holds exactly its active row unless a   *)
(* change was never delivered or not fetched, the entry idled out, or the  *)
(* server's delete was coalesced away.  No order of commits, batches,      *)
(* coalescing, disconnections, replays and restarts does otherwise.        *)
(***************************************************************************)
THEOREM TaskLosesNothing == Spec => []StaleOnlyIfMissed
<1>1. IInv => StaleOnlyIfMissed
  BY DEF IInv, InStep, StaleOnlyIfMissed
<1>2. QED
  BY Initially, Inductive, <1>1, PTL DEF Spec

---------------------------------------------------------------------------
(* The two maps of the cache *)

(***************************************************************************)
(* RoutableIffCached needs the rows that are read to have a version, which *)
(* is part of IInv, and a replay to read rows of servers.                  *)
(***************************************************************************)
MapsTogether ==
  /\ slugIndex \in [Slugs -> Servers \cup {NoServer}]
  /\ recent \subseteq Servers
  /\ RoutableIffCached

(* No two servers share a slug: the UNIQUE constraint of the table.        *)
DistinctSlugs == \A s, t \in Servers : s # t => Slug[s] # Slug[t]

(* Upserting rows into the cache and their slugs into the index keeps the  *)
(* two maps together (cache.rs, upsert).                                   *)
LEMMA UpsertKeepsMaps ==
  ASSUME IInv, MapsTogether, NEW S \in SUBSET Servers, NEW full \in BOOLEAN,
         \A s \in S : status[s] = "active", CacheUpsert(S, full)
  PROVE  RoutableIffCached' /\ slugIndex' \in [Slugs -> Servers \cup {NoServer}]
<1>1. slugIndex' \in [Slugs -> Servers \cup {NoServer}]
  BY DEF CacheUpsert
<1>2. ASSUME DistinctSlugs, NEW s \in Servers
      PROVE  slugIndex'[Slug[s]] = IF cache'[s] # 0 THEN s ELSE NoServer
  <2> DEFINE owners == {t \in S : Slug[t] = Slug[s]}
  <2>1. Slug[s] \in Slugs
    BY SlugAssumption
  <2>2. IF owners = {} THEN slugIndex'[Slug[s]] = slugIndex[Slug[s]]
                       ELSE slugIndex'[Slug[s]] \in owners
    BY <2>1 DEF CacheUpsert
  <2>3. owners = IF s \in S THEN {s} ELSE {}
    BY <1>2 DEF DistinctSlugs
  <2>4. cache'[s] = IF s \in S THEN version[s] ELSE cache[s]
    BY DEF CacheUpsert
  <2>5. s \in S => version[s] # 0
    <3>1. version[s] \in Nat /\ (status[s] # "absent" => version[s] >= 1)
      BY DEF IInv, Shapes
    <3>2. s \in S => status[s] = "active"
      OBVIOUS
    <3>3. QED
      BY <3>1, <3>2
  <2>6. slugIndex[Slug[s]] = IF cache[s] # 0 THEN s ELSE NoServer
    BY <1>2 DEF MapsTogether, RoutableIffCached, DistinctSlugs
  <2>7. QED
    BY <2>2, <2>3, <2>4, <2>5, <2>6
<1>3. QED
  BY <1>1, <1>2 DEF RoutableIffCached, DistinctSlugs

(* Removing a server from both maps keeps them together (cache.rs, remove).*)
LEMMA RemoveKeepsMaps ==
  ASSUME IInv, MapsTogether, NEW s \in Servers,
         cache' = [cache EXCEPT ![s] = 0], slugIndex' = Unindexed(s)
  PROVE  RoutableIffCached' /\ slugIndex' \in [Slugs -> Servers \cup {NoServer}]
<1>1. \A t \in Servers : Slug[t] \in Slugs
  BY SlugAssumption
<1>2. slugIndex' \in [Slugs -> Servers \cup {NoServer}]
  BY <1>1 DEF Unindexed, MapsTogether
<1>3. ASSUME DistinctSlugs, NEW t \in Servers
      PROVE  slugIndex'[Slug[t]] = IF cache'[t] # 0 THEN t ELSE NoServer
  <2>1. \A u \in {s, t} : slugIndex[Slug[u]] = IF cache[u] # 0 THEN u ELSE NoServer
    BY <1>3 DEF MapsTogether, RoutableIffCached, DistinctSlugs
  <2>2. CASE t = s
    BY <1>1, <2>1, <2>2 DEF Unindexed, MapsTogether, IInv, Shapes
  <2>3. CASE t # s
    BY <1>1, <1>3, <2>1, <2>3 DEF Unindexed, MapsTogether, IInv, Shapes, DistinctSlugs
  <2>4. QED
    BY <2>2, <2>3
<1>4. QED
  BY <1>2, <1>3 DEF RoutableIffCached, DistinctSlugs

(***************************************************************************)
(* While slugs are distinct, a slug resolves to a server exactly when the  *)
(* server's config is cached: upsert, remove and the eviction listener     *)
(* keep the two maps of ConfigCache together.                              *)
(***************************************************************************)
THEOREM MapsAgree == Spec => []RoutableIffCached
<1>1. Init => MapsTogether
  BY SlugAssumption DEF Init, MapsTogether, RoutableIffCached
<1>2. IInv /\ MapsTogether /\ [Next]_vars => MapsTogether'
  <2> SUFFICES ASSUME IInv, MapsTogether, [Next]_vars PROVE MapsTogether'
    OBVIOUS
  <2>1. recent' \subseteq Servers
    BY Zenon DEF MapsTogether, Next, Database, InsertRow, UpdateRow, DeleteRow, Commit, LoadAll, Mark,
           Listener, Listen, ListenFails, Receive, ReceiveFails, ReceiveReconnects, CloseBatch,
           ApplyPayload, ApplyDelete, ApplyStale, ApplyUpsert, ApplyRemove, ApplyFetchFails,
           NextPayload, Replay, ReplayFails, Disconnect, Panic, Evict, vars
  <2>2. CASE LoadAll
    BY <2>1, <2>2, UpsertKeepsMaps, Zenon DEF LoadAll, MapsTogether
  <2>3. CASE Replay
    <3>1. PICK margin \in SUBSET (Servers \ recent) :
            CacheUpsert({s \in {s \in recent \cup margin : status[s] = "active"} :
                          version[s] > versions[s]}, FALSE)
      BY <2>3, Zenon DEF Replay
    <3>2. QED
      BY <2>1, <3>1, UpsertKeepsMaps, Zenon DEF MapsTogether
  <2>4. CASE ApplyUpsert
    <3>1. PICK s \in Servers : status[s] = "active" /\ CacheUpsert({s}, FALSE)
      BY <2>4, PayloadTaken, Zenon DEF ApplyUpsert
    <3>2. QED
      BY <2>1, <3>1, UpsertKeepsMaps, Zenon DEF MapsTogether
  <2>5. CASE ApplyDelete \/ ApplyRemove \/ \E s \in Servers : Evict(s)
    <3>1. PICK s \in Servers : cache' = [cache EXCEPT ![s] = 0] /\ slugIndex' = Unindexed(s)
      BY <2>5, PayloadTaken DEF ApplyDelete, ApplyRemove, CacheRemove, Evict
    <3>2. QED
      BY <2>1, <3>1, RemoveKeepsMaps, Zenon DEF MapsTogether
  <2>6. CASE UNCHANGED <<cache, slugIndex>>
    BY <2>1, <2>6 DEF MapsTogether, RoutableIffCached
  <2>7. QED
    BY <2>2, <2>3, <2>4, <2>5, <2>6, Zenon
       DEF Next, Database, InsertRow, UpdateRow, DeleteRow, Commit, Mark,
           Listener, Listen, ListenFails, Receive, ReceiveFails, ReceiveReconnects, CloseBatch,
           ApplyPayload, ApplyStale, ApplyFetchFails, ReplayFails, Disconnect, Panic,
           vars, cacheVars
<1>3. MapsTogether => RoutableIffCached
  BY DEF MapsTogether
<1>4. QED
  BY <1>1, <1>2, <1>3, Initially, Inductive, PTL DEF Spec

-----------------------------------------------------------------------------
(* The transport                                                           *)

CONSTANTS Bodies, LIMIT, MAX_DISCONNECTS, Requests
VARIABLES body, done, flag, gone, latest, open, out, pc, schemas, sse,
          unlogged
Transport == INSTANCE McpTransport

(* The replies to the items of a body.                                     *)
Replies == [item : Nat, resolved : Nat, shown : Nat]

(* Where a request can be.                                                 *)
TransportPlaces == {"idle", "auth", "authorized", "items", "call", "stream"}

(* What the proof needs of the types.                                      *)
TransportShapes ==
  /\ version \in 0 .. MAX_VERSION /\ latest \in 0 .. MAX_VERSION
  /\ schemas \in [1 .. MAX_VERSION -> Nat]
  /\ body \in [Requests -> Bodies]
  /\ done \in [Requests -> Nat]
  /\ out \in [Requests -> Seq(Replies)]
  /\ pc \in [Requests -> TransportPlaces]

(* A request that has not started has answered nothing.                    *)
Unstarted == \A r \in Requests : pc[r] = "idle" => done[r] = 0 /\ out[r] = <<>>

(* The cached list of tools of a version is the one of that version.       *)
SchemasTrue == \A v \in 1 .. MAX_VERSION : schemas[v] \in {0, v}

(* The replies s answer the first n items of the body b: each item but the *)
(* notifications, once, in their order.                                    *)
TransportInOrder(b, n, s) ==
  /\ \A i \in 1 .. Len(s) : s[i].item \in 1 .. n /\ ~Transport!IsNotification(b.items[s[i].item])
  /\ \A k \in 1 .. n : ~Transport!IsNotification(b.items[k]) => \E i \in 1 .. Len(s) : s[i].item = k
  /\ \A i, j \in 1 .. Len(s) : i < j => s[i].item < s[j].item

(* A list of tools that is shown is the one of the configuration the       *)
(* request resolved.                                                       *)
Shows(s) == \A i \in 1 .. Len(s) : s[i].shown \in {0, s[i].resolved}

(* What request r has answered so far.                                     *)
Answers(r) == (body[r].batch => TransportInOrder(body[r], done[r], out[r])) /\ Shows(out[r])

(* The inductive invariant of the transport.                               *)
TransportInv == TransportShapes /\ Unstarted /\ SchemasTrue /\ \A r \in Requests : Answers(r)

(* No reply is the answer to no item.                                      *)
LEMMA NothingAnswered == ASSUME NEW b PROVE TransportInOrder(b, 0, <<>>) /\ Shows(<<>>)
BY DEF TransportInOrder, Shows

(* Answering the next item of a batch, or leaving it unanswered when it is *)
(* a notification, keeps the replies in order (transport.rs:273-282).      *)
LEMMA OneMore ==
  ASSUME NEW b, NEW n \in Nat, NEW s \in Seq(Replies), NEW reply \in Replies, reply.item = n + 1,
         TransportInOrder(b, n, s)
  PROVE  /\ Transport!IsNotification(b.items[n + 1]) => TransportInOrder(b, n + 1, s)
         /\ ~Transport!IsNotification(b.items[n + 1]) => TransportInOrder(b, n + 1, Append(s, reply))
<1>1. \A k \in 1 .. n + 1 : k \in 1 .. n \/ k = n + 1
  OBVIOUS
<1>2. \A k \in 1 .. n : k \in 1 .. n + 1 /\ k < n + 1
  OBVIOUS
<1>3. ASSUME Transport!IsNotification(b.items[n + 1]) PROVE TransportInOrder(b, n + 1, s)
  BY <1>1, <1>2, <1>3 DEF TransportInOrder
<1>4. ASSUME ~Transport!IsNotification(b.items[n + 1]) PROVE TransportInOrder(b, n + 1, Append(s, reply))
  <2>1. /\ Len(s) \in Nat /\ Len(Append(s, reply)) = Len(s) + 1
        /\ Append(s, reply)[Len(s) + 1] = reply
        /\ \A i \in 1 .. Len(s) : Append(s, reply)[i] = s[i] /\ i \in 1 .. Len(s) + 1 /\ i < Len(s) + 1
    OBVIOUS
  <2>2. \A i \in 1 .. Len(s) + 1 : i \in 1 .. Len(s) \/ i = Len(s) + 1
    BY <2>1
  <2>3. \A i \in 1 .. Len(s) + 1 : Append(s, reply)[i].item \in 1 .. n + 1
                                     /\ ~Transport!IsNotification(b.items[Append(s, reply)[i].item])
    BY <1>2, <1>4, <2>1, <2>2 DEF TransportInOrder
  <2>4. ASSUME NEW k \in 1 .. n + 1, ~Transport!IsNotification(b.items[k])
        PROVE  \E i \in 1 .. Len(s) + 1 : Append(s, reply)[i].item = k
    <3>1. CASE k = n + 1
      <4>1. Len(s) + 1 \in 1 .. Len(s) + 1
        BY <2>1
      <4>2. QED
        BY <2>1, <3>1, <4>1
    <3>2. CASE k \in 1 .. n
      <4>1. PICK i \in 1 .. Len(s) : s[i].item = k
        BY <2>4, <3>2 DEF TransportInOrder
      <4>2. QED
        BY <2>1, <4>1
    <3>3. QED
      BY <1>1, <3>1, <3>2
  <2>5. ASSUME NEW i \in 1 .. Len(s) + 1, NEW j \in 1 .. Len(s) + 1, i < j
        PROVE  Append(s, reply)[i].item < Append(s, reply)[j].item
    <3>1. i \in 1 .. Len(s)
      BY <2>1, <2>5
    <3>2. s[i].item \in 1 .. n
      BY <3>1 DEF TransportInOrder
    <3>3. CASE j \in 1 .. Len(s)
      BY <2>1, <2>5, <3>1, <3>3 DEF TransportInOrder
    <3>4. CASE j = Len(s) + 1
      BY <2>1, <3>1, <3>2, <3>4
    <3>5. QED
      BY <2>2, <3>3, <3>4
  <2>6. QED
    BY <2>1, <2>3, <2>4, <2>5 DEF TransportInOrder
<1>5. QED
  BY <1>3, <1>4

(* Adding a reply that shows the right list keeps all of them right.       *)
LEMMA OneMoreShown ==
  ASSUME NEW s \in Seq(Replies), NEW reply \in Replies, reply.shown \in {0, reply.resolved}, Shows(s)
  PROVE  Shows(Append(s, reply))
<1>1. /\ Len(s) \in Nat /\ Len(Append(s, reply)) = Len(s) + 1
      /\ Append(s, reply)[Len(s) + 1] = reply
      /\ \A i \in 1 .. Len(s) : Append(s, reply)[i] = s[i]
  OBVIOUS
<1>2. \A i \in 1 .. Len(s) + 1 : i \in 1 .. Len(s) \/ i = Len(s) + 1
  BY <1>1
<1>3. QED
  BY <1>1, <1>2 DEF Shows

(* Recording the reply to the next item of a request leaves the other      *)
(* requests alone.                                                         *)
LEMMA RecordStep ==
  ASSUME TransportInv, NEW r \in Requests, NEW reply \in Replies, Transport!Record(r, reply),
         reply.item = done[r] + 1, reply.shown \in {0, reply.resolved}, UNCHANGED body
  PROVE  /\ done' \in [Requests -> Nat] /\ out' \in [Requests -> Seq(Replies)]
         /\ \A q \in Requests : Answers(q)'
         /\ \A q \in Requests : q # r => done'[q] = done[q] /\ out'[q] = out[q]
<1> USE DEF TransportInv, TransportShapes, TransportPlaces
<1>1. /\ done' \in [Requests -> Nat] /\ done'[r] = done[r] + 1
      /\ out'[r] \in {out[r], Append(out[r], reply)} /\ out' \in [Requests -> Seq(Replies)]
      /\ \A q \in Requests : q # r => done'[q] = done[q] /\ out'[q] = out[q]
  BY DEF Transport!Record
<1>2. ASSUME NEW q \in Requests, q # r PROVE Answers(q)'
  BY <1>1, <1>2 DEF Answers
<1>3. Shows(out'[r])
  BY <1>1, OneMoreShown DEF Answers
<1>4. body[r].batch => TransportInOrder(body[r], done'[r], out'[r])
  <2> SUFFICES ASSUME body[r].batch PROVE TransportInOrder(body[r], done'[r], out'[r])
    OBVIOUS
  <2>1. TransportInOrder(body[r], done[r], out[r])
    BY DEF Answers
  <2>2. CASE Transport!IsNotification(Transport!Item(r))
    <3>1. out'[r] = out[r]
      BY <2>2 DEF Transport!Record, Transport!IsSilent
    <3>2. QED
      BY <1>1, <2>1, <2>2, <3>1, OneMore DEF Transport!Item
  <2>3. CASE ~Transport!IsNotification(Transport!Item(r))
    <3>1. out'[r] = Append(out[r], reply)
      BY <2>3 DEF Transport!Record, Transport!IsSilent
    <3>2. QED
      BY <1>1, <2>1, <2>3, <3>1, OneMore DEF Transport!Item
  <2>4. QED
    BY <2>2, <2>3
<1>5. Answers(r)'
  BY <1>3, <1>4 DEF Answers
<1>6. QED
  BY <1>1, <1>2, <1>5

(* Finishing a request, answered or cut off, keeps the invariant.          *)
LEMMA FinishStep ==
  ASSUME Transport!BodiesValid, TransportInv, NEW r \in Requests, Transport!Finish(r), UNCHANGED <<Transport!config, schemas>>
  PROVE  TransportInv'
<1> USE DEF TransportInv, TransportShapes, TransportPlaces
<1>1. Transport!NoBody \in Bodies
  BY DEF Transport!NoBody, Transport!BodiesValid
<1>2. /\ body' \in [Requests -> Bodies] /\ done' \in [Requests -> Nat]
      /\ out' \in [Requests -> Seq(Replies)] /\ pc' \in [Requests -> TransportPlaces]
      /\ done'[r] = 0 /\ out'[r] = <<>>
      /\ \A q \in Requests : q # r =>
           /\ body'[q] = body[q] /\ done'[q] = done[q] /\ out'[q] = out[q] /\ pc'[q] = pc[q]
  BY <1>1 DEF Transport!Finish
<1>3. ASSUME NEW q \in Requests PROVE Answers(q)'
  <2>1. CASE q = r
    BY <1>2, <2>1, NothingAnswered DEF Answers
  <2>2. CASE q # r
    BY <1>2, <2>2 DEF Answers
  <2>3. QED
    BY <2>1, <2>2
<1>4. Unstarted'
  BY <1>2 DEF Unstarted
<1>5. SchemasTrue' /\ TransportShapes'
  BY <1>2 DEF SchemasTrue, Transport!config
<1>6. QED
  BY <1>3, <1>4, <1>5

(* Dispatching an item, whatever else it does to the cached schemas, keeps *)
(* the invariant (router.rs).                                              *)
LEMMA DispatchStep ==
  ASSUME TransportInv, NEW r \in Requests, NEW reply \in Replies, Transport!Record(r, reply),
         reply.item = done[r] + 1, reply.shown \in {0, reply.resolved}, UNCHANGED <<Transport!config, body>>,
         schemas' \in [1 .. MAX_VERSION -> Nat], SchemasTrue',
         pc' \in [Requests -> TransportPlaces], pc'[r] # "idle",
         \A q \in Requests : q # r => pc'[q] = pc[q]
  PROVE  TransportInv'
<1> USE DEF TransportInv, TransportShapes, TransportPlaces
<1>1. /\ done' \in [Requests -> Nat] /\ out' \in [Requests -> Seq(Replies)]
      /\ \A q \in Requests : Answers(q)'
      /\ \A q \in Requests : q # r => done'[q] = done[q] /\ out'[q] = out[q]
  BY RecordStep
<1>2. Unstarted'
  BY <1>1 DEF Unstarted
<1>3. QED
  BY <1>1, <1>2 DEF Transport!config

(* The invariant holds before the first request.                           *)
LEMMA TransportInitially ==
  ASSUME Transport!LimitsValid, Transport!BodiesValid PROVE Transport!Init => TransportInv
<1> SUFFICES ASSUME Transport!Init PROVE TransportInv
  OBVIOUS
<1>1. Transport!NoBody \in Bodies
  BY DEF Transport!NoBody, Transport!BodiesValid
<1>2. TransportShapes /\ Unstarted /\ SchemasTrue
  BY <1>1 DEF Transport!Init, TransportShapes, TransportPlaces, Unstarted, SchemasTrue, Transport!LimitsValid
<1>3. \A r \in Requests : Answers(r)
  BY NothingAnswered DEF Transport!Init, Answers
<1>4. QED
  BY <1>2, <1>3 DEF TransportInv

(* Every step of a request, of a configuration change or of a disconnection*)
(* keeps the invariant.                                                    *)
LEMMA TransportInductive ==
  ASSUME Transport!LimitsValid, Transport!BodiesValid PROVE TransportInv /\ [Transport!Next]_(Transport!vars) => TransportInv'
<1> SUFFICES ASSUME TransportInv, [Transport!Next]_(Transport!vars) PROVE TransportInv'
  OBVIOUS
<1> USE DEF TransportInv, TransportShapes, TransportPlaces
<1>k. ASSUME UNCHANGED <<schemas, body, done, out>>, pc' \in [Requests -> TransportPlaces],
             version' \in 0 .. MAX_VERSION, latest' \in 0 .. MAX_VERSION,
             \A q \in Requests : pc'[q] = "idle" => pc[q] = "idle"
      PROVE  TransportInv'
  BY <1>k DEF Unstarted, SchemasTrue, Answers
<1>1. ASSUME NEW r \in Requests, NEW b \in Bodies, NEW s \in BOOLEAN, Transport!Arrive(r, b, s) PROVE TransportInv'
  <2>1. /\ body' \in [Requests -> Bodies] /\ pc' \in [Requests -> TransportPlaces]
        /\ pc[r] = "idle" /\ pc'[r] = "auth"
        /\ \A q \in Requests : q # r => body'[q] = body[q] /\ pc'[q] = pc[q]
        /\ UNCHANGED <<version, latest, schemas, done, out>>
    BY <1>1 DEF Transport!Arrive, Transport!config
  <2>2. ASSUME NEW q \in Requests PROVE Answers(q)'
    <3>1. CASE q = r
      <4>1. done'[q] = 0 /\ out'[q] = <<>>
        BY <2>1, <3>1 DEF Unstarted
      <4>2. QED
        BY <4>1, NothingAnswered DEF Answers
    <3>2. CASE q # r
      BY <2>1, <3>2 DEF Answers
    <3>3. QED
      BY <3>1, <3>2
  <2>3. Unstarted' /\ SchemasTrue'
    BY <2>1 DEF Unstarted, SchemasTrue
  <2>4. QED
    BY <2>1, <2>2, <2>3
<1>2. ASSUME NEW r \in Requests, Transport!Authenticated(r) PROVE TransportInv'
  <2>1. CASE Transport!Finish(r)
    BY <1>2, <2>1, FinishStep DEF Transport!Authenticated
  <2>2. CASE ~Transport!Finish(r)
    BY <1>2, <2>2, <1>k DEF Transport!Authenticated, Transport!config, Transport!message
  <2>3. QED
    BY <2>1, <2>2
<1>3. ASSUME NEW r \in Requests, Transport!Admit(r) PROVE TransportInv'
  <2>1. CASE open < LIMIT
    BY <1>3, <2>1, <1>k DEF Transport!Admit, Transport!config, Transport!message
  <2>2. CASE ~(open < LIMIT)
    BY <1>3, <2>2, FinishStep DEF Transport!Admit
  <2>3. QED
    BY <2>1, <2>2
<1>4. ASSUME NEW r \in Requests, Transport!DispatchQuick(r) PROVE TransportInv'
  <2>1. PICK v \in Nat : Transport!Record(r, Transport!Reply(r, v, 0))
    BY <1>4 DEF Transport!DispatchQuick
  <2>2. /\ Transport!Reply(r, v, 0) \in Replies /\ Transport!Reply(r, v, 0).item = done[r] + 1
        /\ Transport!Reply(r, v, 0).shown = 0
    BY DEF Transport!Reply, Replies
  <2>3. pc[r] = "items" /\ UNCHANGED <<Transport!config, schemas, pc, body>>
    BY <1>4 DEF Transport!DispatchQuick
  <2>4. SchemasTrue'
    BY <2>3 DEF SchemasTrue
  <2>5. QED
    BY <2>1, <2>2, <2>3, <2>4, DispatchStep
<1>5. ASSUME NEW r \in Requests, Transport!DispatchList(r) PROVE TransportInv'
  <2>2. version \in 1 .. MAX_VERSION /\ version \in Nat
    BY <1>5 DEF Transport!DispatchList, Transport!LimitsValid
  <2>1. PICK c \in Nat : c = IF schemas[version] = 0 THEN version ELSE schemas[version]
    BY <2>2
  <2>3. c = version
    BY <2>1, <2>2 DEF SchemasTrue
  <2>4. schemas' = [schemas EXCEPT ![version] = c]
    BY <1>5, <2>1, <2>2 DEF Transport!DispatchList, Transport!SchemaKey
  <2>5. schemas' \in [1 .. MAX_VERSION -> Nat] /\ schemas'[version] = version /\ SchemasTrue'
    BY <2>2, <2>3, <2>4 DEF SchemasTrue
  <2>6. Transport!Record(r, Transport!Reply(r, version, version))
    BY <1>5, <2>5 DEF Transport!DispatchList, Transport!SchemaKey
  <2>7. /\ Transport!Reply(r, version, version) \in Replies
        /\ Transport!Reply(r, version, version).item = done[r] + 1
        /\ Transport!Reply(r, version, version).shown = Transport!Reply(r, version, version).resolved
    BY DEF Transport!Reply, Replies
  <2>8. pc[r] = "items" /\ UNCHANGED <<Transport!config, pc, body>>
    BY <1>5 DEF Transport!DispatchList
  <2>9. QED
    BY <2>5, <2>6, <2>7, <2>8, DispatchStep
<1>6. ASSUME NEW r \in Requests, Transport!DispatchCall(r) PROVE TransportInv'
  <2>1. CASE Transport!Record(r, Transport!Reply(r, version, 0)) /\ UNCHANGED pc
    <3>2. /\ Transport!Reply(r, version, 0) \in Replies /\ Transport!Reply(r, version, 0).item = done[r] + 1
          /\ Transport!Reply(r, version, 0).shown = 0
      BY DEF Transport!Reply, Replies
    <3>3. pc[r] = "items" /\ UNCHANGED <<Transport!config, schemas, pc, body>>
      BY <1>6, <2>1 DEF Transport!DispatchCall
    <3>4. SchemasTrue'
      BY <3>3 DEF SchemasTrue
    <3>5. QED
      BY <2>1, <3>2, <3>3, <3>4, DispatchStep
  <2>2. CASE pc' = [pc EXCEPT ![r] = "call"] /\ UNCHANGED <<done, out>>
    BY <1>6, <2>2, <1>k DEF Transport!DispatchCall, Transport!config
  <2>3. QED
    BY <1>6, <2>1, <2>2 DEF Transport!DispatchCall
<1>7. ASSUME NEW r \in Requests, Transport!CallReturns(r) PROVE TransportInv'
  <2>1. Transport!Record(r, Transport!Reply(r, 0, 0))
    BY <1>7 DEF Transport!CallReturns
  <2>2. /\ Transport!Reply(r, 0, 0) \in Replies /\ Transport!Reply(r, 0, 0).item = done[r] + 1
        /\ Transport!Reply(r, 0, 0).shown = 0
    BY DEF Transport!Reply, Replies
  <2>3. /\ pc' \in [Requests -> TransportPlaces] /\ pc'[r] = "items"
        /\ \A q \in Requests : q # r => pc'[q] = pc[q]
        /\ UNCHANGED <<Transport!config, schemas, body>>
    BY <1>7 DEF Transport!CallReturns
  <2>4. SchemasTrue'
    BY <2>3 DEF SchemasTrue
  <2>5. QED
    BY <2>1, <2>2, <2>3, <2>4, DispatchStep
<1>8. ASSUME NEW r \in Requests, Transport!Respond(r) PROVE TransportInv'
  <2>1. CASE Transport!Finish(r)
    BY <1>8, <2>1, FinishStep DEF Transport!Respond
  <2>2. CASE ~Transport!Finish(r)
    BY <1>8, <2>2, <1>k DEF Transport!Respond, Transport!config, Transport!message
  <2>3. QED
    BY <2>1, <2>2
<1>9. ASSUME NEW r \in Requests, Transport!StreamEnds(r) PROVE TransportInv'
  BY <1>9, FinishStep DEF Transport!StreamEnds
<1>10. ASSUME NEW r \in Requests, Transport!Disconnect(r) PROVE TransportInv'
  BY <1>10, FinishStep DEF Transport!Disconnect
<1>11. CASE Transport!Reload
  BY <1>11, <1>k DEF Transport!Reload, Transport!message, Transport!LimitsValid
<1>12. CASE Transport!Signal
  BY <1>12, <1>k DEF Transport!Signal, Transport!message
<1>13. CASE UNCHANGED Transport!vars
  BY <1>13, <1>k DEF Transport!vars
<1>14. QED
  BY <1>1, <1>2, <1>3, <1>4, <1>5, <1>6, <1>7, <1>8, <1>9, <1>10, <1>11, <1>12, <1>13
     DEF Transport!Next, Transport!Step

(* A batch is answered item by item, in order, without a reply to a        *)
(* notification and without one twice (transport.rs:273-282).              *)
THEOREM BatchesAnswered ==
  ASSUME Transport!LimitsValid, Transport!BodiesValid PROVE Transport!Spec => []Transport!AnsweredInOrder
<1>1. TransportInv => Transport!AnsweredInOrder
  <2> SUFFICES ASSUME TransportInv, NEW r \in Requests, body[r].batch
               PROVE  /\ {out[r][i].item : i \in DOMAIN out[r]}
                           = {k \in 1 .. done[r] : ~Transport!IsNotification(body[r].items[k])}
                      /\ \A i, j \in DOMAIN out[r] : i < j => out[r][i].item < out[r][j].item
    BY DEF Transport!AnsweredInOrder
  <2>1. TransportInOrder(body[r], done[r], out[r]) /\ DOMAIN out[r] = 1 .. Len(out[r])
    BY DEF TransportInv, TransportShapes, Answers
  <2>2. \A k : k \in {out[r][i].item : i \in 1 .. Len(out[r])}
                <=> k \in 1 .. done[r] /\ ~Transport!IsNotification(body[r].items[k])
    BY <2>1 DEF TransportInOrder
  <2>3. {out[r][i].item : i \in DOMAIN out[r]}
          = {k \in 1 .. done[r] : ~Transport!IsNotification(body[r].items[k])}
    BY ONLY <2>1, <2>2
  <2>4. QED
    BY ONLY <2>1, <2>3 DEF TransportInOrder
<1>2. QED
  BY <1>1, TransportInitially, TransportInductive, PTL DEF Transport!Spec

(* The list of tools a request shows is the one of the configuration that  *)
(* request resolved, not of an older or a newer one: the cache of schemas  *)
(* is keyed by version (tool_schema.rs:94-98).                             *)
THEOREM ListsShowResolved ==
  ASSUME Transport!LimitsValid, Transport!BodiesValid PROVE Transport!Spec => []Transport!ListShowsResolved
<1>1. TransportInv => Transport!ListShowsResolved
  <2> SUFFICES ASSUME TransportInv, NEW r \in Requests
               PROVE  \A i \in DOMAIN out[r] : out[r][i].shown \in {0, out[r][i].resolved}
    BY DEF Transport!ListShowsResolved
  <2>1. Shows(out[r]) /\ DOMAIN out[r] = 1 .. Len(out[r])
    BY DEF TransportInv, TransportShapes, Answers
  <2>2. QED
    BY ONLY <2>1 DEF Shows
<1>2. QED
  BY <1>1, TransportInitially, TransportInductive, PTL DEF Transport!Spec

-----------------------------------------------------------------------------
(* The sessions                                                            *)

CONSTANTS CHANNEL_CAPACITY, MAX_SSE_SESSIONS, None, Posts, SESSION_TIMEOUT,
          Sessions
VARIABLES age, conn, full, isShuttingDown, queue, registered, silence,
          sweeping, target, timedOut, told
Sse == INSTANCE SseSessions

(* What the proof needs of the types.                                      *)
SessionShapes ==
  /\ conn \in [Sessions -> {"new", "auth", "refused", "open", "closed", "left"}]
  /\ queue \in [Sessions -> Seq(Sse!Message)]

(* The client of session s has been told that it is cancelled, or will be  *)
(* by what is queued, or its queue was full.                               *)
Announced(s) ==
  s \in told \cup full \/ \E i \in 1 .. Len(queue[s]) : queue[s][i] = "cancelled"

(* A session whose stream is not open yet.                                 *)
Unopened == {"new", "auth", "refused"}

(* A session leaves the registry only after the event that tells its client*)
(* was queued.                                                             *)
CancelFirst ==
  /\ \A s \in Sessions : conn[s] \in Unopened =>
       s \notin registered /\ s \notin timedOut /\ sweeping # s
  /\ \A s \in Sessions : conn[s] = "open" /\ (s \notin registered \/ sweeping = s) => Announced(s)
  /\ Sse!ClosedClientTold

(* The inductive invariant of the sessions.                                *)
SseInv == SessionShapes /\ CancelFirst

(* Sending to a session (try_send) loses nothing that is queued, for that  *)
(* session or another.                                                     *)
LEMMA PushKeeps ==
  ASSUME SessionShapes, NEW t \in Sessions, NEW m \in Sse!Message, Sse!Push(t, m),
         NEW s \in Sessions
  PROVE  /\ queue' \in [Sessions -> Seq(Sse!Message)]
         /\ \A i \in 1 .. Len(queue[s]) : i \in 1 .. Len(queue'[s]) /\ queue'[s][i] = queue[s][i]
<1>1. /\ \/ queue' = queue
         \/ queue' = [queue EXCEPT ![t] = Append(queue[t], m)]
      /\ Append(queue[t], m) \in Seq(Sse!Message)
  BY DEF Sse!Push, SessionShapes
<1>2. queue[s] \in Seq(Sse!Message) /\ queue[t] \in Seq(Sse!Message)
  BY DEF SessionShapes
<1>3. CASE queue' = queue
  BY <1>2, <1>3 DEF SessionShapes
<1>4. CASE queue' = [queue EXCEPT ![t] = Append(queue[t], m)]
  <2>1. queue'[s] = IF s = t THEN Append(queue[s], m) ELSE queue[s]
    BY <1>4 DEF SessionShapes
  <2>2. Append(queue[s], m) \in Seq(Sse!Message) /\ Len(Append(queue[s], m)) = Len(queue[s]) + 1
        /\ \A i \in 1 .. Len(queue[s]) : Append(queue[s], m)[i] = queue[s][i]
    BY <1>2
  <2>3. queue' \in [Sessions -> Seq(Sse!Message)]
    BY <1>1, <1>4 DEF SessionShapes
  <2>4. QED
    BY <1>2, <2>1, <2>2, <2>3
<1>5. QED
  BY <1>1, <1>3, <1>4

(* Every step of a client, of the sweeper or of a POST keeps the order: the*)
(* event is sent before the session is removed (sse.rs:156-184).           *)
LEMMA SseInductive ==
  ASSUME None \notin Sessions
  PROVE  SseInv /\ [Sse!Next]_(Sse!vars) => SseInv'
<1> SUFFICES ASSUME SseInv, [Sse!Next]_(Sse!vars) PROVE SseInv'
  OBVIOUS
<1>0. ASSUME queue' \in [Sessions -> Seq(Sse!Message)], UNCHANGED <<conn, registered, timedOut>>,
             \A s \in Sessions : sweeping' = s => sweeping = s \/ (s \in timedOut /\ Announced(s)'),
             told \subseteq told', full \subseteq full',
             \A s \in Sessions : Announced(s) => Announced(s)'
      PROVE  SseInv'
  <2>1. SessionShapes'
    BY <1>0 DEF SseInv, SessionShapes
  <2>2. Sse!ClosedClientTold'
    BY <1>0 DEF SseInv, CancelFirst, Sse!ClosedClientTold
  <2>3. ASSUME NEW s \in Sessions
        PROVE  /\ conn'[s] \in Unopened => s \notin registered' /\ s \notin timedOut' /\ sweeping' # s
               /\ conn'[s] = "open" /\ (s \notin registered' \/ sweeping' = s) => Announced(s)'
    BY <1>0 DEF SseInv, CancelFirst
  <2>4. QED
    BY <2>1, <2>2, <2>3 DEF SseInv, CancelFirst
<1> USE DEF SseInv, SessionShapes, CancelFirst, Unopened, Sse!ClosedClientTold
<1>1. ASSUME NEW s \in Sessions, Sse!Connect(s) \/ Sse!Refuse(s) PROVE SseInv'
  BY <1>1 DEF Sse!Connect, Sse!Refuse, Sse!Goto, Announced, Sse!sweepVars, Sse!historyVars
<1>2. ASSUME NEW s \in Sessions, Sse!Register(s) PROVE SseInv'
  BY <1>2 DEF Sse!Register, Sse!Goto, Announced, Sse!sweepVars
<1>3. ASSUME NEW s \in Sessions, Sse!StreamMessage(s) PROVE SseInv'
  <2>1. /\ queue[s] \in Seq(Sse!Message) /\ queue[s] # <<>> /\ queue' = [queue EXCEPT ![s] = Tail(queue[s])]
        /\ UNCHANGED <<conn, registered, timedOut, sweeping, full>>
        /\ told \subseteq told' /\ (queue[s][1] = "cancelled" => s \in told')
    BY <1>3 DEF Sse!StreamMessage, Sse!sweepVars
  <2>2. /\ Tail(queue[s]) \in Seq(Sse!Message) /\ Len(queue[s]) \in Nat \ {0}
        /\ Len(Tail(queue[s])) = Len(queue[s]) - 1
        /\ \A i \in 1 .. Len(queue[s]) - 1 : Tail(queue[s])[i] = queue[s][i + 1]
    BY <2>1
  <2>3. ASSUME NEW q \in Sessions, Announced(q) PROVE Announced(q)'
    <3>1. CASE q \in told \cup full
      BY <2>1, <3>1 DEF Announced
    <3>2. CASE q # s
      BY <2>1, <2>3, <3>2 DEF Announced
    <3>3. CASE q = s /\ q \notin told \cup full
      <4>1. PICK i \in 1 .. Len(queue[s]) : queue[s][i] = "cancelled"
        BY <2>3, <3>3 DEF Announced
      <4>2. CASE i = 1
        BY <2>1, <3>3, <4>1, <4>2 DEF Announced
      <4>3. CASE i # 1
        <5>1. i - 1 \in 1 .. Len(queue[s]) - 1 /\ (i - 1) + 1 = i
          BY <2>2, <4>3
        <5>2. Tail(queue[s])[i - 1] = "cancelled"
          BY ONLY <2>2, <4>1, <5>1
        <5>3. queue'[q] = Tail(queue[s])
          BY <2>1, <3>3
        <5>4. QED
          BY ONLY <2>2, <5>1, <5>2, <5>3 DEF Announced
      <4>4. QED
        BY <4>2, <4>3
    <3>4. QED
      BY <3>1, <3>2, <3>3
  <2>4. queue' \in [Sessions -> Seq(Sse!Message)]
    BY <2>1, <2>2
  <2>5. QED
    BY ONLY <1>0, <2>1, <2>3, <2>4
<1>4. ASSUME NEW s \in Sessions, Sse!StreamEnd(s) PROVE SseInv'
  <2>1. s \in told \cup full
    BY <1>4 DEF Sse!StreamEnd, Sse!Goto, Announced
  <2>2. QED
    BY <1>4, <2>1 DEF Sse!StreamEnd, Sse!Goto, Announced, Sse!sweepVars, Sse!historyVars
<1>5. ASSUME NEW s \in Sessions, Sse!ClientLeaves(s) PROVE SseInv'
  BY <1>5 DEF Sse!ClientLeaves, Sse!Goto, Announced, Sse!sweepVars, Sse!historyVars
<1>6. ASSUME NEW p \in Posts, Sse!PostResponse(p) PROVE SseInv'
  <2>1. CASE target[p] \in registered /\ target[p] \in Sessions
    <3>1. Sse!Push(target[p], "response") /\ UNCHANGED <<conn, registered, timedOut, sweeping, told, full>>
      BY <1>6, <2>1 DEF Sse!PostResponse, Sse!sweepVars
    <3>2. \A s \in Sessions : 
            /\ queue' \in [Sessions -> Seq(Sse!Message)]
            /\ \A i \in 1 .. Len(queue[s]) : i \in 1 .. Len(queue'[s]) /\ queue'[s][i] = queue[s][i]
      BY <2>1, <3>1, PushKeeps DEF Sse!Message
    <3>3. \A s \in Sessions : Announced(s) => Announced(s)'
      BY <3>1, <3>2 DEF Announced
    <3>4. queue' \in [Sessions -> Seq(Sse!Message)]
      BY <2>1, <3>2
    <3>5. QED
      BY ONLY <1>0, <3>1, <3>3, <3>4
  <2>2. CASE target[p] \notin registered \/ target[p] \notin Sessions
    <3>1. queue \in [Sessions -> Seq(Sse!Message)] /\ queue' = queue
      <4>1. CASE target[p] \notin registered
        BY <1>6, <4>1 DEF Sse!PostResponse
      <4>2. CASE target[p] \in registered /\ target[p] \notin Sessions
        <5>1. Sse!Push(target[p], "response")
          BY <1>6, <4>2, Zenon DEF Sse!PostResponse
        <5>2. \A x : x \notin Sessions => [queue EXCEPT ![x] = Append(@, "response")] = queue
          OBVIOUS
        <5>3. QED
          BY <4>2, <5>1, <5>2 DEF Sse!Push
      <4>3. QED
        BY <2>2, <4>1, <4>2
    <3>2. UNCHANGED <<conn, registered, timedOut, sweeping, told, full, queue>>
      BY <1>6, <3>1 DEF Sse!PostResponse, Sse!sweepVars
    <3>3. \A s \in Sessions : Announced(s) => Announced(s)'
      BY <3>2 DEF Announced
    <3>4. queue' \in [Sessions -> Seq(Sse!Message)]
      BY <3>1, <3>2
    <3>5. QED
      BY ONLY <1>0, <3>2, <3>3, <3>4
  <2>3. QED
    BY <2>1, <2>2
<1>7. ASSUME NEW s \in Sessions, Sse!SweepCancel(s) PROVE SseInv'
  <2>1. /\ Sse!Push(s, "cancelled") /\ sweeping' = s /\ s \in timedOut /\ sweeping = None
        /\ full' = (IF queue' = queue THEN full \cup {s} ELSE full)
        /\ UNCHANGED <<conn, registered, timedOut, told>>
    BY <1>7 DEF Sse!SweepCancel
  <2>2. \A q \in Sessions : 
          /\ queue' \in [Sessions -> Seq(Sse!Message)]
          /\ \A i \in 1 .. Len(queue[q]) : i \in 1 .. Len(queue'[q]) /\ queue'[q][i] = queue[q][i]
    BY <2>1, PushKeeps DEF Sse!Message
  <2>3. \A q \in Sessions : Announced(q) => Announced(q)'
    BY <2>1, <2>2 DEF Announced
  <2>4. Announced(s)'
    <3>1. CASE queue' = queue
      BY <2>1, <3>1 DEF Announced
    <3>2. CASE queue' # queue
      <4>1. queue'[s] = Append(queue[s], "cancelled") /\ queue[s] \in Seq(Sse!Message)
        BY <2>1, <3>2 DEF Sse!Push
      <4>2. Len(queue'[s]) \in 1 .. Len(queue'[s]) /\ queue'[s][Len(queue'[s])] = "cancelled"
        BY ONLY <4>1
      <4>3. QED
        BY ONLY <4>2 DEF Announced
    <3>3. QED
      BY <3>1, <3>2
  <2>5. QED
    BY ONLY <1>0, <2>1, <2>2, <2>3, <2>4
<1>8. ASSUME NEW s \in Sessions, Sse!SweepRemove(s) PROVE SseInv'
  BY <1>8 DEF Sse!SweepRemove, Announced, Sse!historyVars
<1>9. CASE Sse!SweepCollect
  BY <1>9 DEF Sse!SweepCollect, Announced, Sse!historyVars
<1>10. ASSUME UNCHANGED <<conn, registered, queue, timedOut, sweeping, told, full>> PROVE SseInv'
  BY <1>10 DEF Announced
<1>11. ASSUME NEW p \in Posts, NEW s \in Sessions, Sse!Post(p, s) PROVE SseInv'
  BY <1>11, <1>10 DEF Sse!Post, Sse!sweepVars, Sse!historyVars
<1>12. ASSUME NEW p \in Posts, Sse!PostNotification(p) \/ Sse!PostDropped(p) PROVE SseInv'
  BY <1>12, <1>10 DEF Sse!PostNotification, Sse!PostDropped, Sse!sweepVars, Sse!historyVars
<1>13. CASE Sse!Tick \/ Sse!Signal \/ UNCHANGED Sse!vars
  BY <1>13, <1>10 DEF Sse!Tick, Sse!Signal, Sse!vars, Sse!sweepVars, Sse!historyVars
<1>14. QED
  BY <1>1, <1>2, <1>3, <1>4, <1>5, <1>6, <1>7, <1>8, <1>9, <1>11, <1>12, <1>13
     DEF Sse!Next, Sse!Stream, Sse!PostRuns, Sse!Sweep

(* A session the gateway closes has told its client first: the stream hands*)
(* over the cancellation of the sweeper before it ends, unless the channel *)
(* had no room for it (sse.rs:156-184).                                    *)
THEOREM ClosedAfterCancel ==
  ASSUME None \notin Sessions
  PROVE  Sse!Spec => []Sse!ClosedClientTold
<1>1. Sse!Init => SseInv
  BY DEF Sse!Init, SseInv, SessionShapes, CancelFirst, Unopened, Announced, Sse!ClosedClientTold
<1>2. SseInv => Sse!ClosedClientTold
  BY DEF SseInv, CancelFirst
<1>3. QED
  BY <1>1, <1>2, SseInductive, PTL DEF Sse!Spec
=============================================================================
