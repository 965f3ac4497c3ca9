------------------------------ MODULE ApiProofs -------------------------------
(***************************************************************************)
(* Proofs about the parts of the API: ServerApi for any finite set of      *)
(* identifiers, writers, walks and page size; JwksCache for any requests,  *)
(* keys and lifetime; UserSync for any accounts, emails and bounds, when   *)
(* every payload names a primary email; and ApiLifecycle for any requests  *)
(* and timeouts.                                                           *)
(*                                                                         *)
(* A module that is brought in by INSTANCE takes the names it has in common*)
(* with this module from it; no theorem is about two of the components at  *)
(* once.                                                                   *)
(***************************************************************************)
EXTENDS ServerApi, FiniteSetTheorems, TLAPS


-----------------------------------------------------------------------------
(* The servers                                                             *)

(* What a walk through the list of servers remembers.                      *)
WalkRecords == [pc : {"idle", "cursor", "page", "done", "failed"}, cursor : Int,
                after : Int, got : Seq(Ids), stable : SUBSET Ids]

(* What the proofs need of the types.                                      *)
Shapes ==
    /\ now \in Int
    /\ DOMAIN row = Ids
    /\ \A i \in Ids : /\ DOMAIN row[i] = {"present", "slug", "vals", "created_at"}
                      /\ row[i].created_at \in Int
    /\ unused \subseteq Ids /\ unused \cap Present = {}
    /\ walk \in [Walkers -> WalkRecords]

(* The cursor of walk w, at time at, separates what it has from the rows it*)
(* must still find.                                                        *)
Bounds(w, at) ==
    /\ \A i \in Range(walk[w].got) \cap Present : ~AfterCursor(i, at, walk[w].after)
    /\ \A i \in walk[w].stable \ Range(walk[w].got) : AfterCursor(i, at, walk[w].after)

(* What is true of walk w at each of its steps.                            *)
WalkTrue(w) ==
    /\ \A i, j \in 1 .. Len(walk[w].got) : walk[w].got[i] = walk[w].got[j] => i = j
    /\ Range(walk[w].got) \cap unused = {}
    /\ walk[w].stable \subseteq Present
    /\ walk[w].pc = "idle" => walk[w].got = << >> /\ walk[w].after = 0
    /\ walk[w].pc = "cursor" =>
         /\ walk[w].after \in Range(walk[w].got)
         /\ row[walk[w].after].present => Bounds(w, row[walk[w].after].created_at)
    /\ walk[w].pc = "page" => Bounds(w, walk[w].cursor)
    /\ walk[w].pc = "done" => walk[w].stable \subseteq Range(walk[w].got)

(* The inductive invariant of the walks.                                   *)
WalkInv == Shapes /\ \A w \in Walkers : WalkTrue(w)

(* What a walk has is identifiers.                                         *)
LEMMA GotIds == ASSUME Shapes, NEW w \in Walkers PROVE Range(walk[w].got) \subseteq Ids
  BY DEF Shapes, WalkRecords, Range

(* A writer that creates a row with an unused identifier, changes or       *)
(* deletes one and leaves the creation times alone keeps the invariant of  *)
(* the walks.                                                              *)
LEMMA WritersKeepWalks ==
    ASSUME WalkInv, now' \in Int, DOMAIN row' = Ids,
           \A i \in Ids : /\ DOMAIN row'[i] = {"present", "slug", "vals", "created_at"}
                          /\ row'[i].created_at \in Int
                          /\ row'[i].present => \/ i \in unused \ unused'
                                                \/ /\ row[i].present
                                                   /\ row'[i].created_at = row[i].created_at,
           unused' \subseteq unused,
           walk' \in [Walkers -> WalkRecords],
           \A w \in Walkers : /\ walk'[w].pc = walk[w].pc /\ walk'[w].after = walk[w].after
                              /\ walk'[w].cursor = walk[w].cursor /\ walk'[w].got = walk[w].got
                              /\ walk'[w].stable \subseteq walk[w].stable
                              /\ walk'[w].stable \subseteq Present'
    PROVE  WalkInv'
<1>1. Shapes'
  BY DEF WalkInv, Shapes, Present
<1>2. ASSUME NEW w \in Walkers PROVE WalkTrue(w)'
  <2>1. /\ walk'[w].pc = walk[w].pc /\ walk'[w].after = walk[w].after
        /\ walk'[w].cursor = walk[w].cursor /\ walk'[w].got = walk[w].got
        /\ walk'[w].stable \subseteq walk[w].stable /\ walk'[w].stable \subseteq Present'
    OBVIOUS
  <2>2. Range(walk[w].got) \subseteq Ids /\ Range(walk[w].got) \cap unused = {}
    BY GotIds DEF WalkInv, WalkTrue
  <2>3. ASSUME NEW at, Bounds(w, at) PROVE Bounds(w, at)'
    <3>1. ASSUME NEW i \in Ids, i \notin unused, i \in Present'
          PROVE  i \in Present /\ row'[i].created_at = row[i].created_at
      BY <3>1 DEF Present
    <3>2. ASSUME NEW i \in Range(walk[w].got) \cap Present' PROVE ~AfterCursor(i, at, walk[w].after)'
      <4>1. i \in Present /\ row'[i].created_at = row[i].created_at
        BY <2>2, <3>1, <3>2
      <4>2. ~AfterCursor(i, at, walk[w].after)
        BY <2>3, <4>1, <3>2 DEF Bounds
      <4>3. QED
        BY <2>1, <4>1, <4>2 DEF AfterCursor
    <3>3. ASSUME NEW i \in walk'[w].stable \ Range(walk[w].got)
          PROVE  AfterCursor(i, at, walk[w].after)'
      <4>1. i \in Ids /\ i \in Present /\ i \notin unused /\ i \in Present'
        BY <2>1, <3>3 DEF WalkInv, WalkTrue, Shapes, WalkRecords, Present
      <4>2. row'[i].created_at = row[i].created_at
        BY <3>1, <4>1
      <4>3. AfterCursor(i, at, walk[w].after)
        BY <2>1, <2>3, <3>3 DEF Bounds
      <4>4. QED
        BY <2>1, <4>2, <4>3 DEF AfterCursor
    <3>4. QED
      BY <2>1, <3>2, <3>3 DEF Bounds
  <2>4. ASSUME walk[w].pc = "cursor", row'[walk[w].after].present
        PROVE  Bounds(w, row[walk[w].after].created_at)'
    <3>1. walk[w].after \in Range(walk[w].got)
      BY <2>4 DEF WalkInv, WalkTrue
    <3>2. /\ walk[w].after \in Ids /\ walk[w].after \notin unused
      BY <2>2, <3>1
    <3>3. /\ row[walk[w].after].present
          /\ row'[walk[w].after].created_at = row[walk[w].after].created_at
      BY <2>4, <3>2
    <3>4. Bounds(w, row[walk[w].after].created_at)
      BY <2>4, <3>3 DEF WalkInv, WalkTrue
    <3>5. PICK at : at = row[walk[w].after].created_at
      OBVIOUS
    <3>6. Bounds(w, at)'
      BY <2>3, <3>4, <3>5
    <3>7. QED
      BY <2>1, <3>3, <3>5, <3>6
  <2>5. ASSUME walk[w].pc = "page" PROVE Bounds(w, walk[w].cursor)'
    <3>1. PICK at : at = walk[w].cursor
      OBVIOUS
    <3>2. Bounds(w, at)'
      BY <2>3, <2>5, <3>1 DEF WalkInv, WalkTrue
    <3>3. QED
      BY <2>1, <3>1, <3>2
  <2>6. WalkTrue(w)
    BY DEF WalkInv
  <2>7. /\ \A i, j \in 1 .. Len(walk'[w].got) : walk'[w].got[i] = walk'[w].got[j] => i = j
        /\ Range(walk'[w].got) \cap unused' = {}
        /\ walk'[w].pc = "idle" => walk'[w].got = << >> /\ walk'[w].after = 0
        /\ walk'[w].pc = "cursor" => walk'[w].after \in Range(walk'[w].got)
        /\ walk'[w].pc = "done" => walk'[w].stable \subseteq Range(walk'[w].got)
    BY <2>1, <2>2, <2>6 DEF WalkTrue
  <2>8. QED
    BY <2>1, <2>4, <2>5, <2>7 DEF WalkTrue
<1>3. QED
  BY <1>1, <1>2 DEF WalkInv

(* A step of one walk leaves the others true.                              *)
LEMMA OthersKept ==
    ASSUME NEW v \in Walkers, WalkTrue(v), walk'[v] = walk[v], UNCHANGED <<row, unused>>
    PROVE  WalkTrue(v)'
<1>1. Present' = Present
  BY DEF Present
<1>2. ASSUME NEW at PROVE Bounds(v, at)' <=> Bounds(v, at)
  BY <1>1 DEF Bounds, AfterCursor
<1>3. ASSUME walk[v].pc = "cursor", row[walk[v].after].present
      PROVE  Bounds(v, row[walk[v].after].created_at)'
  <2>1. PICK at : at = row[walk[v].after].created_at
    OBVIOUS
  <2>2. Bounds(v, at)'
    BY <1>2, <1>3, <2>1 DEF WalkTrue
  <2>3. QED
    BY <2>1, <2>2
<1>4. ASSUME walk[v].pc = "page" PROVE Bounds(v, walk[v].cursor)'
  <2>1. PICK at : at = walk[v].cursor
    OBVIOUS
  <2>2. Bounds(v, at)'
    BY <1>2, <1>4, <2>1 DEF WalkTrue
  <2>3. QED
    BY <2>1, <2>2
<1>5. QED
  BY <1>1, <1>3, <1>4 DEF WalkTrue

(* The first n of the rows found, newest first (ORDER BY created_at DESC,  *)
(* id DESC LIMIT n).                                                       *)
LEMMA PageIs ==
    ASSUME NEW found \in SUBSET Ids, NEW rows \in NewestFirst(found),
           NEW n \in Nat, n <= Len(rows)
    PROVE  /\ rows \in Seq(found) /\ Len(rows) \in Nat
           /\ \A i \in found : \E k \in 1 .. Len(rows) : rows[k] = i
           /\ \A i, j \in 1 .. Len(rows) : i < j => Newer(rows[i], rows[j])
           /\ \A i, j \in 1 .. Len(rows) : rows[i] = rows[j] => i = j
           /\ SubSeq(rows, 1, n) \in Seq(found) /\ Len(SubSeq(rows, 1, n)) = n
           /\ \A k \in 1 .. n : SubSeq(rows, 1, n)[k] = rows[k]
<1>1. PICK N \in Nat : N = Cardinality(found)
  BY IdsAssumption, FS_Subset, FS_CardinalityType, Zenon
<1>2. /\ rows \in [1 .. N -> found]
      /\ \A i, j \in 1 .. N : rows[i] = rows[j] => i = j
      /\ \A i \in found : \E k \in 1 .. N : rows[k] = i
      /\ \A i, j \in DOMAIN rows : i < j => Newer(rows[i], rows[j])
  BY <1>1 DEF NewestFirst, Bijection, Injection, Surjection, IsInjective
<1>3. rows \in Seq(found) /\ Len(rows) = N
  BY <1>2
<1>4. SubSeq(rows, 1, n) \in Seq(found) /\ Len(SubSeq(rows, 1, n)) = n
  BY <1>3
<1>5. \A k \in 1 .. n : SubSeq(rows, 1, n)[k] = rows[k]
  BY <1>3
<1>6. QED
  BY <1>2, <1>3, <1>4, <1>5

(* A page of the rows found is a page of rows.                             *)
LEMMA WiderSeq == ASSUME NEW S, NEW T \in SUBSET S, NEW s \in Seq(T) PROVE s \in Seq(S)
  OBVIOUS

(* Adding a page to what a walk has.                                       *)
LEMMA ConcatIs ==
    ASSUME NEW S, NEW s \in Seq(S), NEW t \in Seq(S)
    PROVE  /\ s \o t \in Seq(S) /\ Len(s) \in Nat /\ Len(t) \in Nat
           /\ Len(s \o t) = Len(s) + Len(t)
           /\ \A i \in 1 .. Len(s) + Len(t) :
                \/ i \in 1 .. Len(s) /\ (s \o t)[i] = s[i]
                \/ i - Len(s) \in 1 .. Len(t) /\ (s \o t)[i] = t[i - Len(s)]
           /\ Range(s \o t) = Range(s) \cup Range(t)
<1>1. s \o t \in Seq(S) /\ Len(s) \in Nat /\ Len(t) \in Nat /\ Len(s \o t) = Len(s) + Len(t)
  OBVIOUS
<1>2. /\ \A i \in 1 .. Len(s) : (s \o t)[i] = s[i] /\ i \in 1 .. Len(s) + Len(t)
      /\ \A j \in 1 .. Len(t) : (s \o t)[Len(s) + j] = t[j] /\ Len(s) + j \in 1 .. Len(s) + Len(t)
  BY <1>1
<1>3. ASSUME NEW i \in 1 .. Len(s) + Len(t)
      PROVE  \/ i \in 1 .. Len(s) /\ (s \o t)[i] = s[i]
             \/ i - Len(s) \in 1 .. Len(t) /\ (s \o t)[i] = t[i - Len(s)]
  <2>1. CASE i \in 1 .. Len(s)
    BY <1>2, <2>1
  <2>2. CASE i \notin 1 .. Len(s)
    <3>1. i - Len(s) \in 1 .. Len(t) /\ Len(s) + (i - Len(s)) = i
      BY <1>1, <2>2
    <3>2. QED
      BY <1>2, <3>1
  <2>3. QED
    BY <2>1, <2>2
<1>4. DOMAIN s = 1 .. Len(s) /\ DOMAIN t = 1 .. Len(t) /\ DOMAIN (s \o t) = 1 .. Len(s) + Len(t)
  BY <1>1
<1>5. Range(s \o t) \subseteq Range(s) \cup Range(t)
  BY <1>3, <1>4 DEF Range
<1>6. Range(s) \subseteq Range(s \o t) /\ Range(t) \subseteq Range(s \o t)
  BY <1>2, <1>4, Zenon DEF Range
<1>7. QED
  BY <1>1, <1>3, <1>5, <1>6

(* Reading a page after the cursor keeps the walk complete: what it adds   *)
(* lies before the new cursor, and what it leaves lies after it            *)
(* (servers.rs, list_servers).                                             *)
LEMMA PageKeeps ==
    ASSUME WalkInv, NEW w \in Walkers, Page(w)
    PROVE  WalkInv'
<1> USE DEF WalkInv
<1>1. PICK found : found = {i \in Present : AfterCursor(i, walk[w].cursor, walk[w].after)}
  BY Zenon
<1>2. found \in SUBSET Ids
  BY <1>1 DEF Present
<1>3. PICK rows \in NewestFirst(found) :
          LET has_next == Len(rows) > PAGE_SIZE
              page == SubSeq(rows, 1, IF has_next THEN PAGE_SIZE ELSE Len(rows))
          IN  walk' = [walk EXCEPT ![w].got = @ \o page,
                                   ![w].pc = IF has_next THEN "cursor" ELSE "done",
                                   ![w].after = IF page = << >> THEN @ ELSE page[Len(page)]]
  BY <1>1, Zenon DEF Page
<1>4. Len(rows) \in Nat
  BY <1>2, PageIs
<1>5. PICK n \in Nat : n = IF Len(rows) > PAGE_SIZE THEN PAGE_SIZE ELSE Len(rows)
  BY <1>4, PageAssumption
<1>6. n <= Len(rows) /\ (Len(rows) > PAGE_SIZE => n >= 1) /\ (~(Len(rows) > PAGE_SIZE) => n = Len(rows))
  BY <1>4, <1>5, PageAssumption
<1>7. PICK page : /\ page = SubSeq(rows, 1, n) /\ page \in Seq(found) /\ Len(page) = n
                  /\ \A k \in 1 .. n : page[k] = rows[k]
  <2>1. /\ SubSeq(rows, 1, n) \in Seq(found) /\ Len(SubSeq(rows, 1, n)) = n
        /\ \A k \in 1 .. n : SubSeq(rows, 1, n)[k] = rows[k]
    BY <1>2, <1>6, PageIs
  <2>2. QED
    BY <2>1, Zenon
<1>p. page \in Seq(found) /\ Len(page) = n /\ \A k \in 1 .. n : page[k] = rows[k]
  BY <1>7
<1>8. walk' = [walk EXCEPT ![w].got = @ \o page,
                           ![w].pc = IF Len(rows) > PAGE_SIZE THEN "cursor" ELSE "done",
                           ![w].after = IF page = << >> THEN @ ELSE page[Len(page)]]
  BY <1>3, <1>5, <1>7
<1>9. PICK got \in Seq(Ids) : got = walk[w].got
  BY DEF Shapes, WalkRecords
<1>q. page \in Seq(Ids)
  BY <1>2, <1>p, WiderSeq
<1>10. page \in Seq(Ids) /\ got \o page \in Seq(Ids)
  BY <1>9, <1>q
<1>11. PICK after \in Int : after = IF page = << >> THEN walk[w].after ELSE page[Len(page)]
  <2>1. page # << >> => Len(page) \in 1 .. Len(page)
    BY <1>10
  <2>2. page # << >> => page[Len(page)] \in Ids
    BY <1>10, <2>1
  <2>3. QED
    BY <2>2, IdsAssumption, Zenon DEF Shapes, WalkRecords
<1>w. PICK x : x = [walk[w] EXCEPT !.got = got \o page,
                                   !.pc = IF Len(rows) > PAGE_SIZE THEN "cursor" ELSE "done",
                                   !.after = after]
  OBVIOUS
<1>x. walk' = [walk EXCEPT ![w] = x]
  BY <1>8, <1>9, <1>11, <1>w, Zenon DEF Shapes, WalkRecords
<1>y. /\ x \in WalkRecords /\ x.got = got \o page /\ x.after = after
      /\ x.pc = (IF Len(rows) > PAGE_SIZE THEN "cursor" ELSE "done")
      /\ x.cursor = walk[w].cursor /\ x.stable = walk[w].stable
  BY <1>10, <1>w DEF Shapes, WalkRecords
<1>12. /\ walk'[w].got = got \o page /\ walk'[w].after = after
       /\ walk'[w].pc = IF Len(rows) > PAGE_SIZE THEN "cursor" ELSE "done"
       /\ walk'[w].cursor = walk[w].cursor /\ walk'[w].stable = walk[w].stable
       /\ \A v \in Walkers : v # w => walk'[v] = walk[v]
       /\ walk' \in [Walkers -> WalkRecords]
  BY <1>x, <1>y DEF Shapes
<1>13. UNCHANGED <<row, unused, now>> /\ walk[w].pc = "page"
  BY DEF Page
<1>14. Shapes'
  BY <1>12, <1>13 DEF Shapes, WalkRecords, Present
<1>15. ASSUME NEW v \in Walkers, v # w PROVE WalkTrue(v)'
  BY <1>12, <1>13, <1>15, OthersKept
<1>16. WalkTrue(w)'
  <2>1. /\ Range(got) \subseteq Ids /\ Range(got) \cap unused = {} /\ walk[w].stable \subseteq Present
        /\ \A i, j \in 1 .. Len(got) : got[i] = got[j] => i = j
        /\ Bounds(w, walk[w].cursor)
    BY <1>9, <1>13, GotIds DEF WalkTrue
  <2>2. /\ Range(got \o page) = Range(got) \cup Range(page)
        /\ Len(got) \in Nat /\ Len(got \o page) = Len(got) + n
        /\ \A i \in 1 .. Len(got) + n :
             \/ i \in 1 .. Len(got) /\ (got \o page)[i] = got[i]
             \/ i - Len(got) \in 1 .. n /\ (got \o page)[i] = page[i - Len(got)]
    <3>1. /\ Range(got \o page) = Range(got) \cup Range(page)
          /\ Len(got) \in Nat /\ Len(got \o page) = Len(got) + Len(page)
          /\ \A i \in 1 .. Len(got) + Len(page) :
               \/ i \in 1 .. Len(got) /\ (got \o page)[i] = got[i]
               \/ i - Len(got) \in 1 .. Len(page) /\ (got \o page)[i] = page[i - Len(got)]
      BY <1>q, ConcatIs
    <3>2. Len(page) = n
      BY <1>p
    <3>3. QED
      BY <3>1, <3>2
  <2>3. DOMAIN page = 1 .. n /\ Range(page) \subseteq found
    BY <1>p DEF Range
  <2>4. /\ \A i \in found : \E k \in 1 .. Len(rows) : rows[k] = i
        /\ \A i, j \in 1 .. Len(rows) : i < j => Newer(rows[i], rows[j])
        /\ \A i, j \in 1 .. Len(rows) : rows[i] = rows[j] => i = j
    BY <1>2, <1>6, PageIs
  <2>5. \A k \in 1 .. n : k \in 1 .. Len(rows) /\ page[k] = rows[k] /\ page[k] \in found
                          /\ page[k] \in Range(page)
    BY <1>4, <1>6, <1>p, <2>3 DEF Range
  <2>6. Range(got) \cap found = {}
    BY <1>1, <1>9, <2>1 DEF Bounds
  <2>7. \A k \in 1 .. Len(got) : got[k] \in Range(got)
    BY <1>9 DEF Range
  <2>8. ASSUME NEW i \in 1 .. Len(got) + n, NEW j \in 1 .. Len(got) + n,
               (got \o page)[i] = (got \o page)[j]
        PROVE  i = j
    <3>1. CASE i \in 1 .. Len(got) /\ (got \o page)[i] = got[i]
      <4>1. CASE j \in 1 .. Len(got) /\ (got \o page)[j] = got[j]
        BY <2>1, <2>8, <3>1, <4>1, Zenon
      <4>2. CASE j - Len(got) \in 1 .. n /\ (got \o page)[j] = page[j - Len(got)]
        BY <2>5, <2>6, <2>7, <2>8, <3>1, <4>2, Zenon
      <4>3. QED
        BY <2>2, <4>1, <4>2
    <3>2. CASE i - Len(got) \in 1 .. n /\ (got \o page)[i] = page[i - Len(got)]
      <4>1. CASE j \in 1 .. Len(got) /\ (got \o page)[j] = got[j]
        BY <2>5, <2>6, <2>7, <2>8, <3>2, <4>1, Zenon
      <4>2. CASE j - Len(got) \in 1 .. n /\ (got \o page)[j] = page[j - Len(got)]
        <5>1. rows[i - Len(got)] = rows[j - Len(got)]
          BY <2>5, <2>8, <3>2, <4>2, Zenon
        <5>2. i - Len(got) = j - Len(got)
          BY <2>4, <2>5, <3>2, <4>2, <5>1
        <5>3. QED
          BY <2>2, <5>2
      <4>3. QED
        BY <2>2, <4>1, <4>2
    <3>3. QED
      BY <2>2, <3>1, <3>2
  <2>9. Range(got \o page) \cap unused = {}
    BY <1>1, <2>1, <2>2, <2>3 DEF Shapes, WalkRecords
  <2>10. ASSUME NEW i \in walk[w].stable \ Range(got)
         PROVE  \E k \in 1 .. Len(rows) : rows[k] = i /\ i \in found
    <3>1. i \in found
      BY <1>1, <1>9, <2>1 DEF Bounds
    <3>2. QED
      BY <2>4, <3>1
  <2>11. ASSUME walk'[w].pc = "done" PROVE walk[w].stable \subseteq Range(got \o page)
    <3>1. n = Len(rows)
      BY <1>6, <1>12, <2>11
    <3>2. QED
      BY <2>2, <2>5, <2>10, <3>1
  <2>12. ASSUME walk'[w].pc = "cursor"
         PROVE  after \in Range(got \o page) /\ Bounds(w, row[after].created_at)'
    <3>1. n >= 1 /\ page # << >> /\ n \in 1 .. n /\ after = page[n]
      <4>1. n >= 1 /\ n \in 1 .. n
        BY <1>6, <1>12, <2>12
      <4>2. page # << >> /\ Len(page) = n
        BY <1>p, <4>1
      <4>3. QED
        BY <1>11, <4>1, <4>2
    <3>2. after \in found /\ after \in Range(page) /\ after = rows[n] /\ n \in 1 .. Len(rows)
      BY <2>5, <3>1
    <3>3. after \in Ids /\ after # 0 /\ AfterCursor(after, walk[w].cursor, walk[w].after)
      BY <1>1, <1>2, <3>2, IdsAssumption
    <3>4. /\ \A i \in Ids : row[i].created_at \in Int /\ i \in Int
          /\ walk[w].cursor \in Int /\ walk[w].after \in Int
      BY IdsAssumption DEF Shapes, WalkRecords
    <3>5. ASSUME NEW i \in Range(got \o page) \cap Present
          PROVE  ~AfterCursor(i, row[after].created_at, after)
      <4>1. CASE i \in Range(page)
        <5>1. PICK k \in 1 .. n : i = rows[k] /\ k \in 1 .. Len(rows)
          BY <2>3, <2>5, <4>1, Zenon DEF Range
        <5>2. i = after \/ Newer(i, after)
          BY <2>4, <3>2, <5>1
        <5>3. i \in Ids
          BY DEF Present
        <5>4. QED
          BY <3>3, <3>4, <5>2, <5>3 DEF Newer, AfterCursor
      <4>2. CASE i \in Range(got)
        <5>1. ~AfterCursor(i, walk[w].cursor, walk[w].after) /\ i \in Ids
          BY <1>9, <2>1, <4>2 DEF Bounds, Present
        <5>2. QED
          BY <3>3, <3>4, <5>1 DEF AfterCursor
      <4>3. QED
        BY <2>2, <4>1, <4>2
    <3>6. ASSUME NEW i \in walk[w].stable \ Range(got \o page)
          PROVE  AfterCursor(i, row[after].created_at, after)
      <4>1. PICK k \in 1 .. Len(rows) : rows[k] = i /\ i \in found
        BY <2>2, <2>10
      <4>2. k \notin 1 .. n
        BY <2>2, <2>5, <4>1
      <4>3. n < k
        BY <1>4, <3>1, <4>2
      <4>4. Newer(after, i) /\ i \in Ids
        BY <1>2, <2>4, <3>2, <4>1, <4>3
      <4>5. QED
        BY <3>3, <3>4, <4>4 DEF Newer, AfterCursor
    <3>7. QED
      BY <1>12, <1>13, <2>2, <3>2, <3>5, <3>6 DEF Bounds, AfterCursor, Present
  <2>13. walk'[w].pc \in {"cursor", "done"} /\ Present' = Present
    BY <1>12, <1>13 DEF Present
  <2>14. /\ \A i, j \in 1 .. Len(walk'[w].got) : walk'[w].got[i] = walk'[w].got[j] => i = j
         /\ Range(walk'[w].got) \cap unused' = {}
         /\ walk'[w].stable \subseteq Present'
    BY <1>12, <1>13, <2>1, <2>2, <2>8, <2>9, <2>13
  <2>15. QED
    BY <1>12, <1>13, <2>11, <2>12, <2>13, <2>14 DEF WalkTrue
<1>17. QED
  BY <1>14, <1>15, <1>16

(* Every step of a writer or of a walk keeps the invariant of the walks.   *)
LEMMA WalkInductive == WalkInv /\ [Next]_vars => WalkInv'
<1> SUFFICES ASSUME WalkInv, [Next]_vars PROVE WalkInv'
  OBVIOUS
<1>1. ASSUME NEW w \in Walkers, StartWalk(w) PROVE WalkInv'
  <2>1. /\ walk[w].pc = "idle" /\ UNCHANGED <<row, unused, now>>
        /\ walk' = [walk EXCEPT ![w].pc = "page", ![w].stable = Present]
    BY <1>1 DEF StartWalk
  <2>2. walk[w].got = << >> /\ walk[w].after = 0
    BY <2>1 DEF WalkInv, WalkTrue
  <2>3. Present \in SUBSET Ids /\ Present' = Present
    BY <2>1 DEF Present
  <2>x. PICK x : x = [walk[w] EXCEPT !.pc = "page", !.stable = Present]
    OBVIOUS
  <2>y. walk' = [walk EXCEPT ![w] = x]
    BY <2>1, <2>x, Zenon DEF WalkInv, Shapes
  <2>z. /\ x \in WalkRecords /\ x.got = << >> /\ x.after = 0 /\ x.pc = "page"
        /\ x.stable = Present
    BY <2>2, <2>3, <2>x, Zenon DEF WalkInv, Shapes, WalkRecords
  <2>4. /\ walk'[w].got = << >> /\ walk'[w].after = 0 /\ walk'[w].pc = "page"
        /\ walk'[w].stable = Present /\ walk' \in [Walkers -> WalkRecords]
        /\ \A v \in Walkers : v # w => walk'[v] = walk[v]
    BY <2>y, <2>z DEF WalkInv, Shapes
  <2>5. Shapes'
    BY <2>1, <2>3, <2>4 DEF WalkInv, Shapes
  <2>6. Range(walk'[w].got) = {}
    BY <2>4 DEF Range
  <2>b. Bounds(w, walk[w].cursor)'
    BY <2>4, <2>6 DEF Bounds, AfterCursor
  <2>7. WalkTrue(w)'
    BY <2>1, <2>3, <2>4, <2>6, <2>b DEF WalkTrue
  <2>8. ASSUME NEW v \in Walkers, v # w PROVE WalkTrue(v)'
    BY <2>1, <2>4, <2>8, OthersKept DEF WalkInv
  <2>9. QED
    BY <2>5, <2>7, <2>8 DEF WalkInv
<1>2. ASSUME NEW w \in Walkers, CursorLookup(w) PROVE WalkInv'
  <2>1. PICK after \in Ids : after = walk[w].after
    BY <1>2, GotIds DEF CursorLookup, WalkInv, WalkTrue
  <2>2. PICK at \in Int : at = row[after].created_at
    BY DEF WalkInv, Shapes, WalkRecords
  <2>3. /\ walk[w].pc = "cursor" /\ UNCHANGED <<row, unused, now>>
        /\ walk' = IF row[after].present
                   THEN [walk EXCEPT ![w].pc = "page", ![w].cursor = at]
                   ELSE [walk EXCEPT ![w].pc = "failed"]
    BY <1>2, <2>1, <2>2 DEF CursorLookup
  <2>4. Present' = Present
    BY <2>3 DEF Present
  <2>5. /\ walk'[w].got = walk[w].got /\ walk'[w].after = after
        /\ walk'[w].stable = walk[w].stable
        /\ \/ row[after].present /\ walk'[w].pc = "page" /\ walk'[w].cursor = at
           \/ walk'[w].pc = "failed"
        /\ \A v \in Walkers : v # w => walk'[v] = walk[v]
        /\ walk' \in [Walkers -> WalkRecords]
    <3>1. CASE row[after].present
      <4>1. PICK x : x = [walk[w] EXCEPT !.pc = "page", !.cursor = at]
        OBVIOUS
      <4>2. walk' = [walk EXCEPT ![w] = x]
        BY <2>3, <3>1, <4>1, Zenon DEF WalkInv, Shapes
      <4>3. /\ x \in WalkRecords /\ x.got = walk[w].got /\ x.after = after /\ x.pc = "page"
            /\ x.stable = walk[w].stable /\ x.cursor = at
        BY <2>1, <4>1 DEF WalkInv, Shapes, WalkRecords
      <4>4. QED
        BY <3>1, <4>2, <4>3 DEF WalkInv, Shapes
    <3>2. CASE ~row[after].present
      <4>1. PICK x : x = [walk[w] EXCEPT !.pc = "failed"]
        BY Zenon
      <4>2. walk' = [walk EXCEPT ![w] = x]
        BY <2>3, <3>2, <4>1 DEF WalkInv, Shapes
      <4>3. /\ x \in WalkRecords /\ x.got = walk[w].got /\ x.after = after /\ x.pc = "failed"
            /\ x.stable = walk[w].stable
        BY <2>1, <4>1, Zenon DEF WalkInv, Shapes, WalkRecords
      <4>4. QED
        BY <4>2, <4>3 DEF WalkInv, Shapes
    <3>3. QED
      BY <3>1, <3>2
  <2>6. Shapes'
    BY <2>3, <2>4, <2>5 DEF WalkInv, Shapes
  <2>7. WalkTrue(w)
    BY DEF WalkInv
  <2>8. ASSUME walk'[w].pc = "page" PROVE Bounds(w, walk[w].cursor)'
    <3>1. Bounds(w, at) /\ walk'[w].cursor = at
      BY <2>1, <2>2, <2>3, <2>5, <2>7, <2>8 DEF WalkTrue
    <3>2. /\ \A i \in Range(walk[w].got) \cap Present : ~AfterCursor(i, at, after)
          /\ \A i \in walk[w].stable \ Range(walk[w].got) : AfterCursor(i, at, after)
      BY <2>1, <3>1 DEF Bounds
    <3>3. \A i : AfterCursor(i, at, after)' <=> AfterCursor(i, at, after)
      BY <2>3 DEF AfterCursor
    <3>4. QED
      BY <2>4, <2>5, <3>1, <3>2, <3>3 DEF Bounds
  <2>9. WalkTrue(w)'
    BY <2>3, <2>4, <2>5, <2>7, <2>8 DEF WalkTrue
  <2>10. ASSUME NEW v \in Walkers, v # w PROVE WalkTrue(v)'
    BY <2>3, <2>5, <2>10, OthersKept DEF WalkInv
  <2>11. QED
    BY <2>6, <2>9, <2>10 DEF WalkInv
<1>3. ASSUME NEW w \in Walkers, Page(w) PROVE WalkInv'
  BY <1>3, PageKeeps
<1>4. ASSUME UNCHANGED <<row, unused, walk>>, now' \in Int PROVE WalkInv'
  <2>1. Present' = Present
    BY <1>4 DEF Present
  <2>2. QED
    BY <1>4, <2>1, WritersKeepWalks DEF WalkInv, WalkTrue, Shapes, WalkRecords
<1>5. ASSUME NEW c \in Writers, CreateServer(c) \/ UpdateSelect(c) \/ Reset(c) PROVE WalkInv'
  BY <1>4, <1>5, Zenon DEF CreateServer, UpdateSelect, Reset, WalkInv, Shapes, WalkRecords
<1>6. ASSUME NEW c \in Writers, Insert(c) PROVE WalkInv'
  <2>1. CASE UNCHANGED <<row, unused>>
    BY <1>4, <1>6, <2>1 DEF Insert, WalkInv, Shapes, WalkRecords
  <2>2. CASE ~UNCHANGED <<row, unused>>
    <3>1. PICK s \in Slugs, i \in unused :
              /\ row' = [row EXCEPT ![i] = [present |-> TRUE, slug |-> s,
                                            vals |-> op[c].set, created_at |-> now]]
              /\ unused' = unused \ {i}
      BY <1>6, <2>2 DEF Insert
    <3>2. UNCHANGED <<now, walk>> /\ i \in Ids
      BY <1>6 DEF Insert, WalkInv, Shapes, WalkRecords
    <3>3. /\ DOMAIN row' = Ids /\ row'[i].created_at = now
          /\ DOMAIN row'[i] = {"present", "slug", "vals", "created_at"}
          /\ \A j \in Ids : j # i => row'[j] = row[j]
      BY <3>1, <3>2 DEF WalkInv, Shapes, WalkRecords
    <3>4. Present \subseteq Present'
      BY <3>1, <3>2, <3>3 DEF Present, WalkInv, Shapes, WalkRecords
    <3>5. QED
      BY <3>1, <3>2, <3>3, <3>4, WritersKeepWalks DEF WalkInv, WalkTrue, Shapes, WalkRecords
  <2>3. QED
    BY <2>1, <2>2
<1>7. ASSUME NEW c \in Writers, UpdateWrite(c) PROVE WalkInv'
  <2>1. UNCHANGED <<unused, now, walk>>
    BY <1>7 DEF UpdateWrite
  <2>2. CASE UNCHANGED row
    BY <1>4, <2>1, <2>2 DEF WalkInv, Shapes, WalkRecords
  <2>3. CASE ~UNCHANGED row
    <3>1. row' = [row EXCEPT ![op[c].id].vals = Merged(op[c].set, op[c].seen)]
      BY <1>7, <2>3 DEF UpdateWrite
    <3>2. /\ DOMAIN row' = Ids
          /\ \A i \in Ids : /\ DOMAIN row'[i] = DOMAIN row[i]
                            /\ row'[i].present = row[i].present
                            /\ row'[i].created_at = row[i].created_at
      BY <3>1 DEF WalkInv, Shapes, WalkRecords
    <3>3. Present' = Present
      BY <3>2 DEF Present
    <3>4. QED
      BY <2>1, <3>2, <3>3, WritersKeepWalks DEF WalkInv, WalkTrue, Shapes, WalkRecords
  <2>4. QED
    BY <2>2, <2>3
<1>8. ASSUME NEW c \in Writers, DeleteServer(c) PROVE WalkInv'
  <2>1. UNCHANGED <<unused, now>>
    BY <1>8 DEF DeleteServer
  <2>2. CASE UNCHANGED <<row, walk>>
    BY <1>4, <2>1, <2>2 DEF WalkInv, Shapes, WalkRecords
  <2>3. CASE ~UNCHANGED <<row, walk>>
    <3>1. PICK i \in Ids :
              /\ row' = [row EXCEPT ![i] = NoRow]
              /\ walk' = [w \in Walkers |-> [walk[w] EXCEPT !.stable = @ \ {i}]]
      BY <1>8, <2>3 DEF DeleteServer
    <3>2. /\ DOMAIN row' = Ids /\ row'[i].created_at = 0 /\ row'[i].present = FALSE
          /\ DOMAIN row'[i] = {"present", "slug", "vals", "created_at"}
          /\ \A j \in Ids : j # i => row'[j] = row[j]
      BY <3>1 DEF WalkInv, Shapes, WalkRecords, NoRow
    <3>3. /\ \A w \in Walkers : /\ walk'[w].pc = walk[w].pc /\ walk'[w].after = walk[w].after
                                /\ walk'[w].cursor = walk[w].cursor /\ walk'[w].got = walk[w].got
                                /\ walk'[w].stable = walk[w].stable \ {i}
          /\ walk' \in [Walkers -> WalkRecords]
      <4>1. ASSUME NEW w \in Walkers, NEW x, x = [walk[w] EXCEPT !.stable = @ \ {i}]
            PROVE  /\ x \in WalkRecords /\ x.pc = walk[w].pc /\ x.after = walk[w].after
                   /\ x.cursor = walk[w].cursor /\ x.got = walk[w].got
                   /\ x.stable = walk[w].stable \ {i}
        BY <4>1, Zenon DEF WalkInv, Shapes, WalkRecords
      <4>2. QED
        BY <3>1, <4>1
    <3>4. Present \ {i} \subseteq Present'
      BY <3>2 DEF Present
    <3>5. \A w \in Walkers : walk'[w].stable \subseteq Present'
      BY <3>3, <3>4 DEF WalkInv, WalkTrue
    <3>6. \A j \in Ids : row'[j].present => row[j].present /\ row'[j].created_at = row[j].created_at
      BY <3>2
    <3>7. now' \in Int /\ \A j \in Ids : row'[j].created_at \in Int
                         /\ DOMAIN row'[j] = {"present", "slug", "vals", "created_at"}
      BY <2>1, <3>2 DEF WalkInv, Shapes, WalkRecords
    <3>8. QED
      BY <2>1, <3>2, <3>3, <3>5, <3>6, <3>7, WritersKeepWalks
  <2>4. QED
    BY <2>2, <2>3
<1>9. CASE Tick \/ UNCHANGED vars
  BY <1>4, <1>9 DEF Tick, vars, WalkInv, Shapes, WalkRecords
<1>10. QED
  BY <1>1, <1>2, <1>3, <1>5, <1>6, <1>7, <1>8, <1>9 DEF Next

(* The invariant of the walks holds at the start.                          *)
LEMMA WalkInitially == Init => WalkInv
<1> SUFFICES ASSUME Init PROVE WalkInv
  OBVIOUS
<1>1. /\ DOMAIN row = Ids
      /\ \A i \in Ids : /\ DOMAIN row[i] = {"present", "slug", "vals", "created_at"}
                        /\ row[i].created_at \in Int
  <2>1. ASSUME NEW i \in Ids
        PROVE  /\ DOMAIN row[i] = {"present", "slug", "vals", "created_at"}
               /\ row[i].created_at = 0
    <3>1. row[i] = NoRow \/ \E s \in Slugs : row[i] = [NoRow EXCEPT !.present = TRUE, !.slug = s]
      BY Zenon DEF Init
    <3>2. QED
      <4>1. CASE row[i] = NoRow
        <5>1. PICK v, s : v = [f \in Fields |-> Default] /\ s = ""
          OBVIOUS
        <5>2. row[i] = [present |-> FALSE, slug |-> s, vals |-> v, created_at |-> 0]
          BY <4>1, <5>1 DEF NoRow
        <5>3. QED
          BY <5>2
      <4>2. ASSUME NEW s \in Slugs, row[i] = [NoRow EXCEPT !.present = TRUE, !.slug = s]
            PROVE  /\ DOMAIN row[i] = {"present", "slug", "vals", "created_at"}
                   /\ row[i].created_at = 0
        <5>1. PICK v : v = [f \in Fields |-> Default]
          BY Zenon
        <5>2. row[i] = [present |-> TRUE, slug |-> s, vals |-> v, created_at |-> 0]
          BY <4>2, <5>1, Zenon DEF NoRow
        <5>3. QED
          BY <5>2
      <4>3. QED
        BY <3>1, <4>1, <4>2, Zenon
  <2>2. DOMAIN row = Ids
    BY Zenon DEF Init
  <2>3. QED
    BY <2>1, <2>2
<1>2. \A w \in Walkers : walk[w] = NotStarted
  BY Zenon DEF Init
<1>3. Shapes
  <2>1. NotStarted \in WalkRecords
    BY DEF NotStarted, WalkRecords
  <2>2. walk \in [Walkers -> WalkRecords]
    BY <2>1, Zenon DEF Init
  <2>3. now \in Int /\ unused \subseteq Ids /\ unused \cap Present = {}
    <3>1. unused = Ids \ Present /\ now = 0
      BY Zenon DEF Init
    <3>2. QED
      BY <3>1
  <2>4. QED
    BY <1>1, <2>2, <2>3 DEF Shapes
<1>4. Range(<< >>) = {}
  BY DEF Range
<1>5. ASSUME NEW w \in Walkers PROVE WalkTrue(w)
  BY <1>2, <1>4 DEF WalkTrue, NotStarted
<1>6. QED
  BY <1>3, <1>5 DEF WalkInv

(* A walk through the pages of the list sees every server that was there   *)
(* from its start to its end, and none twice, whatever is created, changed *)
(* or deleted meanwhile (servers.rs, the cursor of list_servers).          *)
THEOREM WalksComplete == Spec => []WalkComplete
<1>1. WalkInv => WalkComplete
  <2> SUFFICES ASSUME WalkInv, NEW w \in Walkers
               PROVE  /\ IsInjective(walk[w].got)
                      /\ walk[w].pc = "done" => walk[w].stable \subseteq Range(walk[w].got)
    BY DEF WalkComplete
  <2>1. DOMAIN walk[w].got = 1 .. Len(walk[w].got) /\ WalkTrue(w)
    BY DEF WalkInv, Shapes, WalkRecords
  <2>2. QED
    BY <2>1 DEF WalkTrue, IsInjective
<1>2. QED
  BY <1>1, WalkInitially, WalkInductive, PTL DEF Spec

-----------------------------------------------------------------------------
(* The fields of a request of a writer.                                    *)
OpFields == {"pc", "id", "set", "seen", "attempts", "overlapped", "result"}

(* An update that has read its row, and that no other has overtaken, knows *)
(* the values the row still has.                                           *)
UpdateTrue(c) ==
    /\ DOMAIN op[c] = OpFields
    /\ op[c].overlapped \in BOOLEAN
    /\ op[c].pc = "update" =>
         /\ op[c].id \in Ids \ unused
         /\ op[c].result = "none"
         /\ ~op[c].overlapped /\ row[op[c].id].present => op[c].seen = row[op[c].id].vals

(* The inductive invariant of the updates.                                 *)
UpdateInv == Shapes /\ DOMAIN op = Writers /\ \A c \in Writers : UpdateTrue(c)

(* A writer between two requests.                                          *)
LEMMA IdleIs == Idle.pc = "idle" /\ DOMAIN Idle = OpFields /\ Idle.overlapped = FALSE /\ Idle.result = "none"
  BY DEF Idle, OpFields

(* Ending a request leaves the other writers alone.                        *)
LEMMA DoneKeeps ==
    ASSUME NEW c \in Writers, NEW result, Done(c, result), DOMAIN op = Writers
    PROVE  /\ DOMAIN op' = Writers /\ op'[c].pc = "done" /\ op'[c].overlapped = FALSE
           /\ DOMAIN op'[c] = OpFields /\ op'[c].result = result
           /\ \A d \in Writers : d # c => op'[d] = op[d]
<1>1. PICK x : x = [Idle EXCEPT !.pc = "done", !.result = result]
  OBVIOUS
<1>2. op' = [op EXCEPT ![c] = x]
  BY <1>1 DEF Done
<1>3. x.pc = "done" /\ x.overlapped = FALSE /\ DOMAIN x = OpFields /\ x.result = result
  BY <1>1, IdleIs DEF OpFields
<1>4. QED
  BY <1>2, <1>3

(* Every step keeps the invariant of the updates: a write marks the updates*)
(* it overtakes.                                                           *)
LEMMA UpdateInductive == WalkInv /\ UpdateInv /\ [Next]_vars => UpdateInv'
<1> SUFFICES ASSUME WalkInv, UpdateInv, [Next]_vars PROVE UpdateInv'
  OBVIOUS
<1>s. Shapes'
  BY WalkInductive DEF WalkInv
<1>0. DOMAIN op = Writers /\ \A c \in Writers : UpdateTrue(c)
  BY DEF UpdateInv
<1>1. ASSUME UNCHANGED <<row, unused, op>> PROVE UpdateInv'
  BY <1>s, <1>0, <1>1 DEF UpdateInv, UpdateTrue
<1>2. ASSUME NEW c \in Writers, DOMAIN op' = Writers, DOMAIN op'[c] = OpFields,
             op'[c].overlapped = FALSE, op'[c].pc # "update",
             \A d \in Writers : d # c => op'[d] = op[d], UNCHANGED <<row, unused>>
      PROVE  UpdateInv'
  BY <1>s, <1>0, <1>2, Zenon DEF UpdateInv, UpdateTrue
<1>3. ASSUME NEW c \in Writers, NEW result, Done(c, result), UNCHANGED <<row, unused>>
      PROVE  UpdateInv'
  BY <1>0, <1>2, <1>3, DoneKeeps, Zenon
<1>4. ASSUME NEW c \in Writers, CreateServer(c) PROVE UpdateInv'
  <2>1. PICK v, x : /\ x = [Idle EXCEPT !.pc = "insert", !.set = v]
                    /\ op' = [op EXCEPT ![c] = x]
    BY <1>4, Zenon DEF CreateServer
  <2>2. x.pc = "insert" /\ x.overlapped = FALSE /\ DOMAIN x = OpFields
    BY <2>1, IdleIs DEF OpFields
  <2>3. UNCHANGED <<row, unused>>
    BY <1>4 DEF CreateServer
  <2>4. QED
    BY <1>0, <1>2, <2>1, <2>2, <2>3, Zenon
<1>5. ASSUME NEW c \in Writers, Insert(c) PROVE UpdateInv'
  <2>1. CASE UNCHANGED <<row, unused>>
    <3>1. CASE \E result : Done(c, result)
      BY <1>3, <2>1, <3>1
    <3>2. CASE ~\E result : Done(c, result)
      <4>1. op' = [op EXCEPT ![c].attempts = @ + 1] /\ op[c].pc = "insert"
        BY <1>5, <3>2 DEF Insert
      <4>2. /\ DOMAIN op' = Writers /\ DOMAIN op'[c] = OpFields
            /\ op'[c].overlapped = op[c].overlapped /\ op'[c].pc = "insert"
            /\ \A d \in Writers : d # c => op'[d] = op[d]
        <5>1. PICK x : x = [op[c] EXCEPT !.attempts = @ + 1]
          BY Zenon
        <5>2. op' = [op EXCEPT ![c] = x]
          BY <1>0, <4>1, <5>1
        <5>3. x.pc = "insert" /\ x.overlapped = op[c].overlapped /\ DOMAIN x = OpFields
          BY <1>0, <4>1, <5>1 DEF UpdateTrue, OpFields
        <5>4. QED
          BY <1>0, <5>2, <5>3
      <4>3. QED
        BY <1>s, <1>0, <2>1, <4>2 DEF UpdateInv, UpdateTrue
    <3>3. QED
      BY <3>1, <3>2
  <2>2. CASE ~UNCHANGED <<row, unused>>
    <3>1. PICK s \in Slugs, i \in unused :
              /\ row' = [row EXCEPT ![i] = [present |-> TRUE, slug |-> s,
                                            vals |-> op[c].set, created_at |-> now]]
              /\ unused' = unused \ {i}
      BY <1>5, <2>2 DEF Insert
    <3>2. Done(c, "201")
      BY <1>5, <2>2 DEF Insert
    <3>3. i \in Ids /\ \A j \in Ids : j # i => row'[j] = row[j]
      BY <3>1 DEF UpdateInv, Shapes
    <3>4. /\ DOMAIN op' = Writers /\ op'[c].pc = "done" /\ op'[c].overlapped = FALSE
          /\ DOMAIN op'[c] = OpFields
          /\ \A d \in Writers : d # c => op'[d] = op[d]
      BY <1>0, <3>2, DoneKeeps, Zenon
    <3>5. ASSUME NEW d \in Writers PROVE UpdateTrue(d)'
      <4>1. CASE d = c
        BY <3>4, <4>1, Zenon DEF UpdateTrue
      <4>2. CASE d # c
        <5>1. op'[d] = op[d] /\ UpdateTrue(d)
          BY <1>0, <3>4, <4>2
        <5>2. op[d].pc = "update" => op[d].id \in Ids \ unused' /\ row'[op[d].id] = row[op[d].id]
          BY <3>1, <3>3, <5>1 DEF UpdateTrue
        <5>3. QED
          BY <5>1, <5>2 DEF UpdateTrue
      <4>3. QED
        BY <4>1, <4>2
    <3>6. QED
      BY <1>s, <3>4, <3>5 DEF UpdateInv
  <2>3. QED
    BY <2>1, <2>2
<1>6. ASSUME NEW c \in Writers, UpdateSelect(c) PROVE UpdateInv'
  <2>1. UNCHANGED <<row, unused>>
    BY <1>6 DEF UpdateSelect
  <2>2. CASE \E result : Done(c, result)
    BY <1>3, <2>1, <2>2
  <2>3. CASE ~\E result : Done(c, result)
    <3>1. PICK i, p, x :
             /\ i \in Ids /\ p \in Patches /\ row[i].present
             /\ x = [Idle EXCEPT !.pc = "update", !.id = i, !.set = p, !.seen = row[i].vals]
             /\ op' = [op EXCEPT ![c] = x]
      BY <1>6, <2>3, Zenon DEF UpdateSelect
    <3>2. /\ x.pc = "update" /\ x.overlapped = FALSE /\ DOMAIN x = OpFields
          /\ x.id = i /\ x.seen = row[i].vals /\ x.result = "none"
      BY <3>1, IdleIs DEF OpFields
    <3>3. i \notin unused
      BY <3>1 DEF UpdateInv, Shapes, Present
    <3>4. /\ DOMAIN op' = Writers /\ op'[c] = x
          /\ \A d \in Writers : d # c => op'[d] = op[d]
      BY <1>0, <3>1
    <3>5. ASSUME NEW d \in Writers PROVE UpdateTrue(d)'
      <4>1. CASE d = c
        <5>1. /\ op'[d] = x /\ x.id \in Ids \ unused' /\ row'[x.id].present /\ x.seen = row'[x.id].vals
          BY <2>1, <3>1, <3>2, <3>3, <3>4, <4>1
        <5>2. QED
          BY <3>2, <5>1, Zenon DEF UpdateTrue
      <4>2. CASE d # c
        <5>1. op'[d] = op[d] /\ UpdateTrue(d)
          BY <1>0, <3>4, <4>2
        <5>2. QED
          BY <2>1, <5>1 DEF UpdateTrue
      <4>3. QED
        BY <4>1, <4>2
    <3>6. QED
      BY <1>s, <3>4, <3>5 DEF UpdateInv
  <2>4. QED
    BY <2>2, <2>3
<1>7. ASSUME NEW c \in Writers, UpdateWrite(c) PROVE UpdateInv'
  <2>1. UNCHANGED unused /\ op[c].pc = "update"
    BY <1>7 DEF UpdateWrite
  <2>2. CASE ~row[op[c].id].present
    BY <1>3, <1>7, <2>1, <2>2 DEF UpdateWrite
  <2>3. CASE row[op[c].id].present
    <3>1. /\ row' = [row EXCEPT ![op[c].id].vals = Merged(op[c].set, op[c].seen)]
          /\ op' = [d \in Writers |->
                       IF d = c THEN [Idle EXCEPT !.pc = "done", !.result = "200"]
                       ELSE [op[d] EXCEPT !.overlapped = @ \/ /\ op[d].pc = "update"
                                                              /\ op[d].id = op[c].id]]
      BY <1>7, <2>3 DEF UpdateWrite
    <3>2. \A i \in Ids : i # op[c].id => row'[i] = row[i]
      BY <3>1 DEF UpdateInv, Shapes
    <3>3. ASSUME NEW d \in Writers PROVE UpdateTrue(d)'
      <4>1. CASE d = c
        <5>1. PICK x : x = [Idle EXCEPT !.pc = "done", !.result = "200"]
          OBVIOUS
        <5>2. x.pc = "done" /\ x.overlapped = FALSE /\ DOMAIN x = OpFields
          BY <5>1, IdleIs DEF OpFields
        <5>3. op'[d] = x
          BY <3>1, <4>1, <5>1
        <5>4. QED
          BY <5>2, <5>3, Zenon DEF UpdateTrue
      <4>2. CASE d # c
        <5>1. PICK b \in BOOLEAN :
                 b = (op[d].overlapped \/ (op[d].pc = "update" /\ op[d].id = op[c].id))
          BY Zenon
        <5>2. PICK x : x = [op[d] EXCEPT !.overlapped = b]
          BY Zenon
        <5>3. op'[d] = x
          BY <3>1, <4>2, <5>1, <5>2
        <5>4. /\ DOMAIN x = OpFields /\ x.overlapped = b /\ x.pc = op[d].pc /\ x.id = op[d].id
              /\ x.result = op[d].result /\ x.seen = op[d].seen
          BY <1>0, <5>2 DEF UpdateTrue, OpFields
        <5>5. UpdateTrue(d)
          BY <1>0
        <5>6. QED
          BY <2>1, <3>2, <5>1, <5>3, <5>4, <5>5, Zenon DEF UpdateTrue
      <4>3. QED
        BY <4>1, <4>2
    <3>4. DOMAIN op' = Writers
      BY <3>1
    <3>5. QED
      BY <1>s, <3>3, <3>4 DEF UpdateInv
  <2>4. QED
    BY <2>2, <2>3
<1>8. ASSUME NEW c \in Writers, DeleteServer(c) PROVE UpdateInv'
  <2>1. UNCHANGED unused /\ \E result : Done(c, result)
    BY <1>8 DEF DeleteServer
  <2>2. CASE UNCHANGED row
    BY <1>3, <2>1, <2>2
  <2>3. CASE ~UNCHANGED row
    <3>1. PICK i \in Ids : row' = [row EXCEPT ![i] = NoRow]
      BY <1>8, <2>3 DEF DeleteServer
    <3>2. row'[i].present = FALSE /\ \A j \in Ids : j # i => row'[j] = row[j]
      BY <3>1 DEF UpdateInv, Shapes, NoRow
    <3>3. /\ DOMAIN op' = Writers /\ op'[c].pc = "done" /\ op'[c].overlapped = FALSE
          /\ DOMAIN op'[c] = OpFields
          /\ \A d \in Writers : d # c => op'[d] = op[d]
      BY <1>0, <2>1, DoneKeeps, Zenon
    <3>4. ASSUME NEW d \in Writers PROVE UpdateTrue(d)'
      <4>1. CASE d = c
        BY <3>3, <4>1, Zenon DEF UpdateTrue
      <4>2. CASE d # c
        <5>1. op'[d] = op[d] /\ UpdateTrue(d)
          BY <1>0, <3>3, <4>2
        <5>2. QED
          BY <2>1, <3>2, <5>1 DEF UpdateTrue
      <4>3. QED
        BY <4>1, <4>2
    <3>5. QED
      BY <1>s, <3>3, <3>4 DEF UpdateInv
  <2>4. QED
    BY <2>2, <2>3
<1>9. ASSUME NEW c \in Writers, Reset(c) PROVE UpdateInv'
  <2>1. op' = [op EXCEPT ![c] = Idle] /\ UNCHANGED <<row, unused>>
    BY <1>9 DEF Reset
  <2>2. QED
    BY <1>0, <1>2, <2>1, IdleIs, Zenon
<1>10. ASSUME NEW w \in Walkers, StartWalk(w) \/ CursorLookup(w) \/ Page(w) PROVE UpdateInv'
  BY <1>1, <1>10, Zenon DEF StartWalk, CursorLookup, Page
<1>11. CASE Tick \/ UNCHANGED vars
  BY <1>1, <1>11 DEF Tick, vars
<1>12. QED
  BY <1>4, <1>5, <1>6, <1>7, <1>8, <1>9, <1>10, <1>11 DEF Next

(* An update that no other write overtakes between its read and its write  *)
(* changes no field it does not name (servers.rs, update_server).          *)
THEOREM OmittedFieldsKeptAlone == Spec => OmittedKeptUnlessOverlapped
<1>1. Init => WalkInv /\ UpdateInv
  <2> SUFFICES ASSUME Init PROVE UpdateInv
    BY WalkInitially
  <2>1. Shapes
    BY WalkInitially DEF WalkInv
  <2>2. op = [c \in Writers |-> Idle]
    BY Zenon DEF Init
  <2>3. QED
    BY <2>1, <2>2, IdleIs, Zenon DEF UpdateInv, UpdateTrue
<1>2. UpdateInv /\ [Next]_vars =>
        [\A c \in Writers :
          op[c].pc = "update" /\ op'[c].result = "200" /\ ~op[c].overlapped =>
              \A f \in Fields \ DOMAIN op[c].set :
                  row'[op[c].id].vals[f] = row[op[c].id].vals[f]]_vars
  <2> SUFFICES ASSUME UpdateInv, Next, NEW c \in Writers, op[c].pc = "update",
                      op'[c].result = "200", ~op[c].overlapped,
                      NEW f \in Fields \ DOMAIN op[c].set
               PROVE  row'[op[c].id].vals[f] = row[op[c].id].vals[f]
    OBVIOUS
  <2>0. UpdateTrue(c) /\ DOMAIN op = Writers
    BY DEF UpdateInv
  <2>1. ASSUME op'[c] = op[c] PROVE FALSE
    BY <2>0, <2>1 DEF UpdateTrue
  <2>2. ASSUME NEW d \in Writers, NEW x, op' = [op EXCEPT ![d] = x], op[d].pc # "update" PROVE FALSE
    BY <2>0, <2>1, <2>2
  <2>3. ASSUME NEW d \in Writers, CreateServer(d) \/ UpdateSelect(d) \/ DeleteServer(d) \/ Reset(d)
        PROVE  FALSE
    BY <2>2, <2>3, Zenon DEF CreateServer, UpdateSelect, DeleteServer, Reset, Done
  <2>4. ASSUME NEW d \in Writers, Insert(d) PROVE FALSE
    <3>1. op[d].pc = "insert" /\ \E x : op' = [op EXCEPT ![d] = x]
      BY <2>0, <2>4 DEF Insert, Done
    <3>2. QED
      BY <2>2, <3>1, Zenon
  <2>5. ASSUME NEW w \in Walkers, StartWalk(w) \/ CursorLookup(w) \/ Page(w) PROVE FALSE
    BY <2>1, <2>5, Zenon DEF StartWalk, CursorLookup, Page
  <2>6. ASSUME Tick PROVE FALSE
    BY <2>1, <2>6 DEF Tick
  <2>7. ASSUME NEW d \in Writers, UpdateWrite(d), d # c PROVE FALSE
    <3>1. CASE row[op[d].id].present
      <4>1. op'[c] = [op[c] EXCEPT !.overlapped = @ \/ /\ op[c].pc = "update"
                                                       /\ op[c].id = op[d].id]
        BY <2>7, <3>1 DEF UpdateWrite
      <4>2. op'[c].result = op[c].result
        BY <2>0, <4>1 DEF UpdateTrue, OpFields
      <4>3. QED
        BY <2>0, <4>2 DEF UpdateTrue
    <3>2. CASE ~row[op[d].id].present
      BY <2>0, <2>1, <2>7, <3>2 DEF UpdateWrite, Done
    <3>3. QED
      BY <3>1, <3>2
  <2>8. ASSUME UpdateWrite(c) PROVE row'[op[c].id].vals[f] = row[op[c].id].vals[f]
    <3>1. CASE row[op[c].id].present
      <4>1. row' = [row EXCEPT ![op[c].id].vals = Merged(op[c].set, op[c].seen)]
        BY <2>8, <3>1 DEF UpdateWrite
      <4>2. op[c].id \in Ids /\ op[c].seen = row[op[c].id].vals
        BY <2>0, <3>1 DEF UpdateTrue
      <4>3. row'[op[c].id].vals = Merged(op[c].set, op[c].seen)
        BY <4>1, <4>2 DEF UpdateInv, Shapes
      <4>4. Merged(op[c].set, op[c].seen)[f] = op[c].seen[f]
        BY DEF Merged
      <4>5. QED
        BY <4>2, <4>3, <4>4
    <3>2. CASE ~row[op[c].id].present
      BY <2>0, <2>8, <3>2, DoneKeeps DEF UpdateWrite
    <3>3. QED
      BY <3>1, <3>2
  <2>9. QED
    BY <2>3, <2>4, <2>5, <2>6, <2>7, <2>8 DEF Next
<1>3. QED
  BY <1>1, <1>2, WalkInductive, UpdateInductive, PTL DEF Spec, OmittedKeptUnlessOverlapped

-----------------------------------------------------------------------------
(* The keys that tokens are verified with                                  *)

CONSTANTS JWKS_TTL, Kids, Requests
VARIABLES cache, kid, known, overtaken, pc, published, response, retired
Jwks == INSTANCE JwksCache

(***************************************************************************)
(* The part of TypeOK that says which functions the per-request variables  *)
(* are; the cache's age plays no part in the argument.                     *)
(***************************************************************************)
PerRequest ==
    /\ pc \in [Requests -> {"new", "lookup", "fetch", "write", "reread", "decode"}
                              \cup Jwks!Results]
    /\ kid \in [Requests -> Kids]
    /\ response \in [Requests -> SUBSET Kids]
    /\ known \in [Requests -> BOOLEAN]
    /\ overtaken \in [Requests -> BOOLEAN]
    /\ published \in SUBSET Kids

(***************************************************************************)
(* Why a refusal needs an overtaker: a key published since the request     *)
(* arrived is published now, is in the response the request fetched, and   *)
(* is in the cache from its own write until another request's.             *)
(***************************************************************************)
KeyTraced ==
    \A r \in Requests : known[r] =>
        /\ kid[r] \in published
        /\ pc[r] = "write" => kid[r] \in response[r]
        /\ pc[r] = "reread" /\ ~overtaken[r] => kid[r] \in cache.keys
        /\ pc[r] = "refused" => overtaken[r]

(* The inductive invariant of the key cache.                               *)
KeysInv == PerRequest /\ KeyTraced

(* The invariant holds at the start, when the cache is empty.              *)
LEMMA KeysInitially == Jwks!Init => KeysInv
  BY DEF Jwks!Init, KeysInv, PerRequest, KeyTraced, Jwks!Results

(***************************************************************************)
(* Every step of the requests, of the key endpoint and of the clock keeps  *)
(* IInv.                                                                   *)
(***************************************************************************)
LEMMA KeysInductive == KeysInv /\ [Jwks!Next]_(Jwks!vars) => KeysInv'
<1> SUFFICES ASSUME KeysInv, [Jwks!Next]_(Jwks!vars) PROVE KeysInv'
  OBVIOUS
<1> USE DEF KeysInv, PerRequest, KeyTraced, Jwks!Results, Jwks!Goto
<1>1. ASSUME NEW r \in Requests, Jwks!Arrive(r) PROVE KeysInv'
  <2>1. known' \in [Requests -> BOOLEAN]
    <3>1. (kid[r] \in published) \in BOOLEAN
      OBVIOUS
    <3>2. known' = known \/ known' = [known EXCEPT ![r] = kid[r] \in published]
      BY <1>1, Zenon DEF Jwks!Arrive
    <3>3. QED
      BY <3>1, <3>2, Zenon
  <2>2. /\ known'[r] => known[r] \/ kid[r] \in published
        /\ \A q \in Requests \ {r} : known'[q] = known[q]
    BY <1>1, Zenon DEF Jwks!Arrive
  <2>3. /\ pc' \in [Requests -> {"new", "lookup", "fetch", "write", "reread", "decode"}
                                  \cup Jwks!Results]
        /\ pc'[r] \in {"lookup", "invalid"}
        /\ \A q \in Requests \ {r} : pc'[q] = pc[q]
        /\ UNCHANGED <<published, cache, kid, response, overtaken>>
    BY <1>1 DEF Jwks!Arrive
  <2>4. QED
    BY <2>1, <2>2, <2>3
<1>2. ASSUME NEW r \in Requests, Jwks!Lookup(r) PROVE KeysInv'
  BY <1>2 DEF Jwks!Lookup
<1>3. ASSUME NEW r \in Requests, Jwks!Fetched(r) PROVE KeysInv'
  BY <1>3 DEF Jwks!Fetched
<1>4. ASSUME NEW r \in Requests, Jwks!FetchFails(r) PROVE KeysInv'
  BY <1>4 DEF Jwks!FetchFails
<1>5. ASSUME NEW r \in Requests, Jwks!Install(r) PROVE KeysInv'
  BY <1>5 DEF Jwks!Install
<1>6. ASSUME NEW r \in Requests, Jwks!Reread(r) PROVE KeysInv'
  BY <1>6 DEF Jwks!Reread
<1>7. ASSUME NEW r \in Requests, Jwks!Decode(r) PROVE KeysInv'
  BY <1>7 DEF Jwks!Decode
<1>8. ASSUME NEW r \in Requests, Jwks!NextRequest(r) PROVE KeysInv'
  BY <1>8 DEF Jwks!NextRequest
<1>9. CASE Jwks!Publish
  BY <1>9 DEF Jwks!Publish
<1>10. CASE Jwks!Retire
  BY <1>10 DEF Jwks!Retire
<1>11. CASE Jwks!Tick
  BY <1>11 DEF Jwks!Tick
<1>12. CASE UNCHANGED Jwks!vars
  BY <1>12 DEF Jwks!vars
<1>13. QED
  BY <1>1, <1>2, <1>3, <1>4, <1>5, <1>6, <1>7, <1>8, <1>9, <1>10, <1>11, <1>12
     DEF Jwks!Next, Jwks!GetKey

(***************************************************************************)
(* A request whose key has been published since it arrived is refused only *)
(* if another response was installed between its own write and its         *)
(* re-read: get_key's forced refresh covers every other interleaving of    *)
(* requests and rotations.                                                 *)
(***************************************************************************)
THEOREM RefusalNeedsOvertaking == Jwks!Spec => []Jwks!RefusedOnlyIfOvertaken
<1>1. KeysInv => Jwks!RefusedOnlyIfOvertaken
  BY DEF KeysInv, KeyTraced, Jwks!RefusedOnlyIfOvertaken
<1>2. QED
  BY KeysInitially, KeysInductive, <1>1, PTL DEF Jwks!Spec

(***************************************************************************)
(* The state keeps its type; the cached set's age stops at its lifetime.   *)
(***************************************************************************)
THEOREM KeysTypeCorrect ==
  ASSUME JWKS_TTL \in Nat
  PROVE  Jwks!Spec => []Jwks!TypeOK
<1>1. Jwks!Init => KeysInv /\ Jwks!TypeOK
  BY KeysInitially, SMT DEF Jwks!Init, Jwks!TypeOK, Jwks!Cache, KeysInv, PerRequest
<1>2. KeysInv /\ Jwks!TypeOK /\ [Jwks!Next]_(Jwks!vars) => Jwks!TypeOK'
  <2> SUFFICES ASSUME KeysInv, Jwks!TypeOK, [Jwks!Next]_(Jwks!vars)
               PROVE  Jwks!TypeOK'
    OBVIOUS
  <2>1. PerRequest'
    BY KeysInductive DEF KeysInv
  <2>2. retired' \in SUBSET Kids
    BY DEF Jwks!TypeOK, Jwks!Next, Jwks!vars, Jwks!GetKey, Jwks!Arrive, Jwks!Lookup, Jwks!Fetched, Jwks!FetchFails, Jwks!Install,
           Jwks!Reread, Jwks!Decode, Jwks!NextRequest, Jwks!Publish, Jwks!Retire, Jwks!Tick
  <2>3. cache' \in Jwks!Cache
    <3>1. ASSUME NEW r \in Requests, Jwks!Install(r) PROVE cache' \in Jwks!Cache
      BY <3>1, SMT DEF Jwks!TypeOK, Jwks!Install, Jwks!Cache
    <3>2. CASE Jwks!Tick
      BY <3>2, SMT DEF Jwks!TypeOK, Jwks!Tick, Jwks!Fresh, Jwks!Cache
    <3>3. CASE UNCHANGED cache
      BY <3>3 DEF Jwks!TypeOK
    <3>4. QED
      BY <3>1, <3>2, <3>3 DEF Jwks!Next, Jwks!vars, Jwks!GetKey, Jwks!Arrive, Jwks!Lookup, Jwks!Fetched, Jwks!FetchFails,
         Jwks!Reread, Jwks!Decode, Jwks!NextRequest, Jwks!Publish, Jwks!Retire
  <2>4. QED
    BY <2>1, <2>2, <2>3 DEF Jwks!TypeOK, PerRequest
<1>3. QED
  BY <1>1, <1>2, KeysInductive, PTL DEF Jwks!Spec

-----------------------------------------------------------------------------
(* The users                                                               *)

CONSTANTS Accounts, Emails, MAX_CHANGES, MAX_TOKENS, PARTIAL
VARIABLES account, applied, events, late, seq, tokens, users
Users == INSTANCE UserSync

(* The changes of accounts that Clerk reports.                             *)
Changes == [clerk_id : Accounts, email : Emails \cup {Users!None, Users!Gone}, seq : Nat]

(* What the proofs need of the type invariant.                             *)
UsersShapes ==
    /\ account \in [Accounts -> Emails \cup {Users!Gone}]
    /\ seq \in [Accounts -> Nat]
    /\ events \subseteq Changes
    /\ tokens \subseteq Changes
    /\ users \in [Accounts -> Emails \cup {Users!None, Users!Gone}]
    /\ applied \in [Accounts -> Nat]

(***************************************************************************)
(* No event or token is ahead of Clerk, and one that carries the newest    *)
(* change carries the account's present email.                             *)
(***************************************************************************)
NoneAhead ==
    \A c \in events \cup tokens :
        /\ c.seq <= seq[c.clerk_id]
        /\ c.seq = seq[c.clerk_id] => c.email = account[c.clerk_id]

(* The newest change of account a.                                         *)
Newest(a) == [clerk_id |-> a, email |-> account[a], seq |-> seq[a]]

(***************************************************************************)
(* While nothing was late for an account, its newest change is either in   *)
(* its row or still pending.                                               *)
(***************************************************************************)
NewestTraced ==
    \A a \in Accounts :
        /\ applied[a] <= seq[a]
        /\ a \notin late /\ applied[a] = seq[a] => users[a] = account[a]
        /\ a \notin late /\ applied[a] # seq[a] => Newest(a) \in events

(* The inductive invariant of the user table.                              *)
UsersInv == UsersShapes /\ NoneAhead /\ NewestTraced

(* The invariant holds at the start, before any account exists.            *)
LEMMA UsersInitially == Users!Init => UsersInv
  BY DEF Users!Init, UsersInv, UsersShapes, NoneAhead, NewestTraced

(***************************************************************************)
(* Writing a change that is not ahead of Clerk into its row keeps the      *)
(* invariant, whether its event stays pending or is acknowledged.          *)
(***************************************************************************)
LEMMA ApplyKeeps ==
  ASSUME UsersInv, NEW c \in events \cup tokens,
         users' = [users EXCEPT ![c.clerk_id] = c.email],
         Users!History(c),
         UNCHANGED <<account, seq, tokens>>,
         events' = events \/ events' = events \ {c}
  PROVE  UsersInv'
<1> USE DEF UsersInv, UsersShapes
<1> DEFINE b == c.clerk_id
<1>1. b \in Accounts /\ c.email \in Emails \cup {Users!None, Users!Gone} /\ c.seq \in Nat
  BY DEF Changes
<1>2. c.seq <= seq[b] /\ (c.seq = seq[b] => c.email = account[b])
  BY DEF NoneAhead
<1>3. /\ applied' = [applied EXCEPT ![b] = IF c.seq > applied[b] THEN c.seq ELSE applied[b]]
      /\ late \subseteq late'
      /\ c.seq < applied[b] => b \in late'
  BY DEF Users!History
<1>4. UsersShapes'
  BY <1>1, <1>3
<1>5. NoneAhead'
  BY DEF NoneAhead
<1>6. ASSUME NEW a \in Accounts, a # b
      PROVE  /\ applied'[a] <= seq'[a]
             /\ a \notin late' /\ applied'[a] = seq'[a] => users'[a] = account'[a]
             /\ a \notin late' /\ applied'[a] # seq'[a] => Newest(a)' \in events'
  <2>1. applied'[a] = applied[a] /\ users'[a] = users[a]
    BY <1>1, <1>3, <1>6
  <2>2. Newest(a)' = Newest(a) /\ Newest(a).clerk_id = a
    BY DEF Newest
  <2>3. Newest(a) # c
    BY <1>6, <2>2
  <2>4. QED
    BY <1>3, <2>1, <2>2, <2>3 DEF NewestTraced
<1>7. /\ applied'[b] <= seq'[b]
      /\ b \notin late' /\ applied'[b] = seq'[b] => users'[b] = account'[b]
      /\ b \notin late' /\ applied'[b] # seq'[b] => Newest(b)' \in events'
  <2>1. applied[b] \in Nat /\ seq[b] \in Nat /\ applied[b] <= seq[b]
    BY <1>1 DEF NewestTraced
  <2>2. applied'[b] = IF c.seq > applied[b] THEN c.seq ELSE applied[b]
    BY <1>1, <1>3
  <2>3. users'[b] = c.email
    BY <1>1
  <2>4. b \notin late' => applied'[b] = c.seq /\ b \notin late /\ applied[b] <= c.seq
    BY <1>1, <1>3, <2>1, <2>2
  <2>5. Newest(b)' = Newest(b) /\ Newest(b).seq = seq[b]
    BY DEF Newest
  <2>6. b \notin late' /\ applied'[b] # seq'[b] => Newest(b) \in events /\ Newest(b) # c
    <3> SUFFICES ASSUME b \notin late', applied'[b] # seq'[b]
                 PROVE  Newest(b) \in events /\ Newest(b) # c
      OBVIOUS
    <3>1. c.seq # seq[b]
      BY <2>4
    <3>2. applied[b] # seq[b]
      BY <1>1, <1>2, <2>1, <2>4, <3>1
    <3>3. QED
      BY <1>1, <2>4, <2>5, <3>1, <3>2 DEF NewestTraced
  <2>7. QED
    BY <1>1, <1>2, <2>1, <2>2, <2>3, <2>4, <2>5, <2>6
<1>8. NewestTraced'
  BY <1>6, <1>7 DEF NewestTraced
<1>9. QED
  BY <1>4, <1>5, <1>8

(***************************************************************************)
(* A change at Clerk comes with its event, which is then the newest.       *)
(***************************************************************************)
LEMMA ClerkKeeps ==
  ASSUME ~PARTIAL, UsersInv, NEW a \in Accounts, Users!ClerkChanges(a)
  PROVE  UsersInv'
<1> USE DEF UsersInv, UsersShapes
<1>1. PICK e \in Emails \cup {Users!Gone} :
        /\ account' = [account EXCEPT ![a] = e]
        /\ seq' = [seq EXCEPT ![a] = @ + 1]
        /\ events' = events \cup {[clerk_id |-> a, email |-> e, seq |-> seq'[a]]}
        /\ UNCHANGED <<tokens, users, applied, late>>
  BY DEF Users!ClerkChanges
<1>2. /\ seq'[a] = seq[a] + 1 /\ account'[a] = e
      /\ \A d \in Accounts : d # a => seq'[d] = seq[d] /\ account'[d] = account[d]
  BY <1>1
<1>3. [clerk_id |-> a, email |-> e, seq |-> seq'[a]] \in Changes
  BY <1>1, <1>2 DEF Changes
<1>4. UsersShapes'
  BY <1>1, <1>3
<1>5. NoneAhead'
  <2> SUFFICES ASSUME NEW c \in events' \cup tokens'
               PROVE  /\ c.seq <= seq'[c.clerk_id]
                      /\ c.seq = seq'[c.clerk_id] => c.email = account'[c.clerk_id]
    BY DEF NoneAhead
  <2>1. CASE c \in events \cup tokens
    <3>1. /\ c.clerk_id \in Accounts /\ c.seq \in Nat
          /\ c.seq <= seq[c.clerk_id]
          /\ c.seq = seq[c.clerk_id] => c.email = account[c.clerk_id]
      BY <2>1 DEF NoneAhead, Changes
    <3>2. QED
      BY <1>2, <3>1
  <2>2. CASE c = [clerk_id |-> a, email |-> e, seq |-> seq'[a]]
    BY <1>2, <1>4, <2>2
  <2>3. QED
    BY <1>1, <2>1, <2>2
<1>6. NewestTraced'
  <2>1. ASSUME NEW d \in Accounts, d # a
        PROVE  Newest(d)' = Newest(d)
    BY <1>2, <2>1 DEF Newest
  <2>2. Newest(a)' \in events'
    BY <1>1, <1>2 DEF Newest
  <2>3. applied'[a] <= seq'[a] /\ applied'[a] # seq'[a]
    BY <1>1, <1>2 DEF NewestTraced
  <2>4. QED
    BY <1>1, <1>2, <2>1, <2>2, <2>3 DEF NewestTraced
<1>7. QED
  BY <1>4, <1>5, <1>6

(***************************************************************************)
(* Every step of Clerk, its deliveries and the platform API keeps it.      *)
(***************************************************************************)
LEMMA UsersInductive ==
  ASSUME ~PARTIAL
  PROVE  UsersInv /\ [Users!Next]_(Users!vars) => UsersInv'
<1> SUFFICES ASSUME UsersInv, [Users!Next]_(Users!vars) PROVE UsersInv'
  OBVIOUS
<1>1. ASSUME NEW a \in Accounts, Users!ClerkChanges(a) PROVE UsersInv'
  BY <1>1, ClerkKeeps
<1>2. ASSUME NEW a \in Accounts, Users!IssueToken(a) PROVE UsersInv'
  <2>1. [clerk_id |-> a, email |-> account[a], seq |-> seq[a]] \in Changes
    BY DEF UsersInv, UsersShapes, Changes
  <2>2. QED
    BY <1>2, <2>1 DEF Users!IssueToken, UsersInv, UsersShapes, NoneAhead, NewestTraced, Newest
<1>3. ASSUME NEW t \in tokens, Users!TokenExpires(t) PROVE UsersInv'
  BY <1>3 DEF Users!TokenExpires, UsersInv, UsersShapes, NoneAhead, NewestTraced, Newest
<1>4. ASSUME NEW t \in tokens, Users!Authenticate(t) PROVE UsersInv'
  BY <1>4, ApplyKeeps DEF Users!Authenticate, Users!UpsertUser
<1>5. ASSUME NEW ev \in events, Users!Webhook(ev) \/ Users!WebhookUnacknowledged(ev) PROVE UsersInv'
  <2>1. /\ users' = [users EXCEPT ![ev.clerk_id] = ev.email]
        /\ Users!History(ev)
        /\ UNCHANGED <<account, seq, tokens>>
        /\ events' = events \/ events' = events \ {ev}
    BY <1>5 DEF Users!Webhook, Users!WebhookUnacknowledged, Users!HandleUserUpsert, Users!HandleUserDelete,
                Users!UpsertUser
  <2>2. QED
    BY <2>1, ApplyKeeps
<1>6. ASSUME NEW ev \in events, Users!GiveUp(ev) PROVE UsersInv'
  <2>1. /\ events' = events \ {ev} /\ late' = late \cup {ev.clerk_id}
        /\ UNCHANGED <<account, seq, tokens, users, applied>>
    BY <1>6 DEF Users!GiveUp
  <2>2. \A a \in Accounts : a \notin late' => Newest(a) # ev
    BY <2>1 DEF Newest
  <2>3. UsersShapes'
    BY <2>1 DEF UsersInv, UsersShapes
  <2>4. NoneAhead'
    BY <2>1 DEF UsersInv, NoneAhead
  <2>5. NewestTraced'
    BY <2>1, <2>2 DEF UsersInv, NewestTraced, Newest
  <2>6. QED
    BY <2>3, <2>4, <2>5 DEF UsersInv
<1>7. CASE UNCHANGED Users!vars
  BY <1>7 DEF Users!vars, UsersInv, UsersShapes, NoneAhead, NewestTraced, Newest
<1>8. QED
  BY <1>1, <1>2, <1>3, <1>4, <1>5, <1>6, <1>7 DEF Users!Next

(***************************************************************************)
(* With no event of an account pending, its row agrees with Clerk unless a *)
(* change came late or was given up: the two unconditional upserts and the *)
(* delete lose nothing else, in whatever order they interleave.            *)
(***************************************************************************)
THEOREM RowsFollowClerk ==
  ASSUME ~PARTIAL
  PROVE  Users!Spec => []Users!DivergesOnlyIfLate
<1>1. UsersInv => Users!DivergesOnlyIfLate
  <2> SUFFICES ASSUME UsersInv, NEW a \in Accounts, a \notin late,
                      \A ev \in events : ev.clerk_id # a
               PROVE  users[a] = account[a]
    BY DEF Users!DivergesOnlyIfLate
  <2>1. Newest(a) \notin events
    BY DEF Newest
  <2>2. QED
    BY <2>1 DEF UsersInv, NewestTraced
<1>2. QED
  BY UsersInitially, UsersInductive, <1>1, PTL DEF Users!Spec

(***************************************************************************)
(* The state keeps its type, the bound on Clerk's changes included.        *)
(***************************************************************************)
THEOREM UsersTypeCorrect ==
  ASSUME MAX_CHANGES \in Nat
  PROVE  Users!Spec => []Users!TypeOK
<1> USE DEF Users!TypeOK, Users!Change
<1>1. Users!Init => Users!TypeOK
  BY SMT DEF Users!Init
<1>2. Users!TypeOK /\ [Users!Next]_(Users!vars) => Users!TypeOK'
  <2> SUFFICES ASSUME Users!TypeOK, [Users!Next]_(Users!vars) PROVE Users!TypeOK'
    OBVIOUS
  <2>1. ASSUME NEW a \in Accounts, Users!ClerkChanges(a) PROVE Users!TypeOK'
    BY <2>1 DEF Users!ClerkChanges
  <2>2. ASSUME NEW a \in Accounts, Users!IssueToken(a) PROVE Users!TypeOK'
    BY <2>2 DEF Users!IssueToken
  <2>3. ASSUME NEW t \in tokens, Users!TokenExpires(t) \/ Users!Authenticate(t) PROVE Users!TypeOK'
    BY <2>3 DEF Users!TokenExpires, Users!Authenticate, Users!UpsertUser, Users!History
  <2>4. ASSUME NEW ev \in events, Users!Webhook(ev) \/ Users!WebhookUnacknowledged(ev) PROVE Users!TypeOK'
    BY <2>4 DEF Users!Webhook, Users!WebhookUnacknowledged, Users!HandleUserUpsert, Users!HandleUserDelete,
                Users!UpsertUser, Users!History
  <2>5. ASSUME NEW ev \in events, Users!GiveUp(ev) PROVE Users!TypeOK'
    BY <2>5 DEF Users!GiveUp
  <2>6. CASE UNCHANGED Users!vars
    BY <2>6 DEF Users!vars
  <2>7. QED
    BY <2>1, <2>2, <2>3, <2>4, <2>5, <2>6 DEF Users!Next
<1>3. QED
  BY <1>1, <1>2, PTL DEF Users!Spec

-----------------------------------------------------------------------------
(* The life of the server                                                  *)

CONSTANTS FLUSH_TIMEOUT, REQUEST_TIMEOUT, SERVE_TIMEOUT
VARIABLES age, clock, forced, phase, queued, req, signalled, stored, timedOut
Life == INSTANCE ApiLifecycle

(* The requests that were answered.                                        *)
Finished == {r \in Requests : req[r] = "done"}

(***************************************************************************)
(* Where the audit event of a finished request is: stored or queued until  *)
(* the flush is over, and then stored, unless the server timeout left the  *)
(* request running.  After the server phase only such requests run.        *)
(***************************************************************************)
EventsTraced ==
    /\ req \in [Requests -> {"new", "running", "done", "aborted"}]
    /\ phase \in Life!Serving \cup {"flushing", "closing", "exited"}
    /\ phase \notin Life!Serving => Life!Running \subseteq forced
    /\ phase \in Life!Serving \cup {"flushing"} => Finished \subseteq stored \cup queued
    /\ phase \in {"closing", "exited"} /\ ~timedOut => Finished \subseteq stored \cup forced

(* The invariant holds when the server starts.                             *)
LEMMA LifeInitially == Life!Init => EventsTraced
  BY DEF Life!Init, EventsTraced, Finished, Life!Running, Life!Serving

(***************************************************************************)
(* Every step of the handlers, of main and of the timers keeps it.         *)
(***************************************************************************)
LEMMA LifeInductive == EventsTraced /\ [Life!Next]_(Life!vars) => EventsTraced'
<1> SUFFICES ASSUME EventsTraced, [Life!Next]_(Life!vars) PROVE EventsTraced'
  OBVIOUS
<1> USE DEF EventsTraced, Finished, Life!Running, Life!Serving
<1>1. ASSUME NEW r \in Requests, Life!Accept(r) PROVE EventsTraced'
  BY <1>1 DEF Life!Accept
<1>2. ASSUME NEW r \in Requests, Life!Finish(r) PROVE EventsTraced'
  BY <1>2 DEF Life!Finish
<1>3. ASSUME NEW r \in Requests, Life!RequestTimesOut(r) PROVE EventsTraced'
  BY <1>3 DEF Life!RequestTimesOut
<1>4. CASE Life!Store
  BY <1>4 DEF Life!Store
<1>5. CASE Life!Signal
  BY <1>5 DEF Life!Signal
<1>6. CASE Life!Drained
  <2>1. \A r \in Requests : req[r] # "running"
    BY <1>6 DEF Life!Drained
  <2>2. phase = "draining" /\ phase' = "flushing"
          /\ UNCHANGED <<req, queued, stored, timedOut, forced>>
    BY <1>6 DEF Life!Drained
  <2>3. QED
    BY <2>1, <2>2
<1>7. CASE Life!ServeTimesOut
  BY <1>7 DEF Life!ServeTimesOut
<1>8. CASE Life!Flushed
  BY <1>8 DEF Life!Flushed
<1>9. CASE Life!FlushTimesOut
  BY <1>9 DEF Life!FlushTimesOut
<1>10. CASE Life!PoolClosed
  BY <1>10 DEF Life!PoolClosed
<1>11. CASE Life!Tick
  BY <1>11 DEF Life!Tick
<1>12. CASE UNCHANGED Life!vars
  BY <1>12 DEF Life!vars
<1>13. QED
  BY <1>1, <1>2, <1>3, <1>4, <1>5, <1>6, <1>7, <1>8, <1>9, <1>10, <1>11, <1>12 DEF Life!Next

(***************************************************************************)
(* An audit event is missing from the database after exit only if the      *)
(* flush timed out or its request was still running when the server        *)
(* timeout fired: main() flushes after the server future, never before.    *)
(***************************************************************************)
THEOREM EventsSurvive == Life!Spec => []Life!EventLostOnlyIfForced
<1>1. EventsTraced => Life!EventLostOnlyIfForced
  BY DEF EventsTraced, Life!EventLostOnlyIfForced, Finished
<1>2. QED
  BY LifeInitially, LifeInductive, <1>1, PTL DEF Life!Spec

(***************************************************************************)
(* The state keeps its type; no clock passes its timeout.                  *)
(***************************************************************************)
THEOREM LifeTypeCorrect ==
  ASSUME SERVE_TIMEOUT \in Nat \ {0}, REQUEST_TIMEOUT \in Nat \ {0},
         FLUSH_TIMEOUT \in 1 .. SERVE_TIMEOUT
  PROVE  Life!Spec => []Life!TypeOK
<1> DEFINE Inv == Life!TypeOK /\ (phase = "flushing" => clock <= FLUSH_TIMEOUT)
<1> USE DEF Life!TypeOK, Life!Serving, Life!Running
<1>1. Life!Init => Inv
  <2> SUFFICES ASSUME Life!Init PROVE Inv
    OBVIOUS
  <2>1. signalled \in BOOLEAN /\ timedOut \in BOOLEAN
    BY Zenon DEF Life!Init
  <2>2. QED
    BY <2>1, SMT DEF Life!Init
<1>2. Inv /\ [Life!Next]_(Life!vars) => Inv'
  <2> SUFFICES ASSUME Inv, [Life!Next]_(Life!vars) PROVE Inv'
    OBVIOUS
  <2>1. ASSUME NEW r \in Requests, Life!Accept(r) \/ Life!Finish(r) \/ Life!RequestTimesOut(r)
        PROVE  Inv'
    BY <2>1 DEF Life!Accept, Life!Finish, Life!RequestTimesOut
  <2>2. CASE Life!Store \/ Life!Drained \/ Life!Flushed
    BY <2>2 DEF Life!Store, Life!Drained, Life!Flushed
  <2>3. CASE Life!Signal
    <3>1. signalled' \in BOOLEAN
      BY <2>3, Zenon DEF Life!Signal
    <3>2. QED
      BY <2>3, <3>1 DEF Life!Signal
  <2>4. CASE Life!ServeTimesOut \/ Life!PoolClosed
    BY <2>4 DEF Life!ServeTimesOut, Life!PoolClosed
  <2>5. CASE Life!FlushTimesOut
    <3>1. timedOut' \in BOOLEAN
      BY <2>5, Zenon DEF Life!FlushTimesOut
    <3>2. QED
      BY <2>5, <3>1 DEF Life!FlushTimesOut
  <2>6. CASE Life!Tick
    <3>1. clock' \in 0 .. SERVE_TIMEOUT /\ (phase' = "flushing" => clock' <= FLUSH_TIMEOUT)
      BY <2>6 DEF Life!Tick, Life!Deadline
    <3>2. age' \in [Requests -> 0 .. REQUEST_TIMEOUT]
      BY <2>6 DEF Life!Tick, Life!Deadline
    <3>3. QED
      BY <2>6, <3>1, <3>2 DEF Life!Tick
  <2>7. CASE UNCHANGED Life!vars
    BY <2>7 DEF Life!vars
  <2>8. QED
    BY <2>1, <2>2, <2>3, <2>4, <2>5, <2>6, <2>7 DEF Life!Next
<1>3. QED
  <2>1. Inv => Life!TypeOK
    OBVIOUS
  <2>2. QED
    BY <1>1, <1>2, <2>1, PTL DEF Life!Spec
=============================================================================
