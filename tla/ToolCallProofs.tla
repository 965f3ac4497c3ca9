--------------------------- MODULE ToolCallProofs ---------------------------
(***************************************************************************)
(* Proofs about UpstreamRequest for any tools and arguments, and that the  *)
(* stages of ToolCall compose: a behaviour of a tool call is one of each of*)
(* its stages, so what is proved of CredentialInjection and of             *)
(* ResponseTransform holds of a tool call.  The loops of upstream.rs are   *)
(* recursive functions here; what they compute is proved by looking at the *)
(* first iteration that goes wrong.                                        *)
(***************************************************************************)
EXTENDS UpstreamRequest, WellFoundedInduction, TLAPS

---------------------------------------------------------------------------
(* Joining sequences: FlattenSeq *)

(* A non-empty set of naturals has a least element: every argument below   *)
(* on the loops of upstream.rs looks at the first iteration that goes      *)
(* wrong.                                                                  *)
LEMMA LeastNat ==
    ASSUME NEW T \in SUBSET Nat, T # {}
    PROVE  \E x \in T : \A y \in T : x <= y
<1>1. PICK x \in T : \A y \in T : ~(<<y, x>> \in OpToRel(<, Nat))
  BY NatLessThanWellFounded, WFMin
<1>2. \A y \in T : y \in Nat /\ ~(y < x)
  BY <1>1, Zenon DEF OpToRel
<1>3. QED
  BY <1>2

(* A set of naturals that has 0 and, up to n, with i - 1 also i, has all   *)
(* up to n: the form in which the lemmas below use it.                     *)
LEMMA UpTo ==
    ASSUME NEW n \in Nat, NEW P, 0 \in P, \A i \in 1 .. n : i - 1 \in P => i \in P
    PROVE  \A i \in 0 .. n : i \in P
<1> SUFFICES ASSUME NEW j \in 0 .. n, j \notin P PROVE FALSE
  OBVIOUS
<1> DEFINE T == {i \in 0 .. n : i \notin P}
<1>1. T \in SUBSET Nat /\ T # {}
  OBVIOUS
<1>2. PICK x \in T : \A y \in T : x <= y
  BY <1>1, LeastNat, Zenon
<1>3. x \in 1 .. n /\ x \notin P
  BY <1>2
<1>4. x - 1 \in P
  BY <1>2, <1>3
<1>5. QED
  BY <1>3, <1>4

(* f[i] is what the first i of the sequences ss make when joined.          *)
Joins(f, ss) == f[0] = <<>> /\ \A i \in 1 .. Len(ss) : f[i] = f[i - 1] \o ss[i]

(* Joining sequences one after the other, as a loop of push_str does, is   *)
(* possible.                                                               *)
LEMMA JoinsExists ==
    ASSUME NEW S, NEW ss \in Seq(Seq(S))
    PROVE  \E f : Joins(f, ss) /\ \A i \in 0 .. Len(ss) : f[i] \in Seq(S)
<1> DEFINE Ok(f, n) == /\ f[0] = <<>> /\ \A i \in 1 .. n : f[i] = f[i - 1] \o ss[i]
                       /\ \A i \in 0 .. n : f[i] \in Seq(S)
           P == {n \in 0 .. Len(ss) : \E f : Ok(f, n)}
<1>1. 0 \in P
  <2>1. Ok([i \in 0 .. 0 |-> <<>>], 0)
    OBVIOUS
  <2>2. 0 \in 0 .. Len(ss)
    OBVIOUS
  <2>3. QED
    BY <2>1, <2>2, Zenon
<1>2. ASSUME NEW i \in 1 .. Len(ss), i - 1 \in P PROVE i \in P
  <2>1. PICK f : Ok(f, i - 1)
    BY <1>2, Zenon
  <2>2. PICK h : h = [k \in 0 .. i |-> IF k = i THEN f[i - 1] \o ss[i] ELSE f[k]]
    BY Zenon
  <2>3. \A k \in 0 .. i - 1 : h[k] = f[k]
    BY <2>2
  <2>4. h[i] = h[i - 1] \o ss[i] /\ h[i - 1] \in Seq(S) /\ ss[i] \in Seq(S)
    <3>1. i \in 0 .. i /\ i - 1 \in 0 .. i - 1
      OBVIOUS
    <3>2. h[i] = f[i - 1] \o ss[i]
      BY <2>2, <3>1, Zenon
    <3>3. h[i - 1] = f[i - 1] /\ f[i - 1] \in Seq(S)
      BY <2>1, <2>3, <3>1, Zenon
    <3>4. ss[i] \in Seq(S)
      OBVIOUS
    <3>5. QED
      BY <3>2, <3>3, <3>4, Zenon
  <2>5. h[i] \in Seq(S)
    BY <2>4
  <2>6. \A k \in 0 .. i : h[k] \in Seq(S)
    <3>1. \A k \in 0 .. i : k = i \/ k \in 0 .. i - 1
      OBVIOUS
    <3>2. QED
      BY <2>1, <2>3, <2>5, <3>1, Zenon
  <2>7. \A k \in 1 .. i : h[k] = h[k - 1] \o ss[k]
    <3> TAKE k \in 1 .. i
    <3>1. CASE k = i
      BY <2>4, <3>1, Zenon
    <3>2. CASE k # i
      <4>1. k \in 1 .. i - 1 /\ k \in 0 .. i - 1 /\ k - 1 \in 0 .. i - 1
        BY <3>2
      <4>2. QED
        BY <4>1, <2>1, <2>3, Zenon
    <3>3. QED
      BY <3>1, <3>2, Zenon
  <2>8. Ok(h, i)
    <3>1. 0 \in 0 .. i - 1
      OBVIOUS
    <3>2. h[0] = <<>>
      BY <2>1, <2>3, <3>1
    <3>3. QED
      BY <3>2, <2>6, <2>7, Zenon
  <2>9. i \in 0 .. Len(ss)
    OBVIOUS
  <2>10. QED
    BY <2>8, <2>9, Zenon
<1>3. Len(ss) \in Nat
  OBVIOUS
<1> HIDE DEF P
<1>4. \A i \in 0 .. Len(ss) : i \in P
  BY <1>1, <1>2, <1>3, UpTo, Zenon
<1>5. Len(ss) \in P
  BY <1>3, <1>4
<1>6. QED
  BY <1>5, Zenon DEF P, Joins

(* FlattenSeq is the last of the joined texts, as str::replace builds them.*)
LEMMA FlattenJoins ==
    ASSUME NEW S, NEW ss \in Seq(Seq(S)), NEW f, Joins(f, ss)
    PROVE  FlattenSeq(ss) = f[Len(ss)]
<1> DEFINE n == Len(ss)
<1>1. CASE n = 0
  <2>1. ss = <<>>
    BY <1>1
  <2>2. FlattenSeq(ss) = ss
    BY <1>1 DEF FlattenSeq
  <2>3. QED
    BY <1>1, <2>1, <2>2 DEF Joins
<1>2. CASE n # 0
  <2> DEFINE G == CHOOSE g : g = [i \in 1 .. n |-> IF i = 1 THEN ss[i] ELSE g[i - 1] \o ss[i]]
  <2>1. n \in Nat \ {0}
    BY <1>2
  <2>2. FlattenSeq(ss) = G[n]
    BY <1>2 DEF FlattenSeq
  <2>3. PICK h : h = [i \in 1 .. n |-> f[i]]
    BY Zenon
  <2>4. f[1] = ss[1]
    <3>1. 1 \in 1 .. n /\ f[1] = f[0] \o ss[1]
      <4>1. 1 \in 1 .. n /\ 1 - 1 = 0
        BY <2>1
      <4>2. QED
        BY <4>1, Zenon DEF Joins
    <3>2. ss[1] \in Seq(S)
      BY <3>1
    <3>3. QED
      BY <3>1, <3>2 DEF Joins
  <2>5. \A i \in 1 .. n : h[i] = IF i = 1 THEN ss[i] ELSE h[i - 1] \o ss[i]
    <3> TAKE i \in 1 .. n
    <3>1. CASE i = 1
      BY <2>3, <2>4, <3>1
    <3>2. CASE i # 1
      <4>1. i - 1 \in 1 .. n
        BY <2>1, <3>2
      <4>2. h[i] = f[i] /\ h[i - 1] = f[i - 1]
        BY <2>3, <4>1, Zenon
      <4>3. f[i] = f[i - 1] \o ss[i]
        BY Zenon DEF Joins
      <4>4. QED
        BY <3>2, <4>2, <4>3, Zenon
    <3>3. QED
      BY <3>1, <3>2
  <2>6. h = [i \in 1 .. n |-> IF i = 1 THEN ss[i] ELSE h[i - 1] \o ss[i]]
    BY <2>3, <2>5, Zenon
  <2>7. G = [i \in 1 .. n |-> IF i = 1 THEN ss[i] ELSE G[i - 1] \o ss[i]]
    BY <2>6, Zenon
  <2> HIDE DEF G
  <2> DEFINE P == {i \in 0 .. n : i > 0 => G[i] = f[i]}
  <2>8. 0 \in P
    BY <2>1
  <2>9. ASSUME NEW i \in 1 .. n, i - 1 \in P PROVE i \in P
    <3>1. CASE i = 1
      BY <3>1, <2>1, <2>4, <2>7
    <3>2. CASE i # 1
      <4>1. G[i] = G[i - 1] \o ss[i]
        BY <3>2, <2>7, Zenon
      <4>2. G[i - 1] = f[i - 1]
        BY <3>2, <2>9
      <4>3. f[i] = f[i - 1] \o ss[i]
        BY Zenon DEF Joins
      <4>4. i \in 0 .. n
        OBVIOUS
      <4>5. QED
        BY <4>1, <4>2, <4>3, <4>4, Zenon
    <3>3. QED
      BY <3>1, <3>2
  <2> HIDE DEF P
  <2>10. \A i \in 0 .. n : i \in P
    BY <2>1, <2>8, <2>9, UpTo, Zenon
  <2>11. n \in P
    BY <2>1, <2>10
  <2>12. QED
    BY <2>1, <2>2, <2>11 DEF P
<1>3. QED
  BY <1>1, <1>2

(* Joining is associative: c after b after a.                              *)
LEMMA JoinStep ==
    ASSUME NEW S, NEW a \in Seq(S), NEW b \in Seq(S), NEW c \in Seq(S),
           NEW x, x = a \o b, NEW y, y = b \o c
    PROVE  x \o c = a \o y
<1>1. (a \o b) \o c = a \o (b \o c)
  OBVIOUS
<1>2. QED
  BY <1>1

(* Flattening two sequences of sequences in a row.                         *)
LEMMA FlattenConcat ==
    ASSUME NEW S, NEW ss \in Seq(Seq(S)), NEW tt \in Seq(Seq(S))
    PROVE  FlattenSeq(ss \o tt) = FlattenSeq(ss) \o FlattenSeq(tt)
<1> DEFINE m == Len(ss)
           n == Len(tt)
<1>0. PICK st : st = ss \o tt
  BY Zenon
<1>3. m \in Nat /\ n \in Nat /\ st \in Seq(Seq(S)) /\ Len(st) = m + n
  BY <1>0
<1>4. \A i \in 1 .. m : st[i] = ss[i]
  BY <1>0
<1>5. \A i \in 1 .. n : st[m + i] = tt[i] /\ tt[i] \in Seq(S)
  BY <1>0
<1>1. PICK f : Joins(f, st) /\ \A i \in 0 .. m + n : f[i] \in Seq(S)
  BY <1>3, JoinsExists
<1>2. PICK g : Joins(g, tt) /\ \A i \in 0 .. n : g[i] \in Seq(S)
  BY JoinsExists
<1>6. Joins(f, ss)
  <2>1. \A i \in 1 .. m : i \in 1 .. Len(st)
    BY <1>3
  <2>2. QED
    BY <1>1, <1>4, <2>1, Zenon DEF Joins
<1>7. FlattenSeq(ss) = f[m]
  BY <1>6, FlattenJoins
<1>8. FlattenSeq(tt) = g[n]
  BY <1>2, FlattenJoins
<1>9. FlattenSeq(st) = f[m + n]
  BY <1>1, <1>3, FlattenJoins, Zenon
<1>10. f[m] \in Seq(S)
  BY <1>1, <1>3
<1> HIDE DEF m, n
<1> DEFINE P == {i \in 0 .. n : f[m + i] = f[m] \o g[i]}
<1>11. 0 \in P
  <2>1. g[0] = <<>>
    BY <1>2 DEF Joins
  <2>2. f[m] \o <<>> = f[m]
    BY <1>10
  <2>3. 0 \in 0 .. n /\ m + 0 = m
    BY <1>3
  <2>4. QED
    BY <2>1, <2>2, <2>3, Zenon
<1>12. ASSUME NEW i \in 1 .. n, i - 1 \in P PROVE i \in P
  <2>1. f[m + i] = f[m + (i - 1)] \o tt[i]
    <3>1. m + i \in 1 .. Len(st) /\ m + i - 1 = m + (i - 1)
      BY <1>3
    <3>2. PICK k : k = m + i
      OBVIOUS
    <3>3. f[k] = f[k - 1] \o st[k]
      BY <1>1, <3>1, <3>2, Zenon DEF Joins
    <3>4. k - 1 = m + (i - 1) /\ st[k] = tt[i]
      BY <1>3, <1>5, <3>2
    <3>5. QED
      BY <3>2, <3>3, <3>4, Zenon
  <2>2. f[m + (i - 1)] = f[m] \o g[i - 1]
    BY <1>12, Zenon
  <2>3. g[i] = g[i - 1] \o tt[i]
    BY <1>2, Zenon DEF Joins, n
  <2>4. g[i - 1] \in Seq(S) /\ tt[i] \in Seq(S)
    BY <1>2, <1>3, <1>5
  <2>5. f[m + i] = f[m] \o g[i]
    <3>1. f[m + (i - 1)] \o tt[i] = f[m] \o g[i]
      <4>1. PICK a \in Seq(S), b \in Seq(S), c \in Seq(S) : a = f[m] /\ b = g[i - 1] /\ c = tt[i]
        BY <1>10, <2>4, Zenon
      <4>2. PICK x, y : x = f[m + (i - 1)] /\ y = g[i]
        OBVIOUS
      <4>3. x = a \o b /\ y = b \o c
        BY <2>2, <2>3, <4>1, <4>2
      <4>4. x \o c = a \o y
        BY <4>3, JoinStep
      <4>5. QED
        BY <4>1, <4>2, <4>4
    <3>2. QED
      BY <2>1, <3>1
  <2>6. i \in 0 .. n
    OBVIOUS
  <2>7. QED
    BY <2>5, <2>6, Zenon
<1> HIDE DEF P
<1>13. \A i \in 0 .. n : i \in P
  BY <1>3, <1>11, <1>12, UpTo, Zenon
<1>14. n \in P
  BY <1>3, <1>13
<1>15. QED
  BY <1>0, <1>7, <1>8, <1>9, <1>14, Zenon DEF P

(* A prefix is the one before it and one more element.                     *)
LEMMA PrefixGrows ==
    ASSUME NEW S, NEW s \in Seq(S), NEW i \in 1 .. Len(s)
    PROVE  SubSeq(s, 1, i) = SubSeq(s, 1, i - 1) \o <<s[i]>>
<1>1. s[i] \in S /\ SubSeq(s, 1, i) \in Seq(S) /\ SubSeq(s, 1, i - 1) \in Seq(S)
  OBVIOUS
<1>2. QED
  BY <1>1

(* A sequence of one-element sequences flattens to the elements.           *)
LEMMA FlattenSingles ==
    ASSUME NEW S, NEW s \in Seq(S)
    PROVE  FlattenSeq([i \in DOMAIN s |-> <<s[i]>>]) = s
<1> DEFINE n == Len(s)
<1>1. PICK ss : ss = [i \in DOMAIN s |-> <<s[i]>>]
  BY Zenon
<1>2. n \in Nat /\ ss \in Seq(Seq(S)) /\ Len(ss) = n /\ \A i \in 1 .. n : ss[i] = <<s[i]>> /\ s[i] \in S
  <2>1. n \in Nat /\ DOMAIN s = 1 .. n /\ \A i \in 1 .. n : s[i] \in S
    OBVIOUS
  <2>2. \A i \in 1 .. n : <<s[i]>> \in Seq(S)
    BY <2>1
  <2>3. ss = [i \in 1 .. n |-> <<s[i]>>]
    BY <1>1, <2>1, Zenon
  <2> HIDE DEF n
  <2>4. \A i \in 1 .. n : ss[i] = <<s[i]>>
    BY <2>3, Zenon
  <2>5. ss \in [1 .. n -> Seq(S)]
    BY <2>2, <2>3, Zenon
  <2>6. ss \in Seq(Seq(S)) /\ Len(ss) = n
    BY <2>1, <2>5
  <2>7. QED
    BY <2>1, <2>4, <2>6
<1>3. PICK f : f = [i \in 0 .. n |-> SubSeq(s, 1, i)]
  BY Zenon
<1>4. f[0] = <<>>
  BY <1>2, <1>3
<1>5. ASSUME NEW i \in 1 .. n PROVE f[i] = f[i - 1] \o ss[i]
  <2>1. f[i] = SubSeq(s, 1, i) /\ f[i - 1] = SubSeq(s, 1, i - 1)
    <3>1. i \in 0 .. n /\ i - 1 \in 0 .. n
      BY <1>2
    <3>2. QED
      BY <1>3, <3>1, Zenon
  <2>2. SubSeq(s, 1, i) = SubSeq(s, 1, i - 1) \o <<s[i]>>
    BY PrefixGrows
  <2>3. QED
    BY <1>2, <2>1, <2>2, Zenon
<1>6. Joins(f, ss)
  BY <1>2, <1>4, <1>5, Zenon DEF Joins
<1>7. f[n] = s
  <2>1. f[n] = SubSeq(s, 1, n)
    BY <1>2, <1>3
  <2>2. QED
    BY <2>1
<1>8. QED
  BY <1>1, <1>2, <1>6, <1>7, FlattenJoins

(* Flattening one sequence gives that sequence: filter_map over the only   *)
(* tool of a configuration.                                                *)
LEMMA FlattenOne ==
    ASSUME NEW seqs, Len(seqs) = 1
    PROVE  FlattenSeq(seqs) = seqs[1]
<1> DEFINE G == CHOOSE f : f = [i \in 1 .. 1 |-> IF i = 1 THEN seqs[i] ELSE f[i - 1] \o seqs[i]]
<1>1. PICK h : h = [i \in 1 .. 1 |-> seqs[1]]
  BY Zenon
<1>2. h = [i \in 1 .. 1 |-> IF i = 1 THEN seqs[i] ELSE h[i - 1] \o seqs[i]]
  BY <1>1
<1>3. G = [i \in 1 .. 1 |-> IF i = 1 THEN seqs[i] ELSE G[i - 1] \o seqs[i]]
  BY <1>2, Zenon
<1>4. FlattenSeq(seqs) = G[1]
  BY DEF FlattenSeq
<1> HIDE DEF G
<1>5. G[1] = seqs[1]
  BY <1>3
<1>6. QED
  BY <1>4, <1>5

(* A function on 1 .. n with values in S is a sequence of length n.        *)
LEMMA IsSeq ==
    ASSUME NEW S, NEW n \in Nat, NEW s \in [1 .. n -> S]
    PROVE  s \in Seq(S) /\ Len(s) = n
OBVIOUS

(* Concatenation, by type, length and element.                             *)
LEMMA ConcatType ==
    ASSUME NEW S, NEW p \in Seq(S), NEW q \in Seq(S), NEW r, r = p \o q
    PROVE  r \in Seq(S) /\ Len(r) = Len(p) + Len(q)
OBVIOUS

(* Sequences with the same elements are the same.                          *)
LEMMA SameSeq ==
    ASSUME NEW S, NEW p \in Seq(S), NEW q \in Seq(S), Len(p) = Len(q), \A i \in 1 .. Len(p) : p[i] = q[i]
    PROVE  p = q
OBVIOUS

---------------------------------------------------------------------------
(* interpolate_path: the loop of replacements is a substitution at once *)

(* What str::replace puts for each piece of a text.                        *)
Pieces(text, name, by) == [i \in DOMAIN text |-> IF text[i] = Hole(name) THEN by ELSE <<text[i]>>]

(* What str::replace joins, by type, length and element.                   *)
LEMMA PiecesType ==
    ASSUME NEW S, NEW s \in Seq(S), NEW name, NEW e \in Seq(S), NEW r, r = Pieces(s, name, e)
    PROVE  /\ r \in Seq(Seq(S)) /\ Len(r) = Len(s)
           /\ \A i \in 1 .. Len(s) : r[i] = IF s[i] = Hole(name) THEN e ELSE <<s[i]>>
           /\ Replace(s, name, e) = FlattenSeq(r)
<1>1. PICK n \in Nat : n = Len(s) /\ DOMAIN s = 1 .. n
  OBVIOUS
<1>3. r = [i \in 1 .. n |-> IF s[i] = Hole(name) THEN e ELSE <<s[i]>>]
  BY <1>1, Zenon DEF Pieces
<1>4. \A i \in 1 .. n : r[i] = IF s[i] = Hole(name) THEN e ELSE <<s[i]>>
  BY <1>3, Zenon
<1>5. \A i \in 1 .. n : <<s[i]>> \in Seq(S)
  BY <1>1
<1>6. r \in [1 .. n -> Seq(S)]
  BY <1>3, <1>5, Zenon
<1>7. r \in Seq(Seq(S)) /\ Len(r) = n
  BY <1>6, IsSeq, Zenon
<1>8. Replace(s, name, e) = FlattenSeq(r)
  BY Zenon DEF Replace, Pieces
<1>9. QED
  BY <1>1, <1>4, <1>7, <1>8, Zenon

(* str::replace on a concatenation replaces in each part: no {name} spans  *)
(* two pieces.                                                             *)
LEMMA ReplaceConcat ==
    ASSUME NEW S, NEW s \in Seq(S), NEW t \in Seq(S), NEW name, NEW e \in Seq(S)
    PROVE  Replace(s \o t, name, e) = Replace(s, name, e) \o Replace(t, name, e)
<1>1. PICK st : st = s \o t
  BY Zenon
<1>2. /\ st \in Seq(S) /\ Len(st) = Len(s) + Len(t) /\ Len(s) \in Nat /\ Len(t) \in Nat
      /\ \A i \in 1 .. Len(s) + Len(t) : st[i] = IF i <= Len(s) THEN s[i] ELSE t[i - Len(s)]
  BY <1>1
<1> DEFINE IsPieces(r, u) == /\ r \in Seq(Seq(S)) /\ Len(r) = Len(u)
                             /\ \A i \in 1 .. Len(u) : r[i] = IF u[i] = Hole(name) THEN e ELSE <<u[i]>>
                             /\ Replace(u, name, e) = FlattenSeq(r)
<1>3. PICK ps : IsPieces(ps, s)
  BY PiecesType
<1>4. PICK pt : IsPieces(pt, t)
  BY PiecesType
<1>5. PICK p : IsPieces(p, st)
  <2>1. st \in Seq(S)
    BY <1>2
  <2>2. QED
    BY ONLY <2>1, e \in Seq(S), PiecesType
<1>6. PICK q : q = ps \o pt
  BY Zenon
<1>13. q \in Seq(Seq(S)) /\ Len(q) = Len(s) + Len(t)
  <2>1. ps \in Seq(Seq(S)) /\ pt \in Seq(Seq(S)) /\ Len(ps) = Len(s) /\ Len(pt) = Len(t)
    BY <1>3, <1>4, Zenon
  <2>2. q \in Seq(Seq(S)) /\ Len(q) = Len(ps) + Len(pt)
    <3>1. PICK W : W = Seq(S)
      OBVIOUS
    <3>2. ps \in Seq(W) /\ pt \in Seq(W)
      BY <2>1, <3>1
    <3>3. q \in Seq(W) /\ Len(q) = Len(ps) + Len(pt)
      BY ONLY <3>2, <1>6, ConcatType
    <3>4. QED
      BY <3>1, <3>3
  <2>3. QED
    BY <2>1, <2>2, Zenon
<1>14. \A i \in 1 .. Len(s) + Len(t) : q[i] = IF i <= Len(s) THEN ps[i] ELSE pt[i - Len(s)]
  BY <1>2, <1>3, <1>4, <1>6
<1>7. ASSUME NEW i \in 1 .. Len(s) + Len(t) PROVE p[i] = q[i]
  <2>1. CASE i <= Len(s)
    <3>1. i \in 1 .. Len(s) /\ i \in 1 .. Len(st)
      BY <1>2, <2>1
    <3>2. st[i] = s[i] /\ q[i] = ps[i]
      BY <1>2, <1>14, <2>1, Zenon
    <3>3. QED
      BY <1>3, <1>5, <3>1, <3>2, Zenon
  <2>2. CASE ~(i <= Len(s))
    <3>1. PICK k : k = i - Len(s)
      OBVIOUS
    <3>2. k \in 1 .. Len(t) /\ i \in 1 .. Len(st)
      BY <1>2, <2>2, <3>1
    <3>3. st[i] = t[k] /\ q[i] = pt[k]
      BY <1>2, <1>14, <2>2, <3>1, Zenon
    <3>4. QED
      BY <1>4, <1>5, <3>2, <3>3, Zenon
  <2>3. QED
    BY <2>1, <2>2
<1>8. p = q
  <2>1. Len(p) = Len(q) /\ \A i \in 1 .. Len(p) : p[i] = q[i]
    BY <1>2, <1>5, <1>7, <1>13
  <2>2. p \in Seq(Seq(S)) /\ q \in Seq(Seq(S))
    BY <1>5, <1>13
  <2>3. QED
    BY ONLY <2>1, <2>2, SameSeq
<1>9. FlattenSeq(q) = FlattenSeq(ps) \o FlattenSeq(pt)
  BY <1>3, <1>4, <1>6, FlattenConcat
<1>10. QED
  BY <1>1, <1>3, <1>4, <1>5, <1>8, <1>9, Zenon

(* str::replace leaves a text without the placeholder alone.               *)
LEMMA ReplaceNone ==
    ASSUME NEW S, NEW s \in Seq(S), NEW name, NEW e \in Seq(S), \A i \in 1 .. Len(s) : s[i] # Hole(name)
    PROVE  Replace(s, name, e) = s
<1>1. DOMAIN s = 1 .. Len(s)
  OBVIOUS
<1>2. Pieces(s, name, e) = [i \in DOMAIN s |-> <<s[i]>>]
  BY <1>1 DEF Pieces
<1>3. FlattenSeq([i \in DOMAIN s |-> <<s[i]>>]) = s
  BY FlattenSingles
<1>4. PICK r : r = Pieces(s, name, e)
  OBVIOUS
<1>5. Replace(s, name, e) = FlattenSeq(r)
  BY <1>4, PiecesType
<1>6. QED
  BY <1>2, <1>3, <1>4, <1>5, Zenon

(* ... and puts the value for the placeholder on its own.                  *)
LEMMA ReplaceOne ==
    ASSUME NEW S, NEW p \in S, NEW name, NEW e \in Seq(S)
    PROVE  Replace(<<p>>, name, e) = IF p = Hole(name) THEN e ELSE <<p>>
<1>0. PICK s : s = <<p>>
  BY Zenon
<1>1. s \in Seq(S) /\ Len(s) = 1 /\ s[1] = p
  BY <1>0
<1>2. PICK r : r = Pieces(s, name, e)
  OBVIOUS
<1>3. /\ Len(r) = 1 /\ r[1] = IF s[1] = Hole(name) THEN e ELSE <<s[1]>>
      /\ Replace(s, name, e) = FlattenSeq(r)
  <2>1. /\ Len(r) = Len(s) /\ Replace(s, name, e) = FlattenSeq(r)
        /\ \A i \in 1 .. Len(s) : r[i] = IF s[i] = Hole(name) THEN e ELSE <<s[i]>>
    BY <1>1, <1>2, PiecesType
  <2>2. 1 \in 1 .. Len(s)
    BY <1>1
  <2>3. QED
    BY <1>1, <2>1, <2>2, Zenon
<1>4. FlattenSeq(r) = r[1]
  BY <1>3, FlattenOne
<1>5. QED
  BY <1>0, <1>1, <1>3, <1>4, Zenon

(* The template with the placeholders of D replaced by their values.       *)
Filled(T, D, V) ==
    [i \in DOMAIN T |-> IF T[i].kind = "hole" /\ T[i].of \in D THEN V[T[i].of] ELSE <<T[i]>>]

(* A text without placeholders.                                            *)
Holeless(s) == \A i \in 1 .. Len(s) : s[i].kind # "hole"

(* Every name of D has a value, a text without placeholders.               *)
Valued(D, V) == \A n \in D : V[n] \in Seq(Piece) /\ Holeless(V[n])

(* r is the filled template, as a sequence of texts.                       *)
IsFilled(r, T, D, V) ==
    /\ r \in Seq(Seq(Piece)) /\ Len(r) = Len(T)
    /\ \A i \in 1 .. Len(T) : r[i] = IF T[i].kind = "hole" /\ T[i].of \in D THEN V[T[i].of] ELSE <<T[i]>>

(* The filled template, by type, length and element.                       *)
LEMMA FilledType ==
    ASSUME NEW T \in Seq(Piece), NEW D, NEW V, Valued(D, V)
    PROVE  IsFilled(Filled(T, D, V), T, D, V)
<1>0. PICK r : r = Filled(T, D, V)
  OBVIOUS
<1>1. PICK n \in Nat : n = Len(T) /\ DOMAIN T = 1 .. n
  OBVIOUS
<1>2. r = [i \in 1 .. n |-> IF T[i].kind = "hole" /\ T[i].of \in D THEN V[T[i].of] ELSE <<T[i]>>]
  BY <1>0, <1>1, Zenon DEF Filled
<1>3. \A i \in 1 .. n : <<T[i]>> \in Seq(Piece)
  <2>1. \A i \in 1 .. n : T[i] \in Piece
    BY <1>1
  <2>2. QED
    BY <2>1
<1>4. r \in [1 .. n -> Seq(Piece)]
  BY <1>2, <1>3, Zenon DEF Valued
<1>5. r \in Seq(Seq(Piece)) /\ Len(r) = n
  BY <1>4, IsSeq, Zenon
<1>6. QED
  BY <1>0, <1>1, <1>2, <1>5, Zenon DEF IsFilled

(* A piece of a template that is a placeholder is the one of its name.     *)
LEMMA HoleIs ==
    ASSUME NEW p \in Piece, NEW name
    PROVE  p = Hole(name) <=> p.kind = "hole" /\ p.of = name
BY DEF Piece, Hole

(* One turn of the loop of interpolate_path: replacing one more name in    *)
(* the text in which the names of D are replaced already.  The values put  *)
(* in earlier have no placeholders, so the loop leaves them alone.         *)
LEMMA ReplaceFills ==
    ASSUME NEW T \in Seq(Piece), NEW D, NEW V, NEW m, Valued(D \cup {m}, V)
    PROVE  Replace(FlattenSeq(Filled(T, D, V)), m, V[m]) = FlattenSeq(Filled(T, D \cup {m}, V))
<1>1. PICK E, e : E = D \cup {m} /\ e = V[m]
  BY Zenon
<1>2. Valued(D, V) /\ Valued(E, V) /\ e \in Seq(Piece)
  BY <1>1, Zenon DEF Valued
<1>3. PICK r, q : r = Filled(T, D, V) /\ q = Filled(T, E, V)
  OBVIOUS
<1>4. PICK n \in Nat : n = Len(T)
  OBVIOUS
<1>5. /\ r \in Seq(Seq(Piece)) /\ Len(r) = n
      /\ \A i \in 1 .. n : r[i] = IF T[i].kind = "hole" /\ T[i].of \in D THEN V[T[i].of] ELSE <<T[i]>>
  <2>1. IsFilled(r, T, D, V)
    BY <1>2, <1>3, FilledType, Zenon
  <2>2. QED
    BY <1>4, <2>1, Zenon DEF IsFilled
<1>6. /\ q \in Seq(Seq(Piece)) /\ Len(q) = n
      /\ \A i \in 1 .. n : q[i] = IF T[i].kind = "hole" /\ T[i].of \in E THEN V[T[i].of] ELSE <<T[i]>>
  <2>1. IsFilled(q, T, E, V)
    BY <1>2, <1>3, FilledType, Zenon
  <2>2. QED
    BY <1>4, <2>1, Zenon DEF IsFilled
<1>7. PICK f : Joins(f, r) /\ \A i \in 0 .. n : f[i] \in Seq(Piece)
  BY <1>5, JoinsExists
<1>8. PICK g : Joins(g, q) /\ \A i \in 0 .. n : g[i] \in Seq(Piece)
  BY <1>6, JoinsExists
<1>9. FlattenSeq(r) = f[n] /\ FlattenSeq(q) = g[n]
  BY <1>5, <1>6, <1>7, <1>8, FlattenJoins
<1>10. ASSUME NEW i \in 1 .. n PROVE r[i] \in Seq(Piece) /\ Replace(r[i], m, e) = q[i]
  <2>1. T[i] \in Piece
    BY <1>4
  <2>2. CASE T[i].kind = "hole" /\ T[i].of \in D
    <3>1. r[i] = V[T[i].of] /\ q[i] = V[T[i].of]
      BY <1>1, <1>5, <1>6, <2>2, Zenon
    <3>2. r[i] \in Seq(Piece) /\ Holeless(r[i])
      BY <1>2, <2>2, <3>1, Zenon DEF Valued
    <3>3. \A k \in 1 .. Len(r[i]) : r[i][k] # Hole(m)
      BY <3>2 DEF Holeless, Hole
    <3>4. Replace(r[i], m, e) = r[i]
      BY <1>2, <3>2, <3>3, ReplaceNone
    <3>5. QED
      BY <3>1, <3>2, <3>4, Zenon
  <2>3. CASE ~(T[i].kind = "hole" /\ T[i].of \in D)
    <3>1. r[i] = <<T[i]>>
      BY <1>5, <2>3, Zenon
    <3>2. Replace(<<T[i]>>, m, e) = IF T[i] = Hole(m) THEN e ELSE <<T[i]>>
      BY <1>2, <2>1, ReplaceOne
    <3>3. T[i] = Hole(m) <=> T[i].kind = "hole" /\ T[i].of \in E
      BY <1>1, <2>1, <2>3, HoleIs, Zenon
    <3>4. q[i] = IF T[i] = Hole(m) THEN e ELSE <<T[i]>>
      <4>1. CASE T[i] = Hole(m)
        <5>1. T[i].of = m
          BY <4>1, <2>1, HoleIs, Zenon
        <5>2. QED
          BY <1>1, <1>6, <3>3, <4>1, <5>1, Zenon
      <4>2. CASE T[i] # Hole(m)
        BY <1>6, <3>3, <4>2, Zenon
      <4>3. QED
        BY <4>1, <4>2
    <3>5. <<T[i]>> \in Seq(Piece)
      BY <2>1
    <3>6. QED
      BY <3>1, <3>2, <3>4, <3>5, Zenon
  <2>4. QED
    BY <2>2, <2>3
<1> DEFINE P == {i \in 0 .. n : Replace(f[i], m, e) = g[i]}
<1>11. 0 \in P
  <2>1. f[0] = <<>> /\ g[0] = <<>>
    BY <1>7, <1>8 DEF Joins
  <2>2. PICK s : s = <<>>
    OBVIOUS
  <2>3. s \in Seq(Piece) /\ Len(s) = 0
    BY <2>2
  <2>4. \A k \in 1 .. Len(s) : s[k] # Hole(m)
    BY <2>3
  <2>5. Replace(s, m, e) = s
    BY <1>2, <2>3, <2>4, ReplaceNone
  <2>6. 0 \in 0 .. n
    OBVIOUS
  <2>7. QED
    BY <2>1, <2>2, <2>5, <2>6, Zenon
<1>12. ASSUME NEW i \in 1 .. n, i - 1 \in P PROVE i \in P
  <2>1. f[i] = f[i - 1] \o r[i] /\ g[i] = g[i - 1] \o q[i]
    BY <1>5, <1>6, <1>7, <1>8, Zenon DEF Joins
  <2>2. PICK a, b : a = f[i - 1] /\ b = r[i]
    OBVIOUS
  <2>3. i - 1 \in 0 .. n /\ i \in 0 .. n
    OBVIOUS
  <2>4. a \in Seq(Piece) /\ b \in Seq(Piece)
    BY <1>7, <1>10, <2>2, <2>3, Zenon
  <2>5. Replace(a \o b, m, e) = Replace(a, m, e) \o Replace(b, m, e)
    BY <1>2, <2>4, ReplaceConcat
  <2>6. Replace(a, m, e) = g[i - 1] /\ Replace(b, m, e) = q[i]
    BY <1>10, <1>12, <2>2, Zenon
  <2>7. QED
    BY <2>1, <2>2, <2>3, <2>5, <2>6, Zenon
<1> HIDE DEF P
<1>13. n \in P
  <2>1. \A i \in 0 .. n : i \in P
    BY <1>11, <1>12, UpTo
  <2>2. QED
    BY <2>1
<1>14. QED
  BY <1>1, <1>3, <1>9, <1>13, Zenon DEF P

(* Percent-encoding leaves no placeholder in a value.                      *)
LEMMA EncodedHoleless ==
    ASSUME NEW s \in Seq(Piece)
    PROVE  Encoded(s) \in Seq(Piece) /\ Holeless(Encoded(s))
<1>1. PICK n \in Nat : n = Len(s) /\ DOMAIN s = 1 .. n
  OBVIOUS
<1>2. PICK r : r = Encoded(s)
  OBVIOUS
<1>3. \A i \in 1 .. n : s[i] \in Piece
  BY <1>1
<1>4. r = [i \in 1 .. n |-> IF s[i].kind = "hole" THEN Escaped(s[i].of) ELSE s[i]]
  BY <1>1, <1>2, Zenon DEF Encoded
<1>5. \A i \in 1 .. n : r[i] \in Piece /\ r[i].kind # "hole"
  <2> TAKE i \in 1 .. n
  <2>1. r[i] = IF s[i].kind = "hole" THEN Escaped(s[i].of) ELSE s[i]
    BY <1>4, Zenon
  <2>2. s[i] \in Piece
    BY <1>3
  <2>3. QED
    BY <2>1, <2>2 DEF Piece, Escaped
<1>6. r \in [1 .. n -> Piece]
  <2>1. DOMAIN r = 1 .. n /\ r = [i \in 1 .. n |-> r[i]]
    BY <1>4
  <2>2. QED
    BY <1>5, <2>1, Zenon
<1>7. r \in Seq(Piece) /\ Len(r) = n
  BY <1>6, IsSeq, Zenon
<1>8. QED
  BY <1>2, <1>5, <1>7, Zenon DEF Holeless

(* extract_placeholders finds every placeholder of the template.           *)
LEMMA ExtractFinds ==
    ASSUME NEW T \in Seq(Piece), NEW names, names = extract_placeholders(T)
    PROVE  /\ names \in Seq(Words)
           /\ \A j \in 1 .. Len(T) : T[j].kind = "hole" => \E k \in 1 .. Len(names) : names[k] = T[j].of
<1> DEFINE Found(seen, i) == IF T[i].kind = "hole" /\ T[i].of \notin ToSet(seen) THEN Append(seen, T[i].of) ELSE seen
           G == CHOOSE g : g = [i \in 0 .. Len(T) |-> IF i = 0 THEN <<>> ELSE Found(g[i - 1], i)]
           Scans(g, n) == g[0] = <<>> /\ \A i \in 1 .. n : g[i] = Found(g[i - 1], i)
           P == {n \in 0 .. Len(T) : \E g : Scans(g, n)}
<1>1. names = G[Len(T)]
  BY Zenon DEF extract_placeholders
<1> HIDE DEF Found
<1>2. PICK n \in Nat : n = Len(T)
  OBVIOUS
<1>3. 0 \in P
  <2>1. Scans([i \in 0 .. 0 |-> <<>>], 0)
    OBVIOUS
  <2>2. 0 \in 0 .. Len(T)
    BY <1>2
  <2>3. QED
    BY <2>1, <2>2, Zenon
<1>4. ASSUME NEW i \in 1 .. n, i - 1 \in P PROVE i \in P
  <2>1. PICK g : Scans(g, i - 1)
    BY <1>4
  <2>2. PICK h : h = [k \in 0 .. i |-> IF k = i THEN Found(g[i - 1], i) ELSE g[k]]
    BY Zenon
  <2>3. /\ i \in 0 .. i /\ i - 1 \in 0 .. i /\ i - 1 # i /\ 0 \in 0 .. i /\ 0 # i
        /\ \A k \in 1 .. i : k # i => k \in 1 .. i - 1 /\ k \in 0 .. i /\ k - 1 \in 0 .. i /\ k - 1 # i
    OBVIOUS
  <2>4. h[0] = <<>> /\ h[i] = Found(h[i - 1], i)
    BY <2>1, <2>2, <2>3, Zenon
  <2>5. \A k \in 1 .. i : h[k] = Found(h[k - 1], k)
    BY <2>1, <2>2, <2>3, <2>4, Zenon
  <2>6. i \in 0 .. Len(T)
    BY <1>2
  <2>7. QED
    BY <2>4, <2>5, <2>6, Zenon
<1>5. PICK g : Scans(g, n)
  <2> HIDE DEF P
  <2>1. \A i \in 0 .. n : i \in P
    BY <1>3, <1>4, UpTo
  <2>2. n \in P
    BY <2>1
  <2>3. QED
    BY <2>2 DEF P
<1>6. PICK h : h = [i \in 0 .. n |-> g[i]]
  BY Zenon
<1>7. \A i \in 0 .. n : i = 0 \/ (i # 0 /\ i \in 1 .. n /\ i - 1 \in 0 .. n)
  OBVIOUS
<1>8. h = [i \in 0 .. n |-> IF i = 0 THEN <<>> ELSE Found(h[i - 1], i)]
  <2>1. \A i \in 0 .. n : g[i] = IF i = 0 THEN <<>> ELSE Found(h[i - 1], i)
    BY <1>5, <1>6, <1>7, Zenon
  <2>2. QED
    BY <1>6, <2>1, Zenon
<1>9. G = [i \in 0 .. n |-> IF i = 0 THEN <<>> ELSE Found(G[i - 1], i)]
  BY <1>2, <1>8, Zenon
<1> HIDE DEF G, P
<1>10. G[0] = <<>> /\ \A i \in 1 .. n : G[i] = Found(G[i - 1], i)
  <2>1. 0 \in 0 .. n /\ \A i \in 1 .. n : i \in 0 .. n /\ i # 0
    OBVIOUS
  <2>2. QED
    BY <1>9, <2>1, Zenon
<1> DEFINE Q == {i \in 0 .. n : /\ G[i] \in Seq(Words)
                                /\ \A j \in 1 .. i : T[j].kind = "hole" => T[j].of \in ToSet(G[i])}
<1>11. 0 \in Q
  <2>1. <<>> \in Seq(Words) /\ 0 \in 0 .. n /\ 1 .. 0 = {}
    OBVIOUS
  <2>2. QED
    BY <1>10, <2>1, Zenon
<1>12. ASSUME NEW i \in 1 .. n, i - 1 \in Q PROVE i \in Q
  <2>1. PICK s, t : s = G[i - 1] /\ t = G[i]
    OBVIOUS
  <2>2. s \in Seq(Words) /\ \A j \in 1 .. i - 1 : T[j].kind = "hole" => T[j].of \in ToSet(s)
    BY <1>12, <2>1, Zenon
  <2>3. t = IF T[i].kind = "hole" /\ T[i].of \notin ToSet(s) THEN Append(s, T[i].of) ELSE s
    BY <1>10, <2>1, Zenon DEF Found
  <2>4. T[i] \in Piece
    BY <1>2
  <2>5. t \in Seq(Words)
    BY <2>2, <2>3, <2>4 DEF Piece
  <2>6. ToSet(s) \subseteq ToSet(t)
    BY <2>2, <2>3, <2>4 DEF ToSet, Piece
  <2>7. T[i].kind = "hole" => T[i].of \in ToSet(t)
    BY <2>2, <2>3, <2>4 DEF ToSet, Piece
  <2>8. i \in 0 .. n /\ \A j \in 1 .. i : j = i \/ j \in 1 .. i - 1
    OBVIOUS
  <2>9. QED
    BY <2>1, <2>2, <2>5, <2>6, <2>7, <2>8, Zenon
<1> HIDE DEF Q
<1>13. n \in Q
  <2>1. \A i \in 0 .. n : i \in Q
    BY <1>11, <1>12, UpTo
  <2>2. QED
    BY <2>1
<1>14. names \in Seq(Words) /\ \A j \in 1 .. n : T[j].kind = "hole" => T[j].of \in ToSet(names)
  BY <1>1, <1>2, <1>13, Zenon DEF Q
<1>15. QED
  BY <1>2, <1>14 DEF ToSet

(* The names the loop goes through.                                        *)
NamesIn(names) == {names[k] : k \in 1 .. Len(names)}

(* The loop of interpolate_path, over all the names: one replacement after *)
(* the other is the substitution of all names at once.                     *)
LEMMA LoopSubstitutes ==
    ASSUME NEW T \in Seq(Piece), NEW names, names = extract_placeholders(T), Len(names) \in Nat, NEW V,
           Valued(NamesIn(names), V)
    PROVE  Interpolated(T, V) = FlattenSeq(Filled(T, NamesIn(names), V))
<1>1. PICK n \in Nat : n = Len(names)
  OBVIOUS
<1> DEFINE text == CHOOSE t : t = [k \in 0 .. n |-> IF k = 0 THEN T ELSE Replace(t[k - 1], names[k], V[names[k]])]
           D(k) == {names[j] : j \in 1 .. k}
           h == [k \in 0 .. n |-> FlattenSeq(Filled(T, D(k), V))]
<1>2. FlattenSeq(Filled(T, {}, V)) = T
  <2>1. Filled(T, {}, V) = [i \in DOMAIN T |-> <<T[i]>>]
    BY Zenon DEF Filled
  <2>2. QED
    BY <2>1, FlattenSingles
<1>3. ASSUME NEW k \in 1 .. n
      PROVE  FlattenSeq(Filled(T, D(k), V)) = Replace(FlattenSeq(Filled(T, D(k - 1), V)), names[k], V[names[k]])
  <2>1. D(k) = D(k - 1) \cup {names[k]}
    <3>1. \A j \in 1 .. k : j = k \/ j \in 1 .. k - 1
      OBVIOUS
    <3>2. k \in 1 .. k /\ \A j \in 1 .. k - 1 : j \in 1 .. k
      OBVIOUS
    <3>3. QED
      BY <3>1, <3>2, Zenon
  <2>2. Valued(D(k), V)
    <3>1. \A j \in 1 .. k : j \in 1 .. Len(names)
      BY <1>1
    <3>2. QED
      BY <3>1, Zenon DEF Valued, NamesIn
  <2> HIDE DEF D
  <2>3. PICK A, m : A = D(k - 1) /\ m = names[k]
    OBVIOUS
  <2>4. Valued(A \cup {m}, V)
    BY <2>1, <2>2, <2>3, Zenon
  <2>5. Replace(FlattenSeq(Filled(T, A, V)), m, V[m]) = FlattenSeq(Filled(T, A \cup {m}, V))
    BY <2>4, ReplaceFills
  <2>6. QED
    BY <2>1, <2>3, <2>5, Zenon
<1>4. D(0) = {}
  OBVIOUS
<1> HIDE DEF D
<1>5. h = [k \in 0 .. n |-> IF k = 0 THEN T ELSE Replace(h[k - 1], names[k], V[names[k]])]
  <2>1. \A k \in 0 .. n : k = 0 \/ (k # 0 /\ k \in 1 .. n /\ k - 1 \in 0 .. n)
    OBVIOUS
  <2>2. \A k \in 0 .. n : h[k] = IF k = 0 THEN T ELSE Replace(h[k - 1], names[k], V[names[k]])
    BY <1>2, <1>3, <1>4, <2>1, Zenon
  <2>3. h = [k \in 0 .. n |-> h[k]]
    OBVIOUS
  <2>4. QED
    BY <2>2, <2>3, Zenon
<1>6. text = [k \in 0 .. n |-> IF k = 0 THEN T ELSE Replace(text[k - 1], names[k], V[names[k]])]
  BY <1>5, Zenon
<1>12. Interpolated(T, V) = text[n]
  BY <1>1, Zenon DEF Interpolated
<1> HIDE DEF text
<1> DEFINE P == {k \in 0 .. n : text[k] = h[k]}
<1>7. 0 \in P
  <2>1. 0 \in 0 .. n
    OBVIOUS
  <2>2. QED
    BY <1>5, <1>6, <2>1, Zenon
<1>8. ASSUME NEW k \in 1 .. n, k - 1 \in P PROVE k \in P
  <2>1. k \in 0 .. n /\ k # 0
    OBVIOUS
  <2>2. text[k - 1] = h[k - 1]
    BY <1>8, Zenon
  <2>3. text[k] = Replace(text[k - 1], names[k], V[names[k]])
    BY <1>6, <2>1, Zenon
  <2>4. h[k] = Replace(h[k - 1], names[k], V[names[k]])
    BY <1>5, <2>1, Zenon
  <2>5. QED
    BY <2>1, <2>2, <2>3, <2>4, Zenon
<1> HIDE DEF P
<1>9. n \in P
  <2>1. \A k \in 0 .. n : k \in P
    BY <1>7, <1>8, UpTo
  <2>2. QED
    BY <2>1
<1>10. text[n] = FlattenSeq(Filled(T, D(n), V))
  <2>1. n \in 0 .. n
    OBVIOUS
  <2>2. QED
    BY <1>9, <2>1, Zenon DEF P
<1>11. QED
  BY <1>1, <1>10, <1>12, Zenon DEF D, NamesIn

(* With all placeholders filled the template is the substitution at once.  *)
LEMMA FilledIsAllAtOnce ==
    ASSUME NEW T \in Seq(Piece), NEW D, NEW V, \A j \in 1 .. Len(T) : T[j].kind = "hole" => T[j].of \in D,
           \A n \in D : V[n] = Encoded(args[n].text)
    PROVE  FlattenSeq(Filled(T, D, V)) = AllAtOnce(T, LAMBDA n : Encoded(args[n].text))
<1>1. DOMAIN T = 1 .. Len(T)
  OBVIOUS
<1>2. \A i \in DOMAIN T : (IF T[i].kind = "hole" /\ T[i].of \in D THEN V[T[i].of] ELSE <<T[i]>>)
                        = (IF T[i].kind = "hole" THEN Encoded(args[T[i].of].text) ELSE <<T[i]>>)
  BY <1>1, Zenon
<1>3. Filled(T, D, V) = [i \in DOMAIN T |-> IF T[i].kind = "hole" THEN Encoded(args[T[i].of].text) ELSE <<T[i]>>]
  BY <1>2, Zenon DEF Filled
<1>4. QED
  BY <1>3, Zenon DEF AllAtOnce

(* interpolate_path substitutes all placeholders at once, if every name    *)
(* has an argument (upstream.rs:412-434).                                  *)
LEMMA InterpolateSubstitutes ==
    ASSUME NEW T \in Seq(Piece), Missing(T) = {}, \A n \in DOMAIN args : args[n].text \in Seq(Piece)
    PROVE  interpolate_path(T) = AllAtOnce(T, LAMBDA n : Encoded(args[n].text))
<1>1. PICK names : names = extract_placeholders(T)
  OBVIOUS
<1>2. /\ names \in Seq(Words)
      /\ \A j \in 1 .. Len(T) : T[j].kind = "hole" => \E k \in 1 .. Len(names) : names[k] = T[j].of
  BY <1>1, ExtractFinds
<1>3. PICK D, V : D = NamesIn(names) /\ V = [n \in DOMAIN args |-> Encoded(args[n].text)]
  BY Zenon
<1>4. D \subseteq DOMAIN args
  <2>1. DOMAIN names = 1 .. Len(names)
    BY <1>2
  <2>2. QED
    BY <1>1, <1>3, <2>1, Zenon DEF Missing, NamesIn
<1>5. \A n \in D : V[n] = Encoded(args[n].text)
  BY <1>3, <1>4, Zenon
<1>6. Valued(D, V)
  BY <1>4, <1>5, EncodedHoleless, Zenon DEF Valued
<1>7. Len(names) \in Nat
  BY <1>2
<1>8. Interpolated(T, V) = FlattenSeq(Filled(T, D, V))
  BY <1>1, <1>3, <1>6, <1>7, LoopSubstitutes, Zenon
<1>9. \A j \in 1 .. Len(T) : T[j].kind = "hole" => T[j].of \in D
  BY <1>2, <1>3, Zenon DEF NamesIn
<1>10. FlattenSeq(Filled(T, D, V)) = AllAtOnce(T, LAMBDA n : Encoded(args[n].text))
  BY <1>5, <1>9, FilledIsAllAtOnce, Zenon
<1>11. QED
  BY <1>3, <1>8, <1>10, Zenon DEF interpolate_path

(* A request that is built has the interpolated path, and every path       *)
(* placeholder had an argument (UpstreamRequestBuilder::build).            *)
LEMMA BuiltPath ==
    build.status = "built" => Missing(tool.path_template) = {} /\ build.path = interpolate_path(tool.path_template)
<1>1. CASE ~ALLOW_HTTP /\ ~tool.https
  BY <1>1 DEF build, Failed
<1>2. CASE (ALLOW_HTTP \/ tool.https) /\ Missing(tool.path_template) # {}
  BY <1>2 DEF build, Failed
<1>3. CASE (ALLOW_HTTP \/ tool.https) /\ Missing(tool.path_template) = {}
  <2>1. PICK path : path = interpolate_path(tool.path_template)
    OBVIOUS
  <2>2. \E query, body, n, long, bad :
           build = IF long THEN Failed("UrlTooLong", "") ELSE IF bad THEN Failed("InvalidBodyTemplate", n)
                   ELSE [status |-> "built", path |-> path, query |-> query, body |-> body]
    BY <1>3, <2>1, Zenon DEF build
  <2>3. PICK query, body, n :
           \/ build = Failed("UrlTooLong", "") \/ build = Failed("InvalidBodyTemplate", n)
           \/ build = [status |-> "built", path |-> path, query |-> query, body |-> body]
    BY <2>2, Zenon
  <2>4. build.status = "built" => build.path = path
    <3>1. CASE build = Failed("UrlTooLong", "") \/ build = Failed("InvalidBodyTemplate", n)
      <4>1. Failed("UrlTooLong", "").status # "built" /\ Failed("InvalidBodyTemplate", n).status # "built"
        BY DEF Failed
      <4>2. QED
        BY <3>1, <4>1, Zenon
    <3>2. CASE build = [status |-> "built", path |-> path, query |-> query, body |-> body]
      BY <3>2
    <3>3. QED
      BY <2>3, <3>1, <3>2, Zenon
  <2>5. QED
    BY <1>3, <2>1, <2>4, Zenon
<1>4. QED
  BY <1>1, <1>2, <1>3

(* The tool and the arguments are the ones of the call throughout.         *)
PathInv == tool \in Tools /\ args \in Arguments /\ PathIsSubstitution

(* Building keeps the path a substitution at once.                         *)
LEMMA PathInductive == PathInv /\ [Next]_vars => PathInv'
<1> SUFFICES ASSUME PathInv, [Next]_vars PROVE PathInv'
  OBVIOUS
<1>1. CASE Build
  <2>1. tool' = tool /\ args' = args /\ outcome' = build
    BY <1>1 DEF Build
  <2>2. tool.path_template \in Seq(Piece) /\ \A n \in DOMAIN args : args[n].text \in Seq(Piece)
    BY TextAssumption DEF PathInv
  <2>3. ASSUME build.status = "built"
        PROVE  build.path = AllAtOnce(tool.path_template, LAMBDA n : Encoded(args[n].text))
    <3>1. Missing(tool.path_template) = {} /\ build.path = interpolate_path(tool.path_template)
      BY <2>3, BuiltPath
    <3>2. interpolate_path(tool.path_template) = AllAtOnce(tool.path_template, LAMBDA n : Encoded(args[n].text))
      BY <2>2, <3>1, InterpolateSubstitutes, Zenon
    <3>3. QED
      BY <3>1, <3>2, Zenon
  <2>4. PathIsSubstitution'
    BY <2>1, <2>3, Zenon DEF PathIsSubstitution, AllAtOnce
  <2>5. QED
    BY <2>1, <2>4 DEF PathInv
<1>2. CASE UNCHANGED vars
  <2>1. tool' = tool /\ args' = args /\ outcome' = outcome
    BY <1>2 DEF vars
  <2>2. PathIsSubstitution'
    BY <2>1, Zenon DEF PathInv, PathIsSubstitution, AllAtOnce
  <2>3. QED
    BY <2>1, <2>2 DEF PathInv
<1>3. QED
  BY <1>1, <1>2 DEF Next

(* The path of every request that is built is its template with all        *)
(* placeholders substituted at once, although the loop replaces one name   *)
(* after the other in the text obtained so far: no argument's text is taken*)
(* for a placeholder, for any tools, arguments and length of the template  *)
(* (upstream.rs:406-434).                                                  *)
THEOREM PathSubstitutes == Spec => []PathIsSubstitution
<1>1. Init => PathInv
  BY DEF Init, PathInv, PathIsSubstitution, NotBuilt
<1>2. PathInv => PathIsSubstitution
  BY DEF PathInv
<1>3. QED
  BY <1>1, <1>2, PathInductive, PTL DEF Spec

---------------------------------------------------------------------------
(* tools/list and the path *)

(* tools/list of a configuration with one tool is what build_mcp_tool makes*)
(* of it.                                                                  *)
LEMMA ListedOne == Listed = build_mcp_tool(tool)
<1>1. PICK one : one = <<tool>>
  BY Zenon
<1>2. Len(one) = 1 /\ DOMAIN one = {1} /\ one[1] = tool
  BY <1>1
<1>3. PICK seqs : seqs = [i \in DOMAIN one |-> build_mcp_tool(one[i])]
  BY Zenon
<1>4. Len(seqs) = 1 /\ seqs[1] = build_mcp_tool(tool)
  <2>1. seqs = <<build_mcp_tool(tool)>>
    BY <1>2, <1>3
  <2>2. QED
    BY <2>1
<1>5. Listed = FlattenSeq(seqs)
  BY <1>1, <1>3 DEF Listed, generate_tool_schemas
<1>6. QED
  BY <1>4, <1>5, FlattenOne

(* A tool that is listed carries the schema of its definition.             *)
LEMMA SchemaOfListed ==
    ASSUME NEW i \in DOMAIN Listed
    PROVE  Listed[i].inputSchema = build_input_schema(tool)
<1>1. PICK schema : schema = build_input_schema(tool)
  OBVIOUS
<1>2. \E n, t : build_mcp_tool(tool) \in {<<>>, <<[name |-> n, description |-> t, inputSchema |-> schema]>>}
  BY <1>1, Zenon DEF build_mcp_tool
<1>3. PICK n, t : Listed = <<>> \/ Listed = <<[name |-> n, description |-> t, inputSchema |-> schema]>>
  BY <1>2, ListedOne
<1>4. QED
  BY <1>1, <1>3

(* The schema marks every path placeholder required, and describes every   *)
(* parameter it marks required (tool_schema.rs, build_input_schema).       *)
LEMMA SchemaNamesPath ==
    /\ PathParams(tool) \subseteq build_input_schema(tool).required
    /\ build_input_schema(tool).required \subseteq DOMAIN build_input_schema(tool).properties
<1>1. build_input_schema(tool).required = PathParams(tool)
        \cup {p.name : p \in {q \in Declared(tool) : q.required /\ q.name \notin PathParams(tool)}}
  BY DEF build_input_schema
<1>2. DOMAIN build_input_schema(tool).properties = PathParams(tool) \cup {p.name : p \in Declared(tool)}
  BY DEF build_input_schema
<1>3. QED
  BY <1>1, <1>2

(* A call refused for a missing path parameter lacks one.                  *)
RefusedRightly == outcome.status = "MissingPathParam" => Missing(tool.path_template) # {}

(* What is missing from the path is a path placeholder without an argument.*)
LEMMA MissingIsInPath ==
    Missing(tool.path_template) # {} => \E n \in PathParams(tool) : n \notin DOMAIN args
BY DEF Missing, PathParams, ToSet

(* Building the request refuses it for a missing path parameter only if one*)
(* is missing (upstream.rs:421-424).                                       *)
LEMMA RefusedInductive == RefusedRightly /\ [Next]_vars => RefusedRightly'
<1> SUFFICES ASSUME RefusedRightly, [Next]_vars PROVE RefusedRightly'
  OBVIOUS
<1>1. CASE Build
  <2>1. tool' = tool /\ args' = args /\ outcome' = build
    BY <1>1 DEF Build
  <2>2. Missing(tool.path_template)' = Missing(tool.path_template)
    BY <2>1 DEF Missing
  <2>3. build.status = "MissingPathParam" => Missing(tool.path_template) # {}
    BY DEF build, Failed
  <2>4. QED
    BY <2>1, <2>2, <2>3 DEF RefusedRightly
<1>2. CASE UNCHANGED vars
  <2>1. tool' = tool /\ args' = args /\ outcome' = outcome
    BY <1>2 DEF vars
  <2>2. Missing(tool.path_template)' = Missing(tool.path_template)
    BY <2>1 DEF Missing
  <2>4. QED
    BY <2>1, <2>2 DEF RefusedRightly
<1>3. QED
  BY <1>1, <1>2 DEF Next

(* A refused call lacks a path parameter, which is one the schema marks    *)
(* required.                                                               *)
LEMMA RefusedCovers == RefusedRightly => RequiredCoversPath
<1> SUFFICES ASSUME RefusedRightly, NEW i \in DOMAIN Listed
             PROVE  LET schema == Listed[i].inputSchema
                    IN /\ schema.required \subseteq DOMAIN schema.properties
                       /\ schema.required \subseteq DOMAIN args => outcome.status # "MissingPathParam"
  BY DEF RequiredCoversPath
<1>1. PICK schema : schema = build_input_schema(tool)
  OBVIOUS
<1>2. Listed[i].inputSchema = schema
  BY <1>1, SchemaOfListed
<1>3. PathParams(tool) \subseteq schema.required /\ schema.required \subseteq DOMAIN schema.properties
  BY <1>1, SchemaNamesPath
<1>4. schema.required \subseteq DOMAIN args => outcome.status # "MissingPathParam"
  BY <1>3, MissingIsInPath DEF RefusedRightly
<1>5. QED
  BY <1>2, <1>3, <1>4

(* A call that gives every parameter that tools/list marks required is     *)
(* never refused for a missing path parameter, and every required parameter*)
(* is described, for every tool and all arguments (tool_schema.rs:126-275, *)
(* upstream.rs:421-424).                                                   *)
THEOREM SchemaCoversPath == Spec => []RequiredCoversPath
<1>1. Init => RefusedRightly
  BY DEF Init, RefusedRightly, NotBuilt
<1>2. QED
  BY <1>1, RefusedInductive, RefusedCovers, PTL DEF Spec

---------------------------------------------------------------------------
(* The stages of a tool call *)

CONSTANTS INT_BITS, MANTISSA, MAX_EXP, QUANTA, Calls, ValidFormats, MAX_RESPONSE_SIZE,
          Jobs, Resolutions, Statuses, Key

VARIABLES job, at, checked, sent, reply, trail,
          call, stage, doc, next, warnings, content

(* The whole call, with the tool, arguments and outcome of this module.    *)
Whole == INSTANCE ToolCall

(* A tool call as a whole takes, of each of its stages, only steps of that *)
(* stage: the request, the injection and the response stage behave within a*)
(* tool call as they do on their own (sidecar.rs, execute).  Whole!Spec is *)
(* the Spec of UpstreamRequest, which ToolCall extends.                    *)
THEOREM StagesCompose == Whole!CallSpec => Whole!Spec /\ Whole!Inject!Spec /\ Whole!Response!Spec
<1>1. Whole!CallInit => Whole!Init /\ Whole!Inject!Init /\ Whole!Response!Init
  BY DEF Whole!CallInit
<1>2. [Whole!CallNext]_(Whole!callVars) => [Whole!Next]_(Whole!vars)
  BY DEF Whole!CallNext, Whole!callVars, Whole!vars
<1>3. [Whole!CallNext]_(Whole!callVars) => [Whole!Inject!Next]_(Whole!Inject!vars)
  BY DEF Whole!CallNext, Whole!callVars, Whole!injectionVars, Whole!Inject!vars
<1>4. [Whole!CallNext]_(Whole!callVars) => [Whole!Response!Next]_(Whole!Response!vars)
  BY DEF Whole!CallNext, Whole!callVars, Whole!responseVars, Whole!Response!vars
<1>5. QED
  BY <1>1, <1>2, <1>3, <1>4, PTL DEF Whole!CallSpec, Whole!Spec, Whole!Inject!Spec, Whole!Response!Spec
====
