-------------------------- MODULE SyllabifierProofs --------------------------
(***************************************************************************)
(* The syllabifier, for every alphabet, set of digraphs, text and buffer.  *)
(*                                                                         *)
(* Most of it is about one word.  The places of its vowels ascend and none *)
(* lies between two that follow one another (VPosIs, NeighboursIn), so the *)
(* k-th pair gets a break, and it lies between the two or in the run that  *)
(* holds both (BreakIs).  Hence the breaks of a word come in order with a  *)
(* vowel between them, or three around two that are equal (BreaksApart),   *)
(* sorting moves none (SortedIs), and the pieces rejoin to the word        *)
(* (PiecesRejoin).                                                         *)
(*                                                                         *)
(* The invariant is Inv.  Breaking says that the breaks are those of the   *)
(* pairs looked at; Spelt that what was read of a text is in its tokens    *)
(* and the current word; InOrder and EndWord that tokens are numbered      *)
(* without a gap and the last one ends the last word.                      *)
(***************************************************************************)
EXTENDS Syllabifier, SlotCodingProofs, SequenceTheorems, FiniteSetTheorems

(***************************************************************************)
(* Sequences, from the empty one on.                                       *)
(***************************************************************************)
LEMMA AppendIs ==
  ASSUME NEW S, NEW s \in Seq(S), NEW e \in S, NEW n, n = Len(s)
  PROVE  /\ n \in Nat /\ Append(s, e) \in Seq(S) /\ Len(Append(s, e)) = n + 1
         /\ \A i \in 1..n : Append(s, e)[i] = s[i]
         /\ Append(s, e)[n + 1] = e
BY AppendProperties, LenProperties

LEMMA CatIs ==
  ASSUME NEW S, NEW s \in Seq(S), NEW t \in Seq(S), NEW m, m = Len(s), NEW n, n = Len(t)
  PROVE  /\ m \in Nat /\ n \in Nat /\ s \o t \in Seq(S) /\ Len(s \o t) = m + n
         /\ \A i \in 1..m : (s \o t)[i] = s[i]
         /\ \A i \in 1..n : (s \o t)[m + i] = t[i]
<1>1. m \in Nat /\ n \in Nat
  OBVIOUS
<1>2. /\ s \o t \in Seq(S) /\ Len(s \o t) = m + n
      /\ \A i \in 1..(m + n) : (s \o t)[i] = IF i <= m THEN s[i] ELSE t[i - m]
  BY ConcatProperties
<1>3. ASSUME NEW i \in 1..m PROVE (s \o t)[i] = s[i]
  <2>1. i \in 1..(m + n) /\ i <= m
    BY <1>1
  <2> QED BY <1>2, <2>1
<1>4. ASSUME NEW i \in 1..n PROVE (s \o t)[m + i] = t[i]
  <2>1. m + i \in 1..(m + n) /\ ~(m + i <= m) /\ (m + i) - m = i
    BY <1>1
  <2>2. (s \o t)[m + i] = t[(m + i) - m]
    BY <1>2, <2>1
  <2> QED BY <2>1, <2>2
<1> QED BY <1>1, <1>2, <1>3, <1>4

LEMMA PrefixGrows ==
  ASSUME NEW S, NEW s \in Seq(S), NEW k \in 1..Len(s)
  PROVE  /\ SubSeq(s, 1, k) = Append(SubSeq(s, 1, k - 1), s[k])
         /\ SubSeq(s, 1, k - 1) \in Seq(S) /\ s[k] \in S
<1>1. s[k] \in S /\ k - 1 \in Int /\ \A i \in 1..(k - 1) : s[i] \in S
  OBVIOUS
<1>2. SubSeq(s, 1, k - 1) \in Seq(S)
  <2>1. PICK one \in Int, l \in Int : one = 1 /\ l = k - 1 /\ \A i \in one..l : s[i] \in S
    BY <1>1
  <2>2. SubSeq(s, one, l) \in Seq(S)
    BY <2>1, SubSeqProperties
  <2> QED BY <2>1, <2>2
<1>3. SubSeq(s, 1, k) = SubSeq(s, 1, k - 1) \o <<s[k]>>
  <2>1. 1 \in 1..Len(s) /\ k \in 1..Len(s)
    OBVIOUS
  <2> QED BY <2>1, SubSeqRecursiveSecond
<1> QED BY <1>1, <1>2, <1>3, AppendIsConcat

LEMMA ByAppending ==
  ASSUME NEW S, NEW T, <<>> \in T, \A s \in Seq(S) : \A e \in S : s \in T => Append(s, e) \in T
  PROVE  \A s \in Seq(S) : s \in T
<1> SUFFICES ASSUME NEW s \in Seq(S) PROVE s \in T
  OBVIOUS
<1>1. PICK n \in Nat : n = Len(s)
  OBVIOUS
<1> DEFINE U == {k \in 0..n : \A t \in Seq(S) : Len(t) = k => t \in T}
<1>2. 0 \in U
  <2>1. \A t \in Seq(S) : Len(t) = 0 => t = <<>>
    BY EmptySeq
  <2> QED BY <2>1
<1>3. ASSUME NEW k \in 1..n, k - 1 \in U PROVE k \in U
  <2> SUFFICES ASSUME NEW t \in Seq(S), Len(t) = k PROVE t \in T
    OBVIOUS
  <2>1. t # <<>>
    BY EmptySeq
  <2>2. PICK a \in Seq(S), e \in S : t = Append(a, e)
    BY <2>1, SequenceEmptyOrAppend
  <2>3. Len(a) = k - 1
    BY <2>2, AppendIs
  <2>4. a \in T
    BY <1>3, <2>3
  <2> QED BY <2>2, <2>4
<1>4. n \in U
  <2> HIDE DEF U
  <2>1. \A k \in 0..n : k \in U
    BY <1>2, <1>3, UpTo
  <2> QED BY <2>1
<1> QED BY <1>1, <1>4

(***************************************************************************)
(* Only, by its equations.                                                 *)
(***************************************************************************)
Kept(kind, u, e) == IF e \in kind THEN Append(u, e) ELSE u

KeepsOnly(g, s, kind) ==
  /\ g[0] = <<>> /\ Only(s, kind) = g[Len(s)]
  /\ \A k \in 1..Len(s) : g[k] = Kept(kind, g[k - 1], s[k])

LEMMA KeptIs ==
  ASSUME NEW S, NEW kind, NEW u \in Seq(S), NEW e \in S
  PROVE  Kept(kind, u, e) \in Seq(S)
BY AppendProperties DEF Kept

LEMMA OnlyRec ==
  ASSUME NEW S, NEW s \in Seq(S), NEW kind
  PROVE  \E g \in [0..Len(s) -> Seq(S)] : KeepsOnly(g, s, kind)
<1> DEFINE P(f) == f = [k \in 0..Len(s) |-> IF k = 0 THEN <<>>
                                            ELSE IF s[k] \in kind THEN Append(f[k - 1], s[k])
                                            ELSE f[k - 1]]
           H == CHOOSE f : P(f)
<1>0. PICK n \in Nat : n = Len(s) /\ \A k \in 1..n : s[k] \in S
  OBVIOUS
<1>1. PICK Q : Q = Seq(S)
  OBVIOUS
<1>2. <<>> \in Q /\ \A u \in Q : \A e \in S : Kept(kind, u, e) \in Q
  BY <1>1, KeptIs, EmptySeq
<1>3. PICK F : F = [k \in 1..n |-> [u \in Q |-> Kept(kind, u, s[k])]]
  OBVIOUS
<1>4. F \in [1..n -> [Q -> Q]] /\ \A k \in 1..n : \A u \in Q : F[k][u] = Kept(kind, u, s[k])
  BY <1>0, <1>2, <1>3
<1>5. PICK g \in [0..n -> Q] : g[0] = <<>> /\ \A k \in 1..n : g[k] = F[k][g[k - 1]]
  <2>1. Recursion(Q, <<>>, n, F)
    BY <1>2, <1>4, RecursionIn
  <2> QED BY <2>1 DEF Recursion
<1>6. ASSUME NEW k \in 1..n PROVE g[k] = Kept(kind, g[k - 1], s[k])
  <2>1. k - 1 \in 0..n
    BY <1>0
  <2> QED BY <1>4, <1>5, <2>1
<1>7. P(g)
  <2>1. PICK q : q = [k \in 0..n |-> IF k = 0 THEN <<>>
                                     ELSE IF s[k] \in kind THEN Append(g[k - 1], s[k])
                                     ELSE g[k - 1]]
    OBVIOUS
  <2>2. ASSUME NEW k \in 0..n PROVE q[k] = g[k]
    <3>1. CASE k = 0
      BY <1>5, <2>1, <3>1
    <3>2. CASE k # 0
      <4>1. k \in 1..n
        BY <3>2
      <4> QED BY <1>6, <2>1, <3>2, <4>1 DEF Kept
    <3> QED BY <3>1, <3>2
  <2>3. g = q
    BY <1>5, <2>1, <2>2
  <2> QED BY <1>0, <2>1, <2>3
<1>8. P(H)
  <2> HIDE DEF P
  <2> QED BY <1>7
<1>9. PICK h : h = H
  OBVIOUS
<1>10. h[0] = <<>> /\ \A k \in 1..n : h[k] = Kept(kind, h[k - 1], s[k])
  <2>1. h = [k \in 0..n |-> IF k = 0 THEN <<>>
                            ELSE IF s[k] \in kind THEN Append(h[k - 1], s[k])
                            ELSE h[k - 1]]
    BY <1>0, <1>8, <1>9
  <2>2. ASSUME NEW k \in 1..n PROVE h[k] = Kept(kind, h[k - 1], s[k])
    <3>1. k \in 0..n /\ k # 0
      OBVIOUS
    <3> QED BY <2>1, <3>1 DEF Kept
  <2>3. 0 \in 0..n
    BY <1>0
  <2> QED BY <2>1, <2>2, <2>3
<1>11. h[n] = g[n]
  <2> DEFINE T == {k \in 0..n : h[k] = g[k]}
  <2>1. 0 \in T
    BY <1>5, <1>10
  <2>2. ASSUME NEW k \in 1..n, k - 1 \in T PROVE k \in T
    <3>1. h[k - 1] = g[k - 1]
      BY <2>2
    <3>2. h[k] = g[k]
      BY <1>6, <1>10, <3>1
    <3> QED BY <3>2
  <2> HIDE DEF T
  <2>3. \A k \in 0..n : k \in T
    BY <2>1, <2>2, UpTo
  <2> QED BY <2>3 DEF T
<1>12. Only(s, kind) = h[n]
  BY <1>0, <1>9 DEF Only
<1>13. KeepsOnly(g, s, kind)
  BY <1>0, <1>5, <1>6, <1>11, <1>12 DEF KeepsOnly
<1> QED BY <1>0, <1>1, <1>13

LEMMA OnlyIs ==
  ASSUME NEW S, NEW kind
  PROVE  /\ Only(<<>>, kind) = <<>>
         /\ \A s \in Seq(S) : Only(s, kind) \in Seq(S)
<1>1. Only(<<>>, kind) = <<>>
  <2>1. PICK z \in Seq(S) : z = <<>> /\ Len(z) = 0
    BY EmptySeq
  <2>2. PICK g \in [0..Len(z) -> Seq(S)] : KeepsOnly(g, z, kind)
    BY OnlyRec
  <2> QED BY <2>1, <2>2 DEF KeepsOnly
<1>2. ASSUME NEW s \in Seq(S) PROVE Only(s, kind) \in Seq(S)
  <2>1. PICK g \in [0..Len(s) -> Seq(S)] : KeepsOnly(g, s, kind)
    BY OnlyRec
  <2>2. Len(s) \in 0..Len(s)
    OBVIOUS
  <2> QED BY <2>1, <2>2 DEF KeepsOnly
<1> QED BY <1>1, <1>2

LEMMA OnlyMore ==
  ASSUME NEW S, NEW s \in Seq(S), NEW e \in S, NEW kind
  PROVE  Only(Append(s, e), kind) = Kept(kind, Only(s, kind), e)
<1>1. PICK n \in Nat : n = Len(s)
  OBVIOUS
<1>2. PICK t \in Seq(S) : t = Append(s, e)
  BY AppendIs
<1>3. PICK m \in Nat : m = n + 1
  BY <1>1
<1>4. Len(t) = m /\ t[m] = e /\ \A i \in 1..n : t[i] = s[i]
  BY <1>1, <1>2, <1>3, AppendIs
<1>5. PICK g \in [0..Len(s) -> Seq(S)] : KeepsOnly(g, s, kind)
  BY OnlyRec
<1>6. PICK h \in [0..Len(t) -> Seq(S)] : KeepsOnly(h, t, kind)
  BY OnlyRec
<1>7. g[0] = <<>> /\ Only(s, kind) = g[n] /\ \A k \in 1..n : g[k] = Kept(kind, g[k - 1], s[k])
  BY <1>1, <1>5 DEF KeepsOnly
<1>8. h[0] = <<>> /\ Only(t, kind) = h[m] /\ \A k \in 1..m : h[k] = Kept(kind, h[k - 1], t[k])
  BY <1>4, <1>6 DEF KeepsOnly
<1> DEFINE T == {k \in 0..n : g[k] = h[k]}
<1>9. 0 \in T
  BY <1>7, <1>8
<1>10. ASSUME NEW k \in 1..n, k - 1 \in T PROVE k \in T
  <2>1. g[k - 1] = h[k - 1]
    BY <1>10
  <2>2. k \in 1..m
    BY <1>3
  <2>3. g[k] = h[k]
    BY <1>4, <1>7, <1>8, <2>1, <2>2
  <2> QED BY <2>3
<1>11. g[n] = h[n]
  <2> HIDE DEF T
  <2>1. \A k \in 0..n : k \in T
    BY <1>9, <1>10, UpTo
  <2> QED BY <2>1 DEF T
<1>12. m \in 1..m /\ m - 1 = n
  BY <1>3
<1> QED BY <1>2, <1>4, <1>7, <1>8, <1>11, <1>12

LEMMA AppendCat ==
  ASSUME NEW S, NEW s \in Seq(S), NEW t \in Seq(S), NEW e \in S
  PROVE  s \o Append(t, e) = Append(s \o t, e)
<1>1. <<e>> \in Seq(S)
  OBVIOUS
<1>2. s \o t \in Seq(S)
  BY ConcatProperties
<1>3. Append(t, e) = t \o <<e>> /\ Append(s \o t, e) = (s \o t) \o <<e>>
  BY <1>2, AppendIsConcat
<1>4. (s \o t) \o <<e>> = s \o (t \o <<e>>)
  BY <1>1, ConcatAssociative
<1> QED BY <1>3, <1>4

LEMMA OnlyCat ==
  ASSUME NEW S, NEW s \in Seq(S), NEW t \in Seq(S), NEW kind
  PROVE  Only(s \o t, kind) = Only(s, kind) \o Only(t, kind)
<1> DEFINE T == {u \in Seq(S) : Only(s \o u, kind) = Only(s, kind) \o Only(u, kind)}
<1>1. Only(s, kind) \in Seq(S)
  BY OnlyIs
<1>2. <<>> \in T
  <2>1. s \o <<>> = s /\ Only(s, kind) \o <<>> = Only(s, kind)
    BY <1>1, ConcatEmptySeq
  <2>2. Only(<<>>, kind) = <<>> /\ <<>> \in Seq(S)
    BY OnlyIs, EmptySeq
  <2> QED BY <2>1, <2>2
<1>3. ASSUME NEW u \in Seq(S), NEW e \in S, u \in T PROVE Append(u, e) \in T
  <2>1. /\ Append(u, e) \in Seq(S) /\ s \o u \in Seq(S)
        /\ s \o Append(u, e) = Append(s \o u, e)
    BY AppendProperties, ConcatProperties, AppendCat
  <2>2. PICK a \in Seq(S) : a = Only(u, kind)
    BY OnlyIs
  <2>3. Only(s \o u, kind) = Only(s, kind) \o a
    BY <1>3, <2>2
  <2>4. /\ Only(Append(u, e), kind) = Kept(kind, a, e)
        /\ Only(Append(s \o u, e), kind) = Kept(kind, Only(s, kind) \o a, e)
    <3>1. Only(Append(u, e), kind) = Kept(kind, Only(u, kind), e)
      BY OnlyMore
    <3>2. Only(Append(s \o u, e), kind) = Kept(kind, Only(s \o u, kind), e)
      BY <2>1, OnlyMore
    <3> QED BY <2>2, <2>3, <3>1, <3>2
  <2>5. Only(s, kind) \o Append(a, e) = Append(Only(s, kind) \o a, e)
    BY <1>1, AppendCat
  <2>6. Kept(kind, Only(s, kind) \o a, e) = Only(s, kind) \o Kept(kind, a, e)
    BY <2>5 DEF Kept
  <2> QED BY <2>1, <2>4, <2>6
<1>4. \A u \in Seq(S) : u \in T
  <2> HIDE DEF T
  <2> QED BY <1>2, <1>3, ByAppending
<1> QED BY <1>4

LEMMA OnlyAll ==
  ASSUME NEW S, NEW s \in Seq(S), NEW kind, \A i \in 1..Len(s) : s[i] \in kind
  PROVE  Only(s, kind) = s
<1> DEFINE T == {u \in Seq(S) : (\A i \in 1..Len(u) : u[i] \in kind) => Only(u, kind) = u}
<1>1. <<>> \in T
  BY OnlyIs, EmptySeq
<1>2. ASSUME NEW u \in Seq(S), NEW e \in S, u \in T PROVE Append(u, e) \in T
  <2>1. PICK n \in Nat : n = Len(u)
    OBVIOUS
  <2>2. PICK t \in Seq(S) : t = Append(u, e) /\ Len(t) = n + 1 /\ t[n + 1] = e /\ \A i \in 1..n : t[i] = u[i]
    <3>1. /\ Append(u, e) \in Seq(S) /\ Len(Append(u, e)) = n + 1 /\ Append(u, e)[n + 1] = e
          /\ \A i \in 1..n : Append(u, e)[i] = u[i]
      BY <2>1, AppendIs
    <3> QED BY <3>1
  <2>3. ASSUME \A i \in 1..Len(t) : t[i] \in kind PROVE Only(t, kind) = t
    <3>1. n + 1 \in 1..Len(t) /\ \A i \in 1..n : i \in 1..Len(t)
      BY <2>2
    <3>2. e \in kind /\ \A i \in 1..n : u[i] \in kind
      BY <2>2, <2>3, <3>1
    <3>3. Only(u, kind) = u
      BY <1>2, <2>1, <3>2
    <3>4. Only(t, kind) = Kept(kind, Only(u, kind), e)
      BY <2>2, OnlyMore
    <3> QED BY <2>2, <3>2, <3>3, <3>4 DEF Kept
  <2> QED BY <2>2, <2>3
<1>3. \A u \in Seq(S) : u \in T
  <2> HIDE DEF T
  <2> QED BY <1>1, <1>2, ByAppending
<1> QED BY <1>3

LEMMA OnlySame ==
  ASSUME NEW S, NEW s \in Seq(S), NEW kind, NEW other, \A i \in 1..Len(s) : s[i] \in kind <=> s[i] \in other
  PROVE  Only(s, kind) = Only(s, other)
<1> DEFINE T == {u \in Seq(S) : (\A i \in 1..Len(u) : u[i] \in kind <=> u[i] \in other)
                                => Only(u, kind) = Only(u, other)}
<1>1. <<>> \in T
  BY OnlyIs, EmptySeq
<1>2. ASSUME NEW u \in Seq(S), NEW e \in S, u \in T PROVE Append(u, e) \in T
  <2>1. PICK n \in Nat : n = Len(u)
    OBVIOUS
  <2>2. PICK t \in Seq(S) : t = Append(u, e) /\ Len(t) = n + 1 /\ t[n + 1] = e /\ \A i \in 1..n : t[i] = u[i]
    <3>1. /\ Append(u, e) \in Seq(S) /\ Len(Append(u, e)) = n + 1 /\ Append(u, e)[n + 1] = e
          /\ \A i \in 1..n : Append(u, e)[i] = u[i]
      BY <2>1, AppendIs
    <3> QED BY <3>1
  <2>3. ASSUME \A i \in 1..Len(t) : t[i] \in kind <=> t[i] \in other PROVE Only(t, kind) = Only(t, other)
    <3>1. n + 1 \in 1..Len(t) /\ \A i \in 1..n : i \in 1..Len(t)
      BY <2>2
    <3>2. (e \in kind <=> e \in other) /\ \A i \in 1..n : u[i] \in kind <=> u[i] \in other
      BY <2>2, <2>3, <3>1
    <3>3. Only(u, kind) = Only(u, other)
      BY <1>2, <2>1, <3>2
    <3>4. Only(t, kind) = Kept(kind, Only(u, kind), e) /\ Only(t, other) = Kept(other, Only(u, other), e)
      BY <2>2, OnlyMore
    <3> QED BY <2>2, <3>2, <3>3, <3>4 DEF Kept
  <2> QED BY <2>2, <2>3
<1>3. \A u \in Seq(S) : u \in T
  <2> HIDE DEF T
  <2> QED BY <1>1, <1>2, ByAppending
<1> QED BY <1>3

LEMMA OnlyWithin ==
  ASSUME NEW S, NEW s \in Seq(S), NEW kind
  PROVE  Only(s, kind) \in Seq(S \cap kind)
<1> DEFINE T == {u \in Seq(S) : Only(u, kind) \in Seq(S \cap kind)}
<1>1. <<>> \in T
  BY OnlyIs, EmptySeq
<1>2. ASSUME NEW u \in Seq(S), NEW e \in S, u \in T PROVE Append(u, e) \in T
  <2>1. Append(u, e) \in Seq(S) /\ Only(Append(u, e), kind) = Kept(kind, Only(u, kind), e)
    BY AppendProperties, OnlyMore
  <2>2. PICK a \in Seq(S \cap kind) : a = Only(u, kind)
    BY <1>2
  <2>3. Kept(kind, a, e) \in Seq(S \cap kind)
    <3>1. e \in kind => Append(a, e) \in Seq(S \cap kind)
      BY AppendProperties
    <3> QED BY <3>1 DEF Kept
  <2> QED BY <2>1, <2>2, <2>3
<1>3. \A u \in Seq(S) : u \in T
  <2> HIDE DEF T
  <2> QED BY <1>1, <1>2, ByAppending
<1> QED BY <1>3

(***************************************************************************)
(* FlattenSeq, by its equations.                                           *)
(***************************************************************************)
Cat(u, s) == u \o s

Flattens(g, ss) ==
  /\ g[0] = <<>> /\ FlattenSeq(ss) = g[Len(ss)]
  /\ \A k \in 1..Len(ss) : g[k] = Cat(g[k - 1], ss[k])

LEMMA FlattenRec ==
  ASSUME NEW S, NEW ss \in Seq(Seq(S))
  PROVE  \E g \in [0..Len(ss) -> Seq(S)] : Flattens(g, ss)
<1> DEFINE P(f) == f = [i \in 1..Len(ss) |-> IF i = 1 THEN ss[i] ELSE f[i - 1] \o ss[i]]
           H == CHOOSE f : P(f)
<1>1. PICK Q : Q = Seq(S)
  OBVIOUS
<1>0. PICK n \in Nat : n = Len(ss) /\ \A k \in 1..n : ss[k] \in Q
  BY <1>1
<1>2. <<>> \in Q /\ (\A u, s \in Q : Cat(u, s) \in Q) /\ \A s \in Q : Cat(<<>>, s) = s
  BY <1>1, ConcatProperties, ConcatEmptySeq, EmptySeq DEF Cat
<1>3. PICK F : F = [k \in 1..n |-> [u \in Q |-> Cat(u, ss[k])]]
  OBVIOUS
<1>4. F \in [1..n -> [Q -> Q]] /\ \A k \in 1..n : \A u \in Q : F[k][u] = Cat(u, ss[k])
  BY <1>0, <1>2, <1>3
<1>5. PICK g \in [0..n -> Q] : g[0] = <<>> /\ \A k \in 1..n : g[k] = F[k][g[k - 1]]
  <2>1. Recursion(Q, <<>>, n, F)
    BY <1>2, <1>4, RecursionIn
  <2> QED BY <2>1 DEF Recursion
<1>6. ASSUME NEW k \in 1..n PROVE g[k] = Cat(g[k - 1], ss[k])
  <2>1. k - 1 \in 0..n
    BY <1>0
  <2> QED BY <1>4, <1>5, <2>1
<1>7. CASE n = 0
  <2>1. FlattenSeq(ss) = <<>>
    BY <1>0, <1>7, EmptySeq DEF FlattenSeq
  <2>2. Flattens(g, ss)
    BY <1>0, <1>5, <1>6, <1>7, <2>1 DEF Flattens
  <2> QED BY <1>0, <1>1, <2>2
<1>8. CASE n # 0
  <2>1. PICK r : r = [i \in 1..n |-> g[i]]
    OBVIOUS
  <2>2. P(r)
    <3>1. PICK q : q = [i \in 1..n |-> IF i = 1 THEN ss[i] ELSE r[i - 1] \o ss[i]]
      OBVIOUS
    <3>2. ASSUME NEW i \in 1..n PROVE q[i] = r[i]
      <4>1. CASE i = 1
        BY <1>0, <1>2, <1>5, <1>6, <2>1, <3>1, <4>1
      <4>2. CASE i # 1
        <5>1. i - 1 \in 1..n
          BY <4>2
        <5> QED BY <1>6, <2>1, <3>1, <4>2, <5>1 DEF Cat
      <4> QED BY <4>1, <4>2
    <3>3. r = q
      BY <2>1, <3>1, <3>2
    <3> QED BY <1>0, <3>1, <3>3
  <2>3. P(H)
    <3> HIDE DEF P
    <3> QED BY <2>2
  <2>4. PICK h : h = H
    OBVIOUS
  <2>5. /\ h[1] = ss[1]
        /\ \A k \in 2..n : h[k] = Cat(h[k - 1], ss[k])
    <3>1. h = [i \in 1..n |-> IF i = 1 THEN ss[i] ELSE h[i - 1] \o ss[i]]
      BY <1>0, <2>3, <2>4
    <3>2. ASSUME NEW k \in 2..n PROVE h[k] = Cat(h[k - 1], ss[k])
      <4>1. k \in 1..n /\ k # 1
        OBVIOUS
      <4> QED BY <3>1, <4>1 DEF Cat
    <3>3. 1 \in 1..n
      BY <1>8
    <3> QED BY <3>1, <3>2, <3>3
  <2>6. h[n] = g[n]
    <3> DEFINE T == {k \in 0..n : k = 0 \/ h[k] = g[k]}
    <3>1. 0 \in T
      OBVIOUS
    <3>2. ASSUME NEW k \in 1..n, k - 1 \in T PROVE k \in T
      <4>1. CASE k = 1
        <5>1. g[1] = ss[1]
          BY <1>0, <1>2, <1>5, <1>6, <4>1
        <5> QED BY <2>5, <4>1, <5>1
      <4>2. CASE k # 1
        <5>1. k \in 2..n /\ h[k - 1] = g[k - 1]
          BY <3>2, <4>2
        <5>2. h[k] = g[k]
          BY <1>6, <2>5, <5>1
        <5> QED BY <5>2
      <4> QED BY <4>1, <4>2
    <3> HIDE DEF T
    <3>3. \A k \in 0..n : k \in T
      BY <3>1, <3>2, UpTo
    <3>4. n \in T
      BY <3>3
    <3> QED BY <1>8, <3>4 DEF T
  <2>7. FlattenSeq(ss) = h[n]
    BY <1>0, <1>8, <2>4 DEF FlattenSeq
  <2>8. Flattens(g, ss)
    BY <1>0, <1>5, <1>6, <2>6, <2>7 DEF Flattens
  <2> QED BY <1>0, <1>1, <2>8
<1> QED BY <1>7, <1>8

LEMMA FlattenIs ==
  ASSUME NEW S
  PROVE  /\ FlattenSeq(<<>>) = <<>>
         /\ \A ss \in Seq(Seq(S)) : FlattenSeq(ss) \in Seq(S)
         /\ \A ss \in Seq(Seq(S)) : \A s \in Seq(S) : FlattenSeq(Append(ss, s)) = Cat(FlattenSeq(ss), s)
<1>1. FlattenSeq(<<>>) = <<>>
  BY DEF FlattenSeq
<1>2. ASSUME NEW ss \in Seq(Seq(S)) PROVE FlattenSeq(ss) \in Seq(S)
  <2>1. PICK g \in [0..Len(ss) -> Seq(S)] : Flattens(g, ss)
    BY FlattenRec
  <2>2. Len(ss) \in 0..Len(ss)
    OBVIOUS
  <2> QED BY <2>1, <2>2 DEF Flattens
<1>3. ASSUME NEW ss \in Seq(Seq(S)), NEW s \in Seq(S)
      PROVE  FlattenSeq(Append(ss, s)) = Cat(FlattenSeq(ss), s)
  <2>0. PICK Q : Q = Seq(S)
    OBVIOUS
  <2>1. PICK n \in Nat : n = Len(ss)
    OBVIOUS
  <2>2. PICK t \in Seq(Q) : t = Append(ss, s)
    BY <2>0, AppendIs
  <2>3. PICK m \in Nat : m = n + 1
    BY <2>1
  <2>4. Len(t) = m /\ t[m] = s /\ \A i \in 1..n : t[i] = ss[i]
    BY <2>0, <2>1, <2>2, <2>3, AppendIs
  <2>5. PICK g \in [0..Len(ss) -> Seq(S)] : Flattens(g, ss)
    BY FlattenRec
  <2>6. PICK h \in [0..Len(t) -> Seq(S)] : Flattens(h, t)
    BY <2>0, FlattenRec
  <2>7. g[0] = <<>> /\ FlattenSeq(ss) = g[n] /\ \A k \in 1..n : g[k] = Cat(g[k - 1], ss[k])
    BY <2>1, <2>5 DEF Flattens
  <2>8. h[0] = <<>> /\ FlattenSeq(t) = h[m] /\ \A k \in 1..m : h[k] = Cat(h[k - 1], t[k])
    BY <2>4, <2>6 DEF Flattens
  <2> DEFINE T == {k \in 0..n : g[k] = h[k]}
  <2>9. 0 \in T
    BY <2>7, <2>8
  <2>10. ASSUME NEW k \in 1..n, k - 1 \in T PROVE k \in T
    <3>1. g[k - 1] = h[k - 1]
      BY <2>10
    <3>2. k \in 1..m
      BY <2>3
    <3>3. g[k] = h[k]
      BY <2>4, <2>7, <2>8, <3>1, <3>2
    <3> QED BY <3>3
  <2>11. g[n] = h[n]
    <3> HIDE DEF T
    <3>1. \A k \in 0..n : k \in T
      BY <2>9, <2>10, UpTo
    <3> QED BY <3>1 DEF T
  <2>12. m \in 1..m /\ m - 1 = n
    BY <2>3
  <2> QED BY <2>2, <2>4, <2>7, <2>8, <2>11, <2>12
<1> QED BY <1>1, <1>2, <1>3

LEMMA FlattenCat ==
  ASSUME NEW S, NEW ss \in Seq(Seq(S)), NEW tt \in Seq(Seq(S))
  PROVE  FlattenSeq(ss \o tt) = FlattenSeq(ss) \o FlattenSeq(tt)
<1>0. PICK Q : Q = Seq(S)
  OBVIOUS
<1> DEFINE T == {u \in Seq(Q) : FlattenSeq(ss \o u) = FlattenSeq(ss) \o FlattenSeq(u)}
<1>1. PICK all \in Seq(S) : all = FlattenSeq(ss)
  BY FlattenIs
<1>2. <<>> \in T
  <2>1. ss \o <<>> = ss /\ all \o <<>> = all
    BY <1>1, ConcatEmptySeq
  <2>2. FlattenSeq(<<>>) = <<>> /\ <<>> \in Seq(Q)
    BY FlattenIs, EmptySeq
  <2> QED BY <1>1, <2>1, <2>2
<1>3. ASSUME NEW u \in Seq(Q), NEW e \in Q, u \in T PROVE Append(u, e) \in T
  <2>1. ss \in Seq(Q)
    BY <1>0
  <2>2. /\ Append(u, e) \in Seq(Q) /\ ss \o u \in Seq(Q)
        /\ ss \o Append(u, e) = Append(ss \o u, e)
    BY <2>1, AppendProperties, ConcatProperties, AppendCat
  <2>3. PICK a \in Seq(S) : a = FlattenSeq(u)
    BY <1>0, FlattenIs
  <2>4. FlattenSeq(ss \o u) = all \o a
    BY <1>1, <1>3, <2>3
  <2>5. /\ FlattenSeq(Append(u, e)) = a \o e
        /\ FlattenSeq(Append(ss \o u, e)) = (all \o a) \o e
    BY <1>0, <2>2, <2>3, <2>4, FlattenIs DEF Cat
  <2>6. (all \o a) \o e = all \o (a \o e)
    BY <1>0, ConcatAssociative
  <2> QED BY <1>1, <2>2, <2>5, <2>6
<1>4. \A u \in Seq(Q) : u \in T
  <2> HIDE DEF T
  <2> QED BY <1>2, <1>3, ByAppending
<1> QED BY <1>0, <1>4

(***************************************************************************)
(* The letters of a text.                                                  *)
(***************************************************************************)
Lowered(s) == [i \in 1..Len(s) |-> Lower[s[i]]]

LEMMA LoweredIs ==
  ASSUME NEW s \in Seq(Letter)
  PROVE  /\ Lowered(s) \in Seq(Letter) /\ Len(Lowered(s)) = Len(s)
         /\ \A i \in 1..Len(s) : Lowered(s)[i] = Lower[s[i]]
<1>1. PICK n \in Nat : n = Len(s) /\ \A i \in 1..n : s[i] \in Letter
  OBVIOUS
<1>2. PICK t : t = Lowered(s) /\ t = [i \in 1..n |-> Lower[s[i]]]
  BY <1>1 DEF Lowered
<1>3. t \in [1..n -> Letter]
  BY <1>1, <1>2, SyllabifierAssumption
<1>4. t \in Seq(Letter) /\ Len(t) = n
  BY <1>3
<1> QED BY <1>1, <1>2, <1>4

LEMMA LoweredCat ==
  ASSUME NEW s \in Seq(Letter), NEW t \in Seq(Letter)
  PROVE  Lowered(s \o t) = Lowered(s) \o Lowered(t)
<1>1. PICK m \in Nat, n \in Nat : m = Len(s) /\ n = Len(t)
  OBVIOUS
<1>2. PICK a \in Seq(Letter) : /\ a = s \o t /\ Len(a) = m + n
                               /\ \A i \in 1..m : a[i] = s[i]
                               /\ \A i \in 1..n : a[m + i] = t[i]
  <2>1. /\ s \o t \in Seq(Letter) /\ Len(s \o t) = m + n
        /\ \A i \in 1..m : (s \o t)[i] = s[i]
        /\ \A i \in 1..n : (s \o t)[m + i] = t[i]
    BY <1>1, CatIs
  <2> QED BY <2>1
<1>3. PICK b \in Seq(Letter) : b = Lowered(s) /\ Len(b) = m /\ \A i \in 1..m : b[i] = Lower[s[i]]
  <2>1. Lowered(s) \in Seq(Letter) /\ Len(Lowered(s)) = m /\ \A i \in 1..m : Lowered(s)[i] = Lower[s[i]]
    BY <1>1, LoweredIs
  <2> QED BY <2>1
<1>4. PICK c \in Seq(Letter) : c = Lowered(t) /\ Len(c) = n /\ \A i \in 1..n : c[i] = Lower[t[i]]
  <2>1. Lowered(t) \in Seq(Letter) /\ Len(Lowered(t)) = n /\ \A i \in 1..n : Lowered(t)[i] = Lower[t[i]]
    BY <1>1, LoweredIs
  <2> QED BY <2>1
<1>5. PICK d \in Seq(Letter) : /\ d = b \o c /\ Len(d) = m + n
                               /\ \A i \in 1..m : d[i] = b[i]
                               /\ \A i \in 1..n : d[m + i] = c[i]
  <2>1. /\ b \o c \in Seq(Letter) /\ Len(b \o c) = m + n
        /\ \A i \in 1..m : (b \o c)[i] = b[i]
        /\ \A i \in 1..n : (b \o c)[m + i] = c[i]
    <3>1. m = Len(b) /\ n = Len(c)
      BY <1>3, <1>4
    <3> QED BY ONLY b \in Seq(Letter), c \in Seq(Letter), <3>1, CatIs
  <2> QED BY <2>1
<1>6. PICK e \in Seq(Letter) : e = Lowered(a) /\ Len(e) = m + n /\ \A i \in 1..(m + n) : e[i] = Lower[a[i]]
  <2>1. /\ Lowered(a) \in Seq(Letter) /\ Len(Lowered(a)) = m + n
        /\ \A i \in 1..(m + n) : Lowered(a)[i] = Lower[a[i]]
    <3>1. PICK l : l = m + n /\ Len(a) = l
      BY <1>2
    <3>2. Lowered(a) \in Seq(Letter) /\ Len(Lowered(a)) = l /\ \A i \in 1..l : Lowered(a)[i] = Lower[a[i]]
      BY <3>1, LoweredIs
    <3> QED BY <3>1, <3>2
  <2> QED BY <2>1
<1>7. ASSUME NEW i \in 1..(m + n) PROVE e[i] = d[i]
  <2>1. CASE i \in 1..m
    <3>1. d[i] = b[i] /\ a[i] = s[i] /\ e[i] = Lower[a[i]] /\ b[i] = Lower[s[i]]
      BY <1>2, <1>3, <1>5, <1>6, <2>1
    <3> QED BY <3>1
  <2>2. CASE i \notin 1..m
    <3>1. PICK k \in 1..n : i = m + k
      <4>1. i - m \in 1..n /\ i = m + (i - m)
        BY <2>2
      <4> QED BY <4>1
    <3>2. d[i] = c[k] /\ a[i] = t[k] /\ e[i] = Lower[a[i]] /\ c[k] = Lower[t[k]]
      BY <1>2, <1>4, <1>5, <1>6, <3>1
    <3> QED BY <3>2
  <2> QED BY <2>1, <2>2
<1>8. e = d
  BY <1>5, <1>6, <1>7, SeqEqual
<1> QED BY <1>2, <1>3, <1>4, <1>5, <1>6, <1>8

LEMMA LettersIs ==
  ASSUME NEW S, NEW text \in Seq(S)
  PROVE  /\ Only(text, Letter) \in Seq(Letter)
         /\ LettersOf(text) = Lowered(Only(text, Letter))
         /\ LettersOf(text) \in Seq(Letter)
<1>1. Only(text, Letter) \in Seq(Letter)
  <2>1. Only(text, Letter) \in Seq(S \cap Letter)
    BY OnlyWithin
  <2> QED BY <2>1, SeqMonotonic
<1>2. LettersOf(text) = Lowered(Only(text, Letter))
  BY DEF LettersOf, Lowered
<1> QED BY <1>1, <1>2, LoweredIs

LEMMA LettersCat ==
  ASSUME NEW S, NEW s \in Seq(S), NEW t \in Seq(S)
  PROVE  LettersOf(s \o t) = LettersOf(s) \o LettersOf(t)
<1>1. s \o t \in Seq(S)
  BY ConcatProperties
<1>2. PICK a \in Seq(Letter) : a = Only(s, Letter) /\ LettersOf(s) = Lowered(a)
  BY LettersIs
<1>3. PICK b \in Seq(Letter) : b = Only(t, Letter) /\ LettersOf(t) = Lowered(b)
  BY LettersIs
<1>4. Only(s \o t, Letter) = a \o b
  <2>1. Only(s \o t, Letter) = Only(s, Letter) \o Only(t, Letter)
    BY OnlyCat
  <2> QED BY <1>2, <1>3, <2>1
<1>5. LettersOf(s \o t) = Lowered(a \o b)
  BY <1>1, <1>4, LettersIs
<1> QED BY <1>2, <1>3, <1>5, LoweredCat

LEMMA NoLetters ==
  /\ LettersOf(<<>>) = <<>>
  /\ \A c : c \notin Letter => LettersOf(<<c>>) = <<>>
<1>1. Lowered(<<>>) = <<>>
  <2>1. PICK z \in Seq(Letter) : z = <<>> /\ Len(z) = 0
    BY EmptySeq
  <2>2. Lowered(z) \in Seq(Letter) /\ Len(Lowered(z)) = 0
    BY <2>1, LoweredIs
  <2> QED BY <2>1, <2>2, EmptySeq
<1>2. LettersOf(<<>>) = <<>>
  <2>1. <<>> \in Seq(Letter) /\ Only(<<>>, Letter) = <<>>
    BY EmptySeq, OnlyIs
  <2> QED BY <1>1, <2>1 DEF LettersOf, Lowered
<1>3. ASSUME NEW c, c \notin Letter PROVE LettersOf(<<c>>) = <<>>
  <2>1. PICK S : S = {c}
    OBVIOUS
  <2>2. PICK z \in Seq(S) : z = <<>>
    BY EmptySeq
  <2>3. c \in S /\ Append(z, c) = <<c>>
    BY <2>1, <2>2
  <2>4. Only(Append(z, c), Letter) = Kept(Letter, Only(z, Letter), c)
    BY <2>3, OnlyMore
  <2>5. Only(<<c>>, Letter) = <<>>
    BY <1>3, <2>2, <2>3, <2>4, OnlyIs DEF Kept
  <2> QED BY <1>1, <2>5 DEF LettersOf, Lowered
<1> QED BY <1>2, <1>3

(***************************************************************************)
(* The positions of the vowels.                                            *)
(***************************************************************************)
Numbers(n) == [k \in 1..n |-> k - 1]

(* v has the numbers below n that are of a kind, in order.                 *)
Ascends(v, kind, n) ==
  /\ v \in Seq(Int)
  /\ \A i \in 1..Len(v) : v[i] \in kind /\ 0 <= v[i] /\ v[i] < n
  /\ \A i, j \in 1..Len(v) : i < j => v[i] < v[j]
  /\ \A x \in 0..(n - 1) : x \in kind => \E i \in 1..Len(v) : v[i] = x

LEMMA Ascending ==
  ASSUME NEW kind, NEW n \in Nat
  PROVE  Ascends(Only(Numbers(n), kind), kind, n)
<1> DEFINE T == {m \in 0..n : Ascends(Only(Numbers(m), kind), kind, m)}
<1>1. 0 \in T
  <2>1. PICK z \in Seq(Int) : z = <<>> /\ Len(z) = 0
    BY EmptySeq
  <2>2. Numbers(0) = z
    <3>1. PICK q : q = Numbers(0)
      OBVIOUS
    <3>2. q \in [1..0 -> Int]
      BY <3>1 DEF Numbers
    <3>3. q \in Seq(Int) /\ Len(q) = 0
      BY <3>2
    <3> QED BY <2>1, <3>1, <3>3, EmptySeq
  <2>3. Only(Numbers(0), kind) = z
    BY <2>1, <2>2, OnlyIs
  <2>4. /\ \A i \in 1..Len(z) : z[i] \in kind /\ 0 <= z[i] /\ z[i] < 0
        /\ \A i, j \in 1..Len(z) : i < j => z[i] < z[j]
        /\ \A x \in 0..(0 - 1) : x \in kind => \E i \in 1..Len(z) : z[i] = x
    BY <2>1
  <2>5. Ascends(z, kind, 0)
    BY <2>4 DEF Ascends
  <2> QED BY <2>3, <2>5
<1>2. ASSUME NEW m \in 1..n, m - 1 \in T PROVE m \in T
  <2>1. PICK l \in Nat, q \in Seq(Int) : l = m - 1 /\ q = Numbers(l) /\ Len(q) = l
    <3>1. Numbers(m - 1) \in [1..(m - 1) -> Int]
      BY DEF Numbers
    <3>2. Numbers(m - 1) \in Seq(Int) /\ Len(Numbers(m - 1)) = m - 1
      BY <3>1
    <3> QED BY <3>2
  <2>2. Numbers(m) = Append(q, l)
    <3>1. PICK r : r = Numbers(m)
      OBVIOUS
    <3>2. r \in [1..m -> Int] /\ \A k \in 1..m : r[k] = k - 1
      BY <3>1 DEF Numbers
    <3>3. r \in Seq(Int) /\ Len(r) = m
      BY <3>2
    <3>0. l + 1 = m /\ l \in Int
      BY <2>1
    <3>4. PICK t \in Seq(Int) : t = Append(q, l) /\ Len(t) = m /\ t[m] = l /\ \A i \in 1..l : t[i] = q[i]
      <4>1. /\ Append(q, l) \in Seq(Int) /\ Len(Append(q, l)) = l + 1 /\ Append(q, l)[l + 1] = l
            /\ \A i \in 1..l : Append(q, l)[i] = q[i]
        BY <2>1, <3>0, AppendIs
      <4> QED BY <3>0, <4>1
    <3>5. \A k \in 1..l : q[k] = k - 1
      BY <2>1 DEF Numbers
    <3>6. \A k \in 1..m : t[k] = r[k]
      BY <2>1, <3>2, <3>4, <3>5
    <3>7. r = t
      BY <3>3, <3>4, <3>6, SeqEqual
    <3> QED BY <3>1, <3>4, <3>7
  <2>3. PICK v \in Seq(Int) : v = Only(q, kind)
    BY OnlyIs
  <2>4. Ascends(v, kind, l)
    BY <1>2, <2>1, <2>3
  <2>5. Only(Numbers(m), kind) = Kept(kind, v, l)
    <3>1. l \in Int
      OBVIOUS
    <3>2. Only(Append(q, l), kind) = Kept(kind, Only(q, kind), l)
      BY <3>1, OnlyMore
    <3> QED BY <2>2, <2>3, <3>2
  <2>6. CASE l \notin kind
    <3>1. Only(Numbers(m), kind) = v
      BY <2>5, <2>6 DEF Kept
    <3>2. \A x \in 0..(m - 1) : x \in kind => x \in 0..(l - 1)
      BY <2>1, <2>6
    <3>3. Ascends(v, kind, m)
      BY <2>1, <2>4, <3>2 DEF Ascends
    <3> QED BY <3>1, <3>3
  <2>7. CASE l \in kind
    <3>0. PICK h \in Nat : h = Len(v)
      OBVIOUS
    <3>1. PICK t \in Seq(Int) : t = Append(v, l) /\ Len(t) = h + 1 /\ t[h + 1] = l /\ \A i \in 1..h : t[i] = v[i]
      <4>1. /\ Append(v, l) \in Seq(Int) /\ Len(Append(v, l)) = h + 1 /\ Append(v, l)[h + 1] = l
            /\ \A i \in 1..h : Append(v, l)[i] = v[i]
        BY <3>0, AppendIs
      <4> QED BY <4>1
    <3>2. Only(Numbers(m), kind) = t
      BY <2>5, <2>7, <3>1 DEF Kept
    <3>3. /\ \A i \in 1..h : v[i] \in kind /\ 0 <= v[i] /\ v[i] < l /\ v[i] \in Int
          /\ \A i, j \in 1..h : i < j => v[i] < v[j]
          /\ \A x \in 0..(l - 1) : x \in kind => \E i \in 1..h : v[i] = x
      BY <2>4, <3>0 DEF Ascends
    <3>4. \A i \in 1..(h + 1) : t[i] \in kind /\ 0 <= t[i] /\ t[i] < m
      BY <2>1, <2>7, <3>1, <3>3
    <3>5. ASSUME NEW i \in 1..(h + 1), NEW j \in 1..(h + 1), i < j PROVE t[i] < t[j]
      <4>1. i \in 1..h /\ t[i] = v[i]
        BY <3>1, <3>5
      <4>2. CASE j = h + 1
        BY <3>1, <3>3, <4>1, <4>2
      <4>3. CASE j # h + 1
        <5>1. j \in 1..h /\ t[j] = v[j]
          BY <3>1, <4>3
        <5> QED BY <3>3, <3>5, <4>1, <5>1
      <4> QED BY <4>2, <4>3
    <3>6. ASSUME NEW x \in 0..(m - 1), x \in kind PROVE \E i \in 1..(h + 1) : t[i] = x
      <4>1. CASE x = l
        BY <3>1, <4>1
      <4>2. CASE x # l
        <5>1. x \in 0..(l - 1)
          BY <2>1, <4>2
        <5>2. PICK i \in 1..h : v[i] = x
          BY <3>3, <3>6, <5>1
        <5> QED BY <3>1, <5>2
      <4> QED BY <4>1, <4>2
    <3>7. Ascends(t, kind, m)
      BY <3>1, <3>4, <3>5, <3>6 DEF Ascends
    <3> QED BY <3>2, <3>7
  <2> QED BY <2>6, <2>7
<1>3. \A m \in 0..n : m \in T
  <2> HIDE DEF T
  <2> QED BY <1>1, <1>2, UpTo
<1> QED BY <1>3

(* Neighbouring vowels, and what is between them.                          *)
Neighbours(w, u, x) ==
  /\ u \in 0..(Len(w) - 1) /\ x \in 0..(Len(w) - 1) /\ u < x
  /\ VowelAt(w, u) /\ VowelAt(w, x)
  /\ \A y \in Int : u < y /\ y < x => ~VowelAt(w, y)

Marks(v, w) ==
  /\ v \in Seq(Int)
  /\ \A i \in 1..Len(v) : v[i] \in 0..(Len(w) - 1) /\ VowelAt(w, v[i])
  /\ \A i, j \in 1..Len(v) : i < j => v[i] < v[j]
  /\ \A x \in 0..(Len(w) - 1) : VowelAt(w, x) => \E i \in 1..Len(v) : v[i] = x

LEMMA VPosIs ==
  ASSUME NEW w \in Seq(Letter)
  PROVE  Marks(VPos(w), w)
<1>0. PICK n, v, l : n = Len(w) /\ v = VPos(w) /\ l = Len(v)
  OBVIOUS
<1>1. n \in Nat
  BY <1>0
<1>2. PICK K : K = {i \in 0..(n - 1) : VowelAt(w, i)}
  OBVIOUS
<1>3. v = Only(Numbers(n), K)
  BY <1>0, <1>2 DEF VPos, Numbers
<1>4. Ascends(v, K, n)
  BY <1>1, <1>3, Ascending
<1>5. /\ v \in Seq(Int)
      /\ \A i \in 1..l : v[i] \in K
      /\ \A i, j \in 1..l : i < j => v[i] < v[j]
      /\ \A x \in 0..(n - 1) : x \in K => \E i \in 1..l : v[i] = x
  BY <1>0, <1>4 DEF Ascends
<1>6. \A i \in 1..l : v[i] \in 0..(n - 1) /\ VowelAt(w, v[i])
  BY <1>2, <1>5
<1>7. \A x \in 0..(n - 1) : VowelAt(w, x) => \E i \in 1..l : v[i] = x
  BY <1>2, <1>5
<1> QED BY <1>0, <1>5, <1>6, <1>7 DEF Marks

LEMMA NeighboursIn ==
  ASSUME NEW w \in Seq(Letter), NEW k \in 1..(Len(VPos(w)) - 1)
  PROVE  Neighbours(w, VPos(w)[k], VPos(w)[k + 1])
<1>1. PICK n, v, l : n = Len(w) /\ v = VPos(w) /\ l = Len(v)
  OBVIOUS
<1>2. /\ n \in Nat /\ l \in Nat
      /\ \A i \in 1..l : v[i] \in 0..(n - 1) /\ VowelAt(w, v[i])
      /\ \A i, j \in 1..l : i < j => v[i] < v[j]
      /\ \A x \in 0..(n - 1) : VowelAt(w, x) => \E i \in 1..l : v[i] = x
  <2>1. Marks(v, w) /\ v \in Seq(Int)
    BY <1>1, VPosIs DEF Marks
  <2> QED BY <1>1, <2>1 DEF Marks
<1>3. k \in 1..l /\ k + 1 \in 1..l /\ k < k + 1
  BY <1>1, <1>2
<1>4. v[k] \in 0..(n - 1) /\ v[k + 1] \in 0..(n - 1) /\ v[k] < v[k + 1] /\ VowelAt(w, v[k]) /\ VowelAt(w, v[k + 1])
  BY <1>2, <1>3
<1>5. ASSUME NEW y \in Int, v[k] < y, y < v[k + 1], VowelAt(w, y) PROVE FALSE
  <2>1. y \in 0..(n - 1)
    BY <1>2, <1>4, <1>5
  <2>2. PICK i \in 1..l : v[i] = y
    BY <1>2, <1>5, <2>1
  <2>3. ~(i < k) /\ i # k
    BY <1>2, <1>3, <1>4, <1>5, <2>2
  <2>4. ~(k + 1 < i) /\ i # k + 1
    BY <1>2, <1>3, <1>4, <1>5, <2>2
  <2> QED BY <1>2, <1>3, <2>3, <2>4
<1> QED BY <1>1, <1>4, <1>5 DEF Neighbours

(***************************************************************************)
(* One break.                                                              *)
(***************************************************************************)
RunTo(w, s, x) ==
  /\ \A y \in s..x : VowelAt(w, y)
  /\ s = 0 \/ ~VowelAt(w, s - 1)

(* Between vowels with consonants between them it lies in front of the     *)
(* second, or earlier; where vowels touch it lies in their run.            *)
Splits(u, x, b) == u + 1 < x /\ u < b /\ b <= x

Touches(w, u, x, b) ==
  /\ x = u + 1
  /\ \E s \in 0..u : RunTo(w, s, x) /\ b = x - ((x - s) \div 2)

DigraphKept(w, b) ==
  <<w[b], w[b + 1]>> \in Digraphs => b > 1 /\ <<w[b - 1], w[b]>> \in Digraphs

LEMMA NucEndIs ==
  ASSUME NEW w \in Seq(Letter), NEW k, Neighbours(w, VPos(w)[k], VPos(w)[k + 1])
  PROVE  NucEnd(w, k) = VPos(w)[k]
<1>1. PICK u, x, n : u = VPos(w)[k] /\ x = VPos(w)[k + 1] /\ n = Len(w)
  OBVIOUS
<1>2. /\ n \in Nat /\ u \in 0..(n - 1) /\ x \in 0..(n - 1) /\ u < x /\ VowelAt(w, u)
      /\ \A y \in Int : u < y /\ y < x => ~VowelAt(w, y)
  BY <1>1 DEF Neighbours
<1>3. {i \in u..(x - 1) : \A j \in u..i : VowelAt(w, j)} = {u}
  <2>1. ASSUME NEW i \in u..(x - 1), \A j \in u..i : VowelAt(w, j) PROVE i = u
    <3>1. i \in u..i /\ i \in Int
      BY <1>2
    <3>2. VowelAt(w, i)
      BY <2>1, <3>1
    <3> QED BY <1>2, <3>1, <3>2
  <2>2. u \in u..(x - 1) /\ \A j \in u..u : VowelAt(w, j)
    BY <1>2
  <2> QED BY <2>1, <2>2
<1>4. NucEnd(w, k) = Max({u})
  BY <1>1, <1>3 DEF NucEnd
<1>5. Max({u}) = u
  BY <1>2 DEF Max
<1> QED BY <1>1, <1>4, <1>5

LEMMA NextNucIs ==
  ASSUME NEW w \in Seq(Letter), NEW k, NEW u, NEW x, u = VPos(w)[k], x = VPos(w)[k + 1], Neighbours(w, u, x)
  PROVE  \/ u + 1 < x /\ NextNuc(w, k) = x
         \/ x = u + 1 /\ NextNuc(w, k) \in 0..u /\ RunTo(w, NextNuc(w, k), x)
<1>1. PICK n \in Nat : n = Len(w)
  OBVIOUS
<1>2. /\ u \in 0..(n - 1) /\ x \in 0..(n - 1) /\ u < x /\ VowelAt(w, u) /\ VowelAt(w, x)
      /\ \A y \in Int : u < y /\ y < x => ~VowelAt(w, y)
  BY <1>1 DEF Neighbours
<1>3. PICK R : R = {i \in 0..x : \A j \in i..x : VowelAt(w, j)}
  OBVIOUS
<1>4. NextNuc(w, k) = Min(R)
  BY <1>3 DEF NextNuc
<1>5. CASE u + 1 < x
  <2>1. ASSUME NEW i \in 0..x, \A j \in i..x : VowelAt(w, j) PROVE i = x
    <3>1. x - 1 \in Int /\ ~VowelAt(w, x - 1)
      BY <1>2, <1>5
    <3>2. x - 1 \notin i..x
      BY <2>1, <3>1
    <3> QED BY <1>2, <3>2
  <2>2. x \in 0..x /\ \A j \in x..x : VowelAt(w, j)
    BY <1>2
  <2>3. R = {x}
    BY <1>3, <2>1, <2>2
  <2>4. Min({x}) = x
    BY <1>2 DEF Min
  <2> QED BY <1>4, <1>5, <2>3, <2>4
<1>6. CASE ~(u + 1 < x)
  <2>1. x = u + 1
    BY <1>2, <1>6
  <2>2. u \in R
    <3>1. u \in 0..x /\ \A j \in u..x : j = u \/ j = x
      BY <1>2, <2>1
    <3> QED BY <1>2, <1>3, <3>1
  <2>3. R \subseteq Nat
    BY <1>2, <1>3
  <2>4. PICK s \in R : \A i \in R : s <= i
    BY <2>2, <2>3, LeastNatural
  <2>5. Min(R) = s
    <3>1. \A i \in R : (\A j \in R : i <= j) => i = s
      BY <2>3, <2>4
    <3> QED BY <2>4, <3>1 DEF Min
  <2>6. s \in 0..u /\ \A y \in s..x : VowelAt(w, y)
    BY <1>2, <1>3, <2>2, <2>3, <2>4
  <2>7. s = 0 \/ ~VowelAt(w, s - 1)
    <3> SUFFICES ASSUME s # 0, VowelAt(w, s - 1) PROVE FALSE
      OBVIOUS
    <3>1. s - 1 \in 0..x /\ \A j \in (s - 1)..x : j = s - 1 \/ j \in s..x
      BY <1>2, <2>6
    <3>2. \A j \in (s - 1)..x : VowelAt(w, j)
      BY <2>6, <3>1
    <3>3. s - 1 \in R
      BY <1>3, <3>1, <3>2
    <3> QED BY <2>4, <2>6, <3>3
  <2> QED BY <1>4, <2>1, <2>5, <2>6, <2>7 DEF RunTo
<1> QED BY <1>5, <1>6

LEMMA Thirds ==
  /\ \A c \in Nat : c >= 2 => c \div 2 >= 1 /\ c \div 2 < c
  /\ \A c \in Nat : c >= 1 => c \div 2 >= 0 /\ c \div 2 < c
OBVIOUS

LEMMA BreakNext ==
  ASSUME NEW w, NEW k, NextNuc(w, k) - NucEnd(w, k) - 1 = 1, NucEnd(w, k) + 1 \in 1..(Len(w) - 1)
  PROVE  BreakOf(w, k) = <<NucEnd(w, k) + 1>>
BY DEF BreakOf

LEMMA BreakHalf ==
  ASSUME NEW w, NEW k, NEW c, c = NextNuc(w, k) - NucEnd(w, k) - 1, c # 0, c # 1,
         NEW b, b = PastDigraph(w, NucEnd(w, k) + 1 + Half(c)), b \in 1..(Len(w) - 1)
  PROVE  BreakOf(w, k) = <<b>>
BY DEF BreakOf

(* The k-th pair of neighbouring vowels.                                   *)
Pair(w, k, u, x) == k \in 1..(Len(VPos(w)) - 1) /\ u = VPos(w)[k] /\ x = VPos(w)[k + 1]

LEMMA BreakIs ==
  ASSUME NEW w \in Seq(Letter), NEW k, NEW u \in Int, NEW x \in Int, Pair(w, k, u, x)
  PROVE  \E b \in 1..(Len(w) - 1) : /\ BreakOf(w, k) = <<b>> /\ DigraphKept(w, b)
                                    /\ Splits(u, x, b) \/ Touches(w, u, x, b)
<1>1. PICK n \in Nat : n = Len(w)
  OBVIOUS
<1>2. Neighbours(w, u, x)
  BY NeighboursIn DEF Pair
<1>3. u \in 0..(n - 1) /\ x \in 0..(n - 1) /\ u < x /\ VowelAt(w, u) /\ VowelAt(w, x)
  BY <1>1, <1>2 DEF Neighbours
<1>4. NucEnd(w, k) = u
  BY <1>2, NucEndIs DEF Pair
<1>5. ASSUME NEW b \in 1..(n - 1), VowelAt(w, b - 1) PROVE <<w[b], w[b + 1]>> \notin Digraphs
  <2>1. w[b] \in Vowels
    BY <1>5 DEF VowelAt
  <2> QED BY <2>1, SyllabifierAssumption
<1>0. PICK N \in Nat : N = n - 1
  <2>1. n - 1 \in Nat
    BY <1>3
  <2> QED BY <2>1
<1>6. CASE u + 1 < x /\ NextNuc(w, k) = x
  <2>0. u \in 0..N /\ x \in 0..N /\ u + 1 < x
    BY <1>0, <1>3, <1>6
  <2>1. PICK c \in Nat : c = x - u - 1 /\ c >= 1
    <3>1. x - u - 1 \in Nat /\ x - u - 1 >= 1
      BY <2>0
    <3> QED BY <3>1
  <2>2. c = NextNuc(w, k) - NucEnd(w, k) - 1 /\ c # 0
    BY <1>4, <1>6, <2>1
  <2>3. CASE c = 1
    <3>1. u + 1 \in 1..N /\ (u + 1) - 1 = u
      BY <2>0
    <3>2. BreakOf(w, k) = <<u + 1>>
      <4>1. u + 1 \in 1..(Len(w) - 1) /\ u + 1 = NucEnd(w, k) + 1
        BY <1>0, <1>1, <1>4, <3>1
      <4> QED BY <2>2, <2>3, <4>1, BreakNext
    <3>3. <<w[u + 1], w[(u + 1) + 1]>> \notin Digraphs
      BY <1>0, <1>3, <1>5, <3>1
    <3>4. Splits(u, x, u + 1)
      BY <2>0 DEF Splits
    <3> QED BY <1>0, <1>1, <3>1, <3>2, <3>3, <3>4 DEF DigraphKept
  <2>4. CASE c # 1
    <3>1. PICK h \in Int : h = Half(c) /\ h >= 1 /\ h < c
      <4>1. Half(c) = c \div 2
        BY DEF Half
      <4>2. c >= 2
        BY <2>1, <2>4
      <4>3. PICK h \in Int : h = c \div 2 /\ h >= 1 /\ h < c
        BY <4>2, Thirds
      <4> QED BY <4>1, <4>3
    <3>2. PICK mid \in Nat : mid = u + 1 + h /\ u + 1 < mid /\ mid < x
      <4>1. h >= 1 /\ h < c
        BY <3>1
      <4>2. u + 1 + h \in Nat /\ u + 1 < u + 1 + h /\ u + 1 + h < x
        BY <2>0, <2>1, <4>1
      <4> QED BY <4>2
    <3>3. mid \in 1..N /\ mid + 1 \in 1..N /\ (mid + 1) - 1 = mid /\ mid + 1 > 1
      BY <2>0, <3>2
    <3>4. mid \in 1..(Len(w) - 1) /\ mid + 1 \in 1..(Len(w) - 1)
      BY <1>0, <1>1, <3>3
    <3>5. NucEnd(w, k) + 1 + Half(c) = mid
      BY <1>4, <3>1, <3>2
    <3>6. CASE <<w[mid], w[mid + 1]>> \in Digraphs
      <4>1. PastDigraph(w, mid) = mid + 1
        BY <3>4, <3>6 DEF PastDigraph
      <4>2. BreakOf(w, k) = <<mid + 1>>
        BY <2>2, <2>4, <3>4, <3>5, <4>1, BreakHalf
      <4>3. DigraphKept(w, mid + 1)
        BY <3>3, <3>6 DEF DigraphKept
      <4>4. Splits(u, x, mid + 1)
        BY <2>0, <3>2 DEF Splits
      <4> QED BY <3>4, <4>2, <4>3, <4>4
    <3>7. CASE <<w[mid], w[mid + 1]>> \notin Digraphs
      <4>1. PastDigraph(w, mid) = mid
        BY <3>7 DEF PastDigraph
      <4>2. BreakOf(w, k) = <<mid>>
        <5>1. PastDigraph(w, NucEnd(w, k) + 1 + Half(c)) = mid /\ mid \in 1..(Len(w) - 1)
          BY <3>4, <3>5, <4>1
        <5> QED BY ONLY <2>2, <2>4, <5>1, BreakHalf
      <4>3. DigraphKept(w, mid)
        BY <3>7 DEF DigraphKept
      <4>4. Splits(u, x, mid)
        BY <2>0, <3>2 DEF Splits
      <4> QED BY <3>4, <4>2, <4>3, <4>4
    <3> QED BY <3>6, <3>7
  <2> QED BY <2>3, <2>4
<1>7. CASE x = u + 1 /\ NextNuc(w, k) \in 0..u /\ RunTo(w, NextNuc(w, k), x)
  <2>0. u \in 0..N /\ x \in 0..N /\ x = u + 1
    BY <1>0, <1>3, <1>7
  <2>1. PICK s \in 0..u : s = NextNuc(w, k) /\ RunTo(w, s, x)
    BY <1>7
  <2>2. PICK d \in Nat : d = x - s /\ d >= 1
    <3>1. x - s \in Nat /\ x - s >= 1
      BY <2>0
    <3> QED BY <3>1
  <2>3. PICK e \in Int : e = s - u - 1 /\ e < 0 /\ -e = d
    <3>1. PICK e \in Int : e = s - u - 1
      BY <2>0
    <3>2. e < 0 /\ -e = d
      BY <2>0, <2>2, <3>1
    <3> QED BY <3>1, <3>2
  <2>4. e = NextNuc(w, k) - NucEnd(w, k) - 1 /\ e # 0 /\ e # 1
    BY <1>4, <2>1, <2>3
  <2>5. PICK h \in Nat : h = d \div 2 /\ h < d
    <3>1. d \div 2 \in Nat /\ d \div 2 < d
      BY <2>2, Thirds
    <3> QED BY <3>1
  <2>6. Half(e) = -h
    BY <2>3, <2>5 DEF Half
  <2>7. PICK b \in Nat : b = x - h /\ s < b /\ b <= x
    <3>1. h < d /\ d = x - s /\ h \in Nat /\ s \in Int /\ s >= 0
      BY <2>2, <2>5
    <3>2. x - h \in Nat /\ s < x - h /\ x - h <= x
      BY <3>1
    <3> QED BY <3>2
  <2>8. u + 1 + (-h) = b
    <3>1. b = x - h
      BY <2>7
    <3> QED BY <2>0, <3>1
  <2>9. NucEnd(w, k) + 1 + Half(e) = b
    BY <1>4, <2>6, <2>8
  <2>10. b \in 1..N /\ b - 1 \in s..x
    BY <2>0, <2>7
  <2>11. <<w[b], w[b + 1]>> \notin Digraphs
    <3>1. VowelAt(w, b - 1)
      BY <2>1, <2>10 DEF RunTo
    <3> QED BY <1>0, <1>5, <2>10, <3>1
  <2>12. PastDigraph(w, b) = b
    BY <2>11 DEF PastDigraph
  <2>13. BreakOf(w, k) = <<b>>
    <3>1. b \in 1..(Len(w) - 1)
      BY <1>0, <1>1, <2>10
    <3> QED BY <2>4, <2>9, <2>12, <3>1, BreakHalf
  <2>14. Touches(w, u, x, b)
    <3>1. b = x - ((x - s) \div 2)
      BY <2>2, <2>5, <2>7
    <3> QED BY <2>0, <2>1, <3>1 DEF Touches
  <2> QED BY <1>0, <1>1, <2>10, <2>11, <2>13, <2>14 DEF DigraphKept
<1>8. \/ u + 1 < x /\ NextNuc(w, k) = x
      \/ x = u + 1 /\ NextNuc(w, k) \in 0..u /\ RunTo(w, NextNuc(w, k), x)
  BY <1>2, NextNucIs DEF Pair
<1> QED BY <1>6, <1>7, <1>8

(***************************************************************************)
(* Breaks in order.                                                        *)
(***************************************************************************)
Cuts(w, u, x, b) == Splits(u, x, b) \/ Touches(w, u, x, b)

(* Three vowels around a break.                                            *)
ThreeVowels(w, b) ==
  /\ 0 < b /\ b + 1 \in 0..(Len(w) - 1)
  /\ VowelAt(w, b - 1) /\ VowelAt(w, b) /\ VowelAt(w, b + 1)

LEMMA Halves ==
  /\ \A d \in Nat : d \div 2 \in Nat
  /\ \A d \in Nat : d >= 1 => d \div 2 < d
  /\ \A d \in Nat : (d + 1) \div 2 >= d \div 2 /\ (d + 1) \div 2 <= (d \div 2) + 1
OBVIOUS

LEMMA TouchesIs ==
  ASSUME NEW w, NEW u \in Int, NEW x \in Int, NEW b \in Int, 0 <= u, Touches(w, u, x, b)
  PROVE  /\ x = u + 1
         /\ \E s \in Int, h \in Nat : /\ 0 <= s /\ s <= u /\ RunTo(w, s, x)
                                      /\ h = (x - s) \div 2 /\ b = x - h /\ s < b /\ b <= x
<1>1. x = u + 1
  BY DEF Touches
<1>2. PICK s \in 0..u : RunTo(w, s, x) /\ b = x - ((x - s) \div 2)
  BY DEF Touches
<1>3. PICK d \in Nat : d = x - s /\ d >= 1
  <2>1. x - s \in Nat /\ x - s >= 1
    BY <1>1
  <2> QED BY <2>1
<1>4. PICK h \in Nat : h = d \div 2 /\ h < d
  BY <1>3, Halves
<1>5. b = x - h
  BY <1>2, <1>3, <1>4
<1>6. s < b /\ b <= x
  <2>1. h < d /\ d = x - s
    BY <1>3, <1>4
  <2> QED BY <1>5, <2>1
<1> QED BY <1>1, <1>2, <1>3, <1>4, <1>5, <1>6

LEMMA CutIs ==
  ASSUME NEW w, NEW u \in Int, NEW x \in Int, NEW b \in Int, 0 <= u, Cuts(w, u, x, b)
  PROVE  0 < b /\ b <= x
<1>1. CASE Splits(u, x, b)
  BY <1>1 DEF Splits
<1>2. CASE Touches(w, u, x, b)
  BY <1>2, TouchesIs
<1> QED BY <1>1, <1>2 DEF Cuts

LEMMA BreaksApart ==
  ASSUME NEW w \in Seq(Letter), NEW u \in Int, NEW x \in Int, NEW y \in Int, NEW b \in Int, NEW c \in Int,
         Neighbours(w, u, x), Neighbours(w, x, y), Cuts(w, u, x, b), Cuts(w, x, y, c)
  PROVE  /\ b <= c
         /\ b = c => ThreeVowels(w, b)
         /\ b < c => \E z \in b..(c - 1) : VowelAt(w, z)
<1>0. PICK N \in Int : N = Len(w) - 1
  OBVIOUS
<1>1. /\ 0 <= u /\ u < x /\ x < y /\ y <= N /\ VowelAt(w, x)
      /\ \A z \in Int : u < z /\ z < x => ~VowelAt(w, z)
  BY <1>0 DEF Neighbours
<1>2. 0 < b /\ b <= x
  BY <1>1, CutIs
<1>3. CASE Splits(x, y, c)
  <2>1. x < c
    BY <1>3 DEF Splits
  <2>2. x \in b..(c - 1)
    BY <1>2, <2>1
  <2> QED BY <1>1, <1>2, <2>1, <2>2
<1>4. ASSUME NEW s \in Int, NEW h \in Nat, y = x + 1, 0 <= s, s <= x, RunTo(w, s, y),
             h = (y - s) \div 2, c = y - h, s < c, c <= y
      PROVE  /\ b <= c
             /\ b = c => ThreeVowels(w, b)
             /\ b < c => \E z \in b..(c - 1) : VowelAt(w, z)
  <2>1. CASE Splits(u, x, b)
    <3>1. u + 1 < x
      BY <2>1 DEF Splits
    <3>2. ~VowelAt(w, x - 1)
      BY <1>1, <3>1
    <3>3. x - 1 \notin s..y
      BY <1>4, <3>2 DEF RunTo
    <3>4. s = x
      BY <1>4, <3>3
    <3>5. y - s = 1 /\ 1 \div 2 = 0
      BY <1>4, <3>4
    <3>6. h = 0
      BY <1>4, <3>5
    <3>7. c = x + 1
      BY <1>4, <3>6
    <3>8. x \in b..(c - 1)
      BY <1>2, <3>7
    <3> QED BY <1>1, <1>2, <3>7, <3>8
  <2>2. CASE Touches(w, u, x, b)
    <3>1. PICK r \in Int, g \in Nat : /\ x = u + 1 /\ 0 <= r /\ r <= u /\ RunTo(w, r, x)
                                      /\ g = (x - r) \div 2 /\ b = x - g /\ r < b /\ b <= x
      BY <1>1, <2>2, TouchesIs
    <3>2. ~(r < s)
      <4> SUFFICES ASSUME r < s PROVE FALSE
        OBVIOUS
      <4>1. s - 1 \in r..x /\ s # 0
        BY <1>4, <3>1
      <4> QED BY <1>4, <3>1, <4>1 DEF RunTo
    <3>3. ~(s < r)
      <4> SUFFICES ASSUME s < r PROVE FALSE
        OBVIOUS
      <4>1. r - 1 \in s..y /\ r # 0
        BY <1>4, <3>1
      <4> QED BY <1>4, <3>1, <4>1 DEF RunTo
    <3>4. s = r
      BY <3>2, <3>3
    <3>5. PICK d \in Nat : d = x - r /\ y - s = d + 1
      <4>1. x - r \in Nat /\ y - s = (x - r) + 1
        BY <1>4, <3>1, <3>4
      <4> QED BY <4>1
    <3>6. g <= h /\ h <= g + 1
      <4>1. g = d \div 2 /\ h = (d + 1) \div 2
        BY <1>4, <3>1, <3>5
      <4> QED BY <4>1, Halves
    <3>7. b <= c
      <4>1. b = x - g /\ c = x + 1 - h
        BY <1>4, <3>1
      <4> QED BY <3>6, <4>1
    <3>8. VowelAt(w, b - 1) /\ VowelAt(w, b) /\ VowelAt(w, b + 1)
      <4>1. b - 1 \in s..y /\ b \in s..y /\ b + 1 \in s..y
        BY <1>4, <3>1, <3>4
      <4> QED BY <1>4, <4>1 DEF RunTo
    <3>9. ThreeVowels(w, b)
      <4>1. b + 1 \in 0..N
        BY <1>1, <1>2, <1>4
      <4> QED BY <1>0, <1>2, <3>8, <4>1 DEF ThreeVowels
    <3>10. b < c => b \in b..(c - 1)
      OBVIOUS
    <3> QED BY <3>7, <3>8, <3>9, <3>10
  <2> QED BY <2>1, <2>2 DEF Cuts
<1>5. CASE Touches(w, x, y, c)
  <2>1. 0 <= x
    BY <1>1
  <2>2. PICK s \in Int, h \in Nat : /\ y = x + 1 /\ 0 <= s /\ s <= x /\ RunTo(w, s, y)
                                    /\ h = (y - s) \div 2 /\ c = y - h /\ s < c /\ c <= y
    BY <1>5, <2>1, TouchesIs
  <2> QED BY <1>4, <2>2
<1> QED BY <1>3, <1>5 DEF Cuts

(* Sorting what is in order changes nothing, whatever order of equals the  *)
(* exchanges end with.                                                     *)
Nondecreasing(cuts) == \A j, k \in 1..Len(cuts) : j < k => cuts[j] <= cuts[k]

Repeats(q, S) == \E j, k \in S : j # k /\ q[j] = q[k]

LEMMA Pigeons ==
  ASSUME NEW a \in Int, NEW b \in Int, NEW c \in Int, NEW d \in Int, a <= b, d - c < b - a, c <= d + 1,
         NEW q \in [a..b -> c..d]
  PROVE  Repeats(q, a..b)
<1>1. IsFiniteSet(a..b) /\ Cardinality(a..b) = b - a + 1
  BY FS_Interval
<1>2. IsFiniteSet(c..d) /\ Cardinality(c..d) = IF c <= d THEN d - c + 1 ELSE 0
  BY FS_Interval
<1>3. Cardinality(c..d) < Cardinality(a..b)
  BY <1>1, <1>2
<1> QED BY <1>1, <1>2, <1>3, FS_PigeonHole DEF Repeats

LEMMA SortedIs ==
  ASSUME NEW cuts \in Seq(Int), Nondecreasing(cuts)
  PROVE  Sorted(cuts) = cuts
<1>1. PICK n \in Nat : n = Len(cuts) /\ cuts \in [1..n -> Int]
  OBVIOUS
<1> DEFINE Orders(q) == \A j, k \in 1..n : j < k => q[j] # q[k] /\ cuts[q[j]] <= cuts[q[k]]
           O == CHOOSE q \in [1..n -> 1..n] : Orders(q)
<1>2. PICK id : id = [k \in 1..n |-> k]
  OBVIOUS
<1>3. id \in [1..n -> 1..n] /\ Orders(id)
  BY <1>1, <1>2 DEF Nondecreasing
<1>4. PICK q \in [1..n -> 1..n] : q = O /\ Orders(q)
  <2>1. O \in [1..n -> 1..n] /\ Orders(O)
    <3> HIDE DEF Orders
    <3> QED BY <1>3
  <2> QED BY <2>1
<1>5. \A j, k \in 1..n : j < k => q[j] # q[k] /\ cuts[q[j]] <= cuts[q[k]]
  BY <1>4
<1>6. \A j, k \in 1..n : j # k => q[j] # q[k]
  BY <1>5
<1>7. \A i \in 1..n : q[i] \in 1..n /\ cuts[i] \in Int
  BY <1>1
<1>8. \A i, j \in 1..n : cuts[j] < cuts[i] => j < i
  <2> SUFFICES ASSUME NEW i \in 1..n, NEW j \in 1..n, cuts[j] < cuts[i] PROVE j < i
    OBVIOUS
  <2>1. PICK a \in Int, b \in Int : a = cuts[i] /\ b = cuts[j]
    BY <1>7
  <2>2. i < j => a <= b
    BY <1>1, <2>1 DEF Nondecreasing
  <2>3. b < a /\ i # j
    BY <2>1
  <2>4. ~(i < j) /\ i \in Int /\ j \in Int
    BY <2>2, <2>3
  <2> QED BY <2>3, <2>4
<1>9. ASSUME NEW k \in 1..n, cuts[q[k]] < cuts[k] PROVE FALSE
  <2>1. ASSUME NEW j \in 1..k PROVE q[j] \in 1..(k - 1)
    <3>1. j \in 1..n /\ (j < k \/ j = k)
      OBVIOUS
    <3>2. cuts[q[j]] <= cuts[q[k]]
      BY <1>5, <1>7, <3>1
    <3>0. PICK a \in Int, b \in Int, c \in Int : a = cuts[q[j]] /\ b = cuts[q[k]] /\ c = cuts[k]
      BY <1>7, <3>1
    <3>3. cuts[q[j]] < cuts[k]
      <4>1. a <= b /\ b < c
        BY <1>9, <3>0, <3>2
      <4>2. a < c
        BY <4>1
      <4> QED BY <3>0, <4>2
    <3>4. q[j] < k /\ q[j] \in 1..n
      BY <1>7, <1>8, <3>1, <3>3
    <3> QED BY <3>4
  <2>2. PICK r : r = [j \in 1..k |-> q[j]]
    OBVIOUS
  <2>3. r \in [1..k -> 1..(k - 1)]
    BY <2>1, <2>2
  <2>4. PICK j \in 1..k, l \in 1..k : j # l /\ r[j] = r[l]
    <3>1. PICK a \in Int, b \in Int, d \in Int : a = 1 /\ b = k /\ d = k - 1
      OBVIOUS
    <3>2. a <= b /\ d - a < b - a /\ a <= d + 1
      BY <3>1
    <3>3. r \in [a..b -> a..d]
      BY <2>3, <3>1
    <3>4. Repeats(r, a..b)
      BY <3>2, <3>3, Pigeons
    <3> QED BY <3>1, <3>4 DEF Repeats
  <2>5. q[j] = q[l] /\ j \in 1..n /\ l \in 1..n
    BY <2>2, <2>4
  <2> QED BY <1>6, <2>4, <2>5
<1>10. ASSUME NEW k \in 1..n, cuts[k] < cuts[q[k]] PROVE FALSE
  <2>1. ASSUME NEW j \in k..n PROVE q[j] \in (k + 1)..n
    <3>1. j \in 1..n /\ (k < j \/ j = k)
      OBVIOUS
    <3>2. cuts[q[k]] <= cuts[q[j]]
      BY <1>5, <1>7, <3>1
    <3>0. PICK a \in Int, b \in Int, c \in Int : a = cuts[q[j]] /\ b = cuts[q[k]] /\ c = cuts[k]
      BY <1>7, <3>1
    <3>3. cuts[k] < cuts[q[j]]
      <4>1. c < b /\ b <= a
        BY <1>10, <3>0, <3>2
      <4>2. c < a
        BY <4>1
      <4> QED BY <3>0, <4>2
    <3>4. k < q[j] /\ q[j] \in 1..n
      BY <1>7, <1>8, <3>1, <3>3
    <3> QED BY <3>4
  <2>2. PICK r : r = [j \in k..n |-> q[j]]
    OBVIOUS
  <2>3. r \in [k..n -> (k + 1)..n]
    BY <2>1, <2>2
  <2>4. PICK j \in k..n, l \in k..n : j # l /\ r[j] = r[l]
    <3>1. PICK a \in Int, b \in Int, c \in Int : a = k /\ b = n /\ c = k + 1
      OBVIOUS
    <3>2. a <= b /\ b - c < b - a /\ c <= b + 1
      BY <3>1
    <3>3. r \in [a..b -> c..b]
      BY <2>3, <3>1
    <3>4. Repeats(r, a..b)
      BY <3>2, <3>3, Pigeons
    <3> QED BY <3>1, <3>4 DEF Repeats
  <2>5. q[j] = q[l] /\ j \in 1..n /\ l \in 1..n
    BY <2>2, <2>4
  <2> QED BY <1>6, <2>4, <2>5
<1>11. \A k \in 1..n : cuts[q[k]] = cuts[k]
  <2> SUFFICES ASSUME NEW k \in 1..n PROVE cuts[q[k]] = cuts[k]
    OBVIOUS
  <2>1. ~(cuts[q[k]] < cuts[k]) /\ ~(cuts[k] < cuts[q[k]])
    BY <1>9, <1>10
  <2> QED BY <1>7, <2>1
<1>12. Sorted(cuts) = [k \in 1..n |-> cuts[q[k]]]
  BY <1>1, <1>4 DEF Sorted
<1>13. [k \in 1..n |-> cuts[q[k]]] = [k \in 1..n |-> cuts[k]]
  BY <1>11
<1> QED BY <1>1, <1>12, <1>13

(***************************************************************************)
(* The breaks that were found in a word.                                   *)
(***************************************************************************)
Found(w, bs) ==
  /\ bs \in Seq(Int)
  /\ \A k \in 1..Len(bs) : k + 1 <= Len(VPos(w)) /\ BreakOf(w, k) = <<bs[k]>>

LEMMA PairIs ==
  ASSUME NEW w \in Seq(Letter), NEW k \in 1..(Len(VPos(w)) - 1)
  PROVE  /\ VPos(w)[k] \in Int /\ VPos(w)[k + 1] \in Int /\ 0 <= VPos(w)[k]
         /\ Pair(w, k, VPos(w)[k], VPos(w)[k + 1])
         /\ Neighbours(w, VPos(w)[k], VPos(w)[k + 1])
<1>1. Neighbours(w, VPos(w)[k], VPos(w)[k + 1])
  BY NeighboursIn
<1>2. PICK n \in Nat : n = Len(w)
  OBVIOUS
<1>3. VPos(w)[k] \in 0..(n - 1) /\ VPos(w)[k + 1] \in 0..(n - 1)
  BY <1>1, <1>2 DEF Neighbours
<1> QED BY <1>1, <1>3 DEF Pair

LEMMA FoundIs ==
  ASSUME NEW w \in Seq(Letter), NEW bs, Found(w, bs), NEW k \in 1..Len(bs)
  PROVE  /\ k \in 1..(Len(VPos(w)) - 1) /\ bs[k] \in 1..(Len(w) - 1) /\ DigraphKept(w, bs[k])
         /\ Cuts(w, VPos(w)[k], VPos(w)[k + 1], bs[k])
<1>1. bs \in Seq(Int) /\ k + 1 <= Len(VPos(w)) /\ BreakOf(w, k) = <<bs[k]>>
  BY DEF Found
<1>2. Len(VPos(w)) \in Nat
  BY VPosIs DEF Marks
<1>3. k \in 1..(Len(VPos(w)) - 1)
  <2>1. Len(bs) \in Nat
    BY <1>1
  <2> QED BY <1>1, <1>2, <2>1
<1>4. PICK u \in Int, x \in Int : u = VPos(w)[k] /\ x = VPos(w)[k + 1] /\ Pair(w, k, u, x)
  BY <1>3, PairIs
<1>5. PICK b \in 1..(Len(w) - 1) : /\ BreakOf(w, k) = <<b>> /\ DigraphKept(w, b)
                                   /\ Splits(u, x, b) \/ Touches(w, u, x, b)
  BY <1>4, BreakIs
<1>6. b = bs[k]
  BY <1>1, <1>5
<1> QED BY <1>3, <1>4, <1>5, <1>6 DEF Cuts

LEMMA FoundNext ==
  ASSUME NEW w \in Seq(Letter), NEW bs, Found(w, bs), NEW k \in 1..Len(bs), k + 1 \in 1..Len(bs)
  PROVE  /\ bs[k] <= bs[k + 1]
         /\ bs[k] = bs[k + 1] => ThreeVowels(w, bs[k])
         /\ bs[k] < bs[k + 1] => \E z \in bs[k]..(bs[k + 1] - 1) : VowelAt(w, z)
<1>0. bs \in Seq(Int)
  BY DEF Found
<1>1. k \in 1..(Len(VPos(w)) - 1) /\ k + 1 \in 1..(Len(VPos(w)) - 1)
  BY FoundIs
<1>2. PICK b \in Int, c \in Int : b = bs[k] /\ c = bs[k + 1]
  BY <1>0
<1>3. PICK u \in Int, x \in Int : /\ u = VPos(w)[k] /\ x = VPos(w)[k + 1]
                                  /\ Neighbours(w, u, x) /\ Cuts(w, u, x, b)
  BY <1>1, <1>2, PairIs, FoundIs
<1>4. PICK y \in Int : y = VPos(w)[(k + 1) + 1] /\ Neighbours(w, x, y) /\ Cuts(w, x, y, c)
  BY <1>1, <1>2, <1>3, PairIs, FoundIs
<1>5. /\ b <= c
      /\ b = c => ThreeVowels(w, b)
      /\ b < c => \E z \in b..(c - 1) : VowelAt(w, z)
  BY <1>3, <1>4, BreaksApart
<1> QED BY <1>2, <1>5

LEMMA FoundInOrder ==
  ASSUME NEW w \in Seq(Letter), NEW bs, Found(w, bs)
  PROVE  Nondecreasing(bs)
<1>1. PICK n \in Nat : n = Len(bs) /\ \A k \in 1..n : bs[k] \in Int
  BY DEF Found
<1>2. SUFFICES ASSUME NEW j \in 1..n PROVE \A k \in 1..n : j < k => bs[j] <= bs[k]
  BY <1>1 DEF Nondecreasing
<1> DEFINE T == {k \in 0..n : j < k => bs[j] <= bs[k]}
<1>3. 0 \in T
  OBVIOUS
<1>4. ASSUME NEW k \in 1..n, k - 1 \in T PROVE k \in T
  <2>1. CASE k - 1 < j
    BY <2>1
  <2>2. CASE k - 1 = j
    <3>1. k = j + 1
      BY <2>2
    <3>2. bs[j] <= bs[j + 1]
      BY <1>1, <3>1, FoundNext
    <3> QED BY <3>1, <3>2
  <2>3. CASE j < k - 1
    <3>1. PICK i \in 1..n : i = k - 1 /\ k = i + 1
      BY <2>3
    <3>2. bs[j] <= bs[i]
      BY <1>4, <2>3, <3>1
    <3>3. bs[i] <= bs[i + 1]
      BY <1>1, <3>1, FoundNext
    <3>4. PICK a \in Int, b \in Int, c \in Int : a = bs[j] /\ b = bs[i] /\ c = bs[k]
      BY <1>1
    <3>5. a <= c
      BY <3>1, <3>2, <3>3, <3>4
    <3> QED BY <3>4, <3>5
  <2> QED BY <2>1, <2>2, <2>3
<1>5. \A k \in 0..n : k \in T
  <2> HIDE DEF T
  <2> QED BY <1>3, <1>4, UpTo
<1> QED BY <1>5

(***************************************************************************)
(* The pieces between the breaks.                                          *)
(***************************************************************************)
StartOf(cuts, i) == IF i = 1 THEN 0 ELSE cuts[i - 1]

EndOf(w, cuts, i) == IF i = Len(cuts) + 1 THEN Len(w) ELSE cuts[i]

LEMMA PiecesAre ==
  ASSUME NEW w \in Seq(Letter), NEW cuts \in Seq(Int), \A k \in 1..Len(cuts) : cuts[k] \in 0..Len(w)
  PROVE  /\ Pieces(w, cuts) \in Seq(Seq(Letter)) /\ Len(Pieces(w, cuts)) = Len(cuts) + 1
         /\ \A i \in 1..(Len(cuts) + 1) :
              /\ StartOf(cuts, i) \in 0..Len(w) /\ EndOf(w, cuts, i) \in 0..Len(w)
              /\ Pieces(w, cuts)[i] = SubSeq(w, StartOf(cuts, i) + 1, EndOf(w, cuts, i))
<1>1. PICK m \in Nat, n \in Nat : m = Len(cuts) /\ n = Len(w)
  OBVIOUS
<1>2. PICK one \in Seq(Int), last \in Seq(Int) : /\ one = <<0>> /\ Len(one) = 1 /\ one[1] = 0
                                                 /\ last = <<n>> /\ Len(last) = 1 /\ last[1] = n
  <2>1. /\ <<0>> \in Seq(Int) /\ Len(<<0>>) = 1 /\ <<0>>[1] = 0
        /\ <<n>> \in Seq(Int) /\ Len(<<n>>) = 1 /\ <<n>>[1] = n
    OBVIOUS
  <2> QED BY <2>1
<1>3. PICK from \in Seq(Int) : /\ from = <<0>> \o cuts /\ from[1] = 0
                               /\ \A i \in 1..m : from[1 + i] = cuts[i]
  <2>1. /\ one \o cuts \in Seq(Int) /\ \A i \in 1..1 : (one \o cuts)[i] = one[i]
        /\ \A i \in 1..m : (one \o cuts)[1 + i] = cuts[i]
    BY <1>1, <1>2, CatIs
  <2>2. (one \o cuts)[1] = 0
    BY <1>2, <2>1
  <2> QED BY <1>2, <2>1, <2>2
<1>4. PICK to \in Seq(Int) : /\ to = cuts \o <<Len(w)>> /\ Len(to) = m + 1 /\ to[m + 1] = n
                             /\ \A i \in 1..m : to[i] = cuts[i]
  <2>1. /\ cuts \o last \in Seq(Int) /\ Len(cuts \o last) = m + 1 /\ \A i \in 1..m : (cuts \o last)[i] = cuts[i]
        /\ \A i \in 1..1 : (cuts \o last)[m + i] = last[i]
    BY <1>1, <1>2, CatIs
  <2>2. (cuts \o last)[m + 1] = n
    BY <1>2, <2>1
  <2> QED BY <1>1, <1>2, <2>1, <2>2
<1>5. ASSUME NEW i \in 1..(m + 1) PROVE from[i] = StartOf(cuts, i) /\ StartOf(cuts, i) \in 0..n
  <2>1. CASE i = 1
    BY <1>3, <2>1 DEF StartOf
  <2>2. CASE i # 1
    <3>1. PICK k \in 1..m : k = i - 1 /\ i = 1 + k
      BY <2>2
    <3> QED BY <1>1, <1>3, <2>2, <3>1 DEF StartOf
  <2> QED BY <2>1, <2>2
<1>6. ASSUME NEW i \in 1..(m + 1) PROVE to[i] = EndOf(w, cuts, i) /\ EndOf(w, cuts, i) \in 0..n
  <2>1. CASE i = m + 1
    BY <1>1, <1>4, <2>1 DEF EndOf
  <2>2. CASE i # m + 1
    <3>1. i \in 1..m
      BY <2>2
    <3> QED BY <1>1, <1>4, <2>2, <3>1 DEF EndOf
  <2> QED BY <2>1, <2>2
<1>7. PICK ps : ps = [i \in 1..(m + 1) |-> SubSeq(w, from[i] + 1, to[i])]
  OBVIOUS
<1>8. Pieces(w, cuts) = ps
  BY <1>3, <1>4, <1>7 DEF Pieces
<1>9. ASSUME NEW i \in 1..(m + 1)
      PROVE  ps[i] = SubSeq(w, StartOf(cuts, i) + 1, EndOf(w, cuts, i)) /\ ps[i] \in Seq(Letter)
  <2>1. ps[i] = SubSeq(w, StartOf(cuts, i) + 1, EndOf(w, cuts, i))
    BY <1>5, <1>6, <1>7
  <2>2. PICK a \in Int, b \in Int : a = StartOf(cuts, i) + 1 /\ b = EndOf(w, cuts, i) /\ 1 <= a /\ b <= n
    <3>1. PICK a0 \in 0..n, b \in 0..n : a0 = StartOf(cuts, i) /\ b = EndOf(w, cuts, i)
      BY <1>5, <1>6
    <3>2. a0 + 1 \in Int /\ b \in Int /\ a0 + 1 = StartOf(cuts, i) + 1 /\ 1 <= a0 + 1 /\ b <= n
      BY <1>1, <3>1
    <3> QED BY <3>1, <3>2
  <2>3. \A k \in a..b : w[k] \in Letter
    BY <1>1, <2>2
  <2> QED BY <2>1, <2>2, <2>3, SubSeqProperties
<1>10. PICK L : L = Seq(Letter)
  OBVIOUS
<1>11. ps \in [1..(m + 1) -> L]
  BY <1>7, <1>9, <1>10
<1>12. ps \in Seq(L) /\ Len(ps) = m + 1
  BY <1>11
<1> QED BY <1>1, <1>5, <1>6, <1>8, <1>9, <1>10, <1>12

LEMMA PiecesRejoin ==
  ASSUME NEW w \in Seq(Letter), NEW cuts \in Seq(Int), \A k \in 1..Len(cuts) : cuts[k] \in 0..Len(w),
         Nondecreasing(cuts)
  PROVE  FlattenSeq(Pieces(w, cuts)) = w
<1>1. PICK m \in Nat, n \in Nat : m = Len(cuts) /\ n = Len(w)
  OBVIOUS
<1>2. PICK L : L = Seq(Letter)
  OBVIOUS
<1>3. PICK ps \in Seq(L) : /\ ps = Pieces(w, cuts) /\ Len(ps) = m + 1
                           /\ \A i \in 1..(m + 1) :
                                /\ StartOf(cuts, i) \in 0..n /\ EndOf(w, cuts, i) \in 0..n
                                /\ ps[i] = SubSeq(w, StartOf(cuts, i) + 1, EndOf(w, cuts, i))
  BY <1>1, <1>2, PiecesAre
<1> DEFINE Upto(k) == IF k = 0 THEN 0 ELSE EndOf(w, cuts, k)
           T == {k \in 0..(m + 1) : FlattenSeq(SubSeq(ps, 1, k)) = SubSeq(w, 1, Upto(k))}
<1>4. 0 \in T
  <2>1. SubSeq(ps, 1, 0) = <<>> /\ SubSeq(w, 1, 0) = <<>>
    BY SubSeqEmpty
  <2>2. Upto(0) = 0 /\ 0 \in 0..(m + 1)
    OBVIOUS
  <2>3. FlattenSeq(SubSeq(ps, 1, 0)) = SubSeq(w, 1, Upto(0))
    BY <2>1, <2>2, FlattenIs
  <2> QED BY <2>2, <2>3
<1>5. ASSUME NEW k \in 1..(m + 1) PROVE Upto(k - 1) = StartOf(cuts, k) /\ StartOf(cuts, k) <= EndOf(w, cuts, k)
  <2>1. CASE k = 1
    <3>1. StartOf(cuts, k) = 0 /\ Upto(k - 1) = 0
      BY <2>1 DEF StartOf
    <3> QED BY <1>3, <3>1
  <2>2. CASE k # 1
    <3>1. PICK i \in 1..m : i = k - 1 /\ k = i + 1 /\ i # m + 1
      BY <2>2
    <3>2. StartOf(cuts, k) = cuts[i]
      BY <2>2, <3>1 DEF StartOf
    <3>3. EndOf(w, cuts, i) = cuts[i] /\ Upto(k - 1) = EndOf(w, cuts, i)
      BY <1>1, <3>1 DEF EndOf
    <3>4. StartOf(cuts, k) <= EndOf(w, cuts, k)
      <4>1. CASE k = m + 1
        BY <1>1, <1>3, <4>1 DEF EndOf
      <4>2. CASE k # m + 1
        <5>1. k \in 1..m /\ i < k
          BY <3>1, <4>2
        <5> QED BY <1>1, <3>2, <4>2, <5>1 DEF EndOf, Nondecreasing
      <4> QED BY <4>1, <4>2
    <3> QED BY <3>2, <3>3, <3>4
  <2> QED BY <2>1, <2>2
<1>6. ASSUME NEW k \in 1..(m + 1), k - 1 \in T PROVE k \in T
  <2>1. PICK a \in 0..n, b \in 0..n : a = StartOf(cuts, k) /\ b = EndOf(w, cuts, k) /\ a <= b
    BY <1>3, <1>5
  <2>2. FlattenSeq(SubSeq(ps, 1, k - 1)) = SubSeq(w, 1, a)
    BY <1>5, <1>6, <2>1
  <2>3. ps[k] = SubSeq(w, a + 1, b)
    BY <1>3, <2>1
  <2>4. /\ SubSeq(ps, 1, k) = Append(SubSeq(ps, 1, k - 1), ps[k])
        /\ SubSeq(ps, 1, k - 1) \in Seq(L) /\ ps[k] \in L
    BY <1>3, PrefixGrows
  <2>5. FlattenSeq(SubSeq(ps, 1, k)) = SubSeq(w, 1, a) \o SubSeq(w, a + 1, b)
    BY <1>2, <2>2, <2>3, <2>4, FlattenIs DEF Cat
  <2>6. SubSeq(w, 1, a) \o SubSeq(w, a + 1, b) = SubSeq(w, 1, b)
    <3>1. 1 \in 1..(Len(w) + 1) /\ a \in (1 - 1)..Len(w) /\ b \in a..Len(w)
      BY <1>1, <2>1
    <3> QED BY <3>1, ConcatAdjacentSubSeq
  <2>7. Upto(k) = b
    BY <2>1
  <2>8. FlattenSeq(SubSeq(ps, 1, k)) = SubSeq(w, 1, Upto(k))
    BY <2>5, <2>6, <2>7
  <2>9. k \in 0..(m + 1)
    OBVIOUS
  <2> HIDE DEF Upto
  <2> QED BY <2>8, <2>9
<1>7. m + 1 \in T
  <2> HIDE DEF T
  <2>1. m + 1 \in Nat
    OBVIOUS
  <2>2. \A k \in 0..(m + 1) : k \in T
    BY <1>4, <1>6, <2>1, UpTo
  <2> QED BY <2>1, <2>2
<1>8. Upto(m + 1) = n
  BY <1>1 DEF EndOf
<1>9. SubSeq(ps, 1, m + 1) = ps /\ SubSeq(w, 1, n) = w
  BY <1>1, <1>3, SubSeqFull
<1> QED BY <1>3, <1>7, <1>8, <1>9

(***************************************************************************)
(* A vowel in each piece.                                                  *)
(***************************************************************************)
HasVowel(w, a, b) == \E z \in a..(b - 1) : VowelAt(w, z)

LEMMA VowelInEach ==
  ASSUME NEW w \in Seq(Letter), NEW bs, Found(w, bs), Len(VPos(w)) = Len(bs) + 1,
         NEW i \in 1..(Len(bs) + 1)
  PROVE  \/ HasVowel(w, StartOf(bs, i), EndOf(w, bs, i))
         \/ /\ i \in 1..Len(bs) /\ ThreeVowels(w, bs[i])
            /\ StartOf(bs, i) = bs[i] /\ EndOf(w, bs, i) = bs[i]
<1>1. PICK m \in Nat, n \in Nat : m = Len(bs) /\ n = Len(w) /\ \A k \in 1..m : bs[k] \in Int
  BY DEF Found
<1>2. PICK v \in Seq(Int) : /\ v = VPos(w) /\ Len(v) = m + 1
                            /\ \A k \in 1..(m + 1) : v[k] \in 0..(n - 1) /\ VowelAt(w, v[k])
  <2>1. Marks(VPos(w), w)
    BY VPosIs
  <2> QED BY <1>1, <2>1 DEF Marks
<1>3. ASSUME NEW k \in 1..m
      PROVE  \E u \in Int, x \in Int, b \in Int :
               /\ u = v[k] /\ x = v[k + 1] /\ b = bs[k]
               /\ 0 <= u /\ x <= n - 1 /\ VowelAt(w, u) /\ VowelAt(w, x) /\ Cuts(w, u, x, b)
  <2>1. k \in 1..(m + 1) /\ k + 1 \in 1..(m + 1)
    OBVIOUS
  <2>2. PICK u \in Int, x \in Int, b \in Int : u = v[k] /\ x = v[k + 1] /\ b = bs[k]
    BY <1>1, <1>2, <2>1
  <2>3. 0 <= u /\ x <= n - 1 /\ VowelAt(w, u) /\ VowelAt(w, x)
    <3>1. v[k] \in 0..(n - 1) /\ VowelAt(w, v[k])
      BY <1>2, <2>1
    <3>2. v[k + 1] \in 0..(n - 1) /\ VowelAt(w, v[k + 1])
      BY <1>2, <2>1
    <3>3. u \in 0..(n - 1) /\ x \in 0..(n - 1)
      BY <2>2, <3>1, <3>2
    <3>4. VowelAt(w, u) /\ VowelAt(w, x)
      BY <2>2, <3>1, <3>2
    <3> QED BY <3>3, <3>4
  <2>4. Cuts(w, u, x, b)
    BY <1>1, <1>2, <2>2, FoundIs
  <2> QED BY <2>2, <2>3, <2>4
<1>4. CASE i = 1 /\ i = m + 1
  <2>1. PICK z \in 0..(n - 1) : VowelAt(w, z)
    BY <1>2, <1>4
  <2>2. StartOf(bs, i) = 0 /\ EndOf(w, bs, i) = n
    BY <1>1, <1>4 DEF StartOf, EndOf
  <2> QED BY <2>1, <2>2 DEF HasVowel
<1>5. CASE i = 1 /\ i # m + 1
  <2>1. 1 \in 1..m
    BY <1>1, <1>5
  <2>2. PICK u \in Int, x \in Int, b \in Int :
          b = bs[1] /\ 0 <= u /\ VowelAt(w, u) /\ Cuts(w, u, x, b)
    BY <1>3, <2>1
  <2>3. StartOf(bs, i) = 0 /\ EndOf(w, bs, i) = b
    BY <1>1, <1>5, <2>2 DEF StartOf, EndOf
  <2>4. HasVowel(w, 0, b)
    <3>1. CASE Splits(u, x, b)
      <4>1. u \in 0..(b - 1)
        BY <2>2, <3>1 DEF Splits
      <4> QED BY <2>2, <4>1 DEF HasVowel
    <3>2. CASE Touches(w, u, x, b)
      <4>1. PICK s \in Int : 0 <= s /\ s <= u /\ RunTo(w, s, x) /\ s < b /\ x = u + 1
        BY <2>2, <3>2, TouchesIs
      <4>2. s \in 0..(b - 1) /\ s \in s..x
        BY <2>2, <4>1
      <4> QED BY <4>1, <4>2 DEF HasVowel, RunTo
    <3> QED BY <2>2, <3>1, <3>2 DEF Cuts
  <2> QED BY <2>3, <2>4
<1>6. CASE i # 1 /\ i # m + 1
  <2>1. PICK k \in 1..m : i = k + 1 /\ k = i - 1 /\ i \in 1..m
    BY <1>1, <1>6
  <2>2. PICK b \in Int, c \in Int : b = bs[k] /\ c = bs[i]
    BY <1>1, <2>1
  <2>3. StartOf(bs, i) = b /\ EndOf(w, bs, i) = c
    BY <1>1, <1>6, <2>1, <2>2 DEF StartOf, EndOf
  <2>4. /\ b <= c
        /\ b = c => ThreeVowels(w, b)
        /\ b < c => HasVowel(w, b, c)
    BY <1>1, <2>1, <2>2, FoundNext DEF HasVowel
  <2> QED BY <1>1, <2>1, <2>2, <2>3, <2>4
<1>7. CASE i # 1 /\ i = m + 1
  <2>1. m \in 1..m /\ i - 1 = m
    BY <1>1, <1>7
  <2>2. PICK u \in Int, x \in Int, b \in Int :
          b = bs[m] /\ 0 <= u /\ x <= n - 1 /\ VowelAt(w, x) /\ Cuts(w, u, x, b)
    BY <1>3, <2>1
  <2>3. StartOf(bs, i) = b /\ EndOf(w, bs, i) = n
    BY <1>1, <1>7, <2>1, <2>2 DEF StartOf, EndOf
  <2>4. x \in b..(n - 1)
    BY <2>2, CutIs
  <2> QED BY <2>2, <2>3, <2>4 DEF HasVowel
<1> QED BY <1>4, <1>5, <1>6, <1>7

(* What Syllables are when the breaks of a word were found.                *)
LEMMA CutsIn ==
  ASSUME NEW w \in Seq(Letter), NEW bs, Found(w, bs)
  PROVE  /\ bs \in Seq(Int) /\ Sorted(bs) = bs
         /\ \A k \in 1..Len(bs) : bs[k] \in 0..Len(w)
<1>1. bs \in Seq(Int)
  BY DEF Found
<1>2. ASSUME NEW k \in 1..Len(bs) PROVE bs[k] \in 0..Len(w)
  <2>1. bs[k] \in 1..(Len(w) - 1)
    BY FoundIs
  <2>2. Len(w) \in Nat
    OBVIOUS
  <2> QED BY <2>1, <2>2
<1> QED BY <1>1, <1>2, FoundInOrder, SortedIs

LEMMA FoundRejoin ==
  ASSUME NEW w \in Seq(Letter), NEW bs, Found(w, bs)
  PROVE  /\ Pieces(w, Sorted(bs)) \in Seq(Seq(Letter))
         /\ Len(Pieces(w, Sorted(bs))) = Len(bs) + 1
         /\ FlattenSeq(Pieces(w, Sorted(bs))) = w
BY CutsIn, FoundInOrder, PiecesAre, PiecesRejoin

Nucleus(w, bs, syl, i) ==
  \/ \E j \in 1..Len(syl[i]) : syl[i][j] \in Vowels
  \/ /\ syl[i] = <<>>
     /\ LET b == Sorted(bs)[i]
        IN b + 2 <= Len(w) /\ {w[b], w[b + 1], w[b + 2]} \subseteq Vowels

LEMMA FoundNucleus ==
  ASSUME NEW w \in Seq(Letter), NEW bs, Found(w, bs), Len(VPos(w)) = Len(bs) + 1,
         NEW syl, syl = Pieces(w, Sorted(bs)), NEW i \in 1..Len(syl)
  PROVE  Nucleus(w, bs, syl, i)
<1>1. bs \in Seq(Int) /\ Sorted(bs) = bs /\ \A k \in 1..Len(bs) : bs[k] \in 0..Len(w)
  BY CutsIn
<1>2. i \in 1..(Len(bs) + 1)
  BY <1>1, PiecesAre
<1>3. PICK n \in Nat : n = Len(w)
  OBVIOUS
<1>4. PICK a \in 0..n, b \in 0..n : /\ a = StartOf(bs, i) /\ b = EndOf(w, bs, i)
                                    /\ syl[i] = SubSeq(w, a + 1, b)
  BY <1>1, <1>2, <1>3, PiecesAre
<1>5. CASE HasVowel(w, a, b)
  <2>1. PICK z \in a..(b - 1) : VowelAt(w, z)
    BY <1>5 DEF HasVowel
  <2>2. a + 1 \in 1..(n + 1) /\ b \in a..n /\ z - a + 1 \in 1..(b - a) /\ a + 1 + (z - a + 1) - 1 = z + 1
    BY <2>1
  <2>3. PICK j \in Int : j = z - a + 1 /\ j \in 1..(b - a)
    BY <2>2
  <2>4. Len(syl[i]) = b - a /\ syl[i][j] = w[z + 1]
    <3>1. \A y \in (a + 1)..b : w[y] \in Letter
      BY <1>3
    <3>2. a + 1 \in Int /\ b \in Int /\ a + 1 <= b /\ (b - (a + 1)) + 1 = b - a /\ (a + 1) + j - 1 = z + 1
      BY <2>2, <2>3
    <3>3. SubSeq(w, a + 1, b)[j] = w[(a + 1) + j - 1]
      BY <2>3, <3>1, <3>2, SubSeqProperties
    <3>4. Len(SubSeq(w, a + 1, b)) = b - a
      BY <3>1, <3>2, SubSeqProperties
    <3>5. w[(a + 1) + j - 1] = w[z + 1]
      BY <3>2
    <3>6. SubSeq(w, a + 1, b)[j] = w[z + 1]
      BY <3>3, <3>5
    <3> QED BY <1>4, <3>4, <3>6
  <2> QED BY <2>1, <2>3, <2>4 DEF VowelAt, Nucleus
<1>6. CASE /\ i \in 1..Len(bs) /\ ThreeVowels(w, bs[i])
           /\ a = bs[i] /\ b = bs[i]
  <2>1. syl[i] = <<>>
    <3>1. SubSeq(w, a + 1, a) = <<>>
      BY SubSeqEmpty
    <3> QED BY <1>4, <1>6, <3>1
  <2>2. (a - 1) + 1 = a /\ (a + 1) + 1 = a + 2 /\ a + 2 <= n
    BY <1>3, <1>6 DEF ThreeVowels
  <2>3. w[a] \in Vowels /\ w[a + 1] \in Vowels /\ w[a + 2] \in Vowels
    BY <1>6, <2>2 DEF ThreeVowels, VowelAt
  <2> QED BY <1>1, <1>3, <1>6, <2>1, <2>2, <2>3 DEF Nucleus
<1> QED BY <1>2, <1>4, <1>5, <1>6, VowelInEach

(***************************************************************************)
(* The two callers: what syllables are stored and joined as.               *)
(***************************************************************************)
LEMMA LeastIs ==
  ASSUME NEW S \in SUBSET Nat, S # {}
  PROVE  Min(S) \in S /\ \A y \in S : Min(S) <= y
<1>1. PICK s \in S : \A y \in S : s <= y
  BY LeastNatural
<1>2. \A x \in S : (\A y \in S : x <= y) => x = s
  BY <1>1
<1>3. Min(S) = s
  BY <1>1, <1>2 DEF Min
<1> QED BY <1>1, <1>3

LEMMA StoredIs ==
  ASSUME NEW s \in Seq(Letter)
  PROVE  /\ Stored(s) \in Seq(Letter)
         /\ Len(Stored(s)) < SyllableLimit => Stored(s) = s
<1>1. PICK n \in Nat, l \in Nat : n = Len(s) /\ l = SyllableLimit
  BY SyllabifierAssumption
<1>2. PICK m \in {n, l} : m = Min({n, l}) /\ m <= n /\ m <= l
  <2>1. {n, l} \in SUBSET Nat /\ {n, l} # {}
    OBVIOUS
  <2> QED BY <2>1, LeastIs
<1>3. Stored(s) = SubSeq(s, 1, m)
  BY <1>1, <1>2 DEF Stored
<1>4. \A i \in 1..m : s[i] \in Letter
  BY <1>1, <1>2
<1>5. SubSeq(s, 1, m) \in Seq(Letter) /\ Len(SubSeq(s, 1, m)) = m
  <2>1. m \in Nat /\ 1 \in Int /\ (IF 1 <= m THEN m - 1 + 1 ELSE 0) = m
    BY <1>2
  <2> QED BY <1>4, <2>1, SubSeqProperties
<1>6. CASE m = n
  BY <1>1, <1>3, <1>5, <1>6, SubSeqFull
<1>7. CASE m = l
  BY <1>1, <1>3, <1>5, <1>7
<1> QED BY <1>2, <1>6, <1>7

(* Dots are all that meteor_syllabify_word adds.                           *)
Dotted(ss) == [i \in 1..Len(ss) |-> IF i = 1 THEN ss[i] ELSE <<Dot>> \o ss[i]]

LEMMA DottedIs ==
  ASSUME NEW ss \in Seq(Seq(Letter)), NEW Char, Char = Letter \cup {Dot}
  PROVE  /\ Dotted(ss) \in Seq(Seq(Char)) /\ Len(Dotted(ss)) = Len(ss)
         /\ \A i \in 1..Len(ss) : Only(Dotted(ss)[i], Letter) = ss[i]
<1>1. PICK L, C : L = Seq(Letter) /\ C = Seq(Char)
  OBVIOUS
<1>2. PICK n \in Nat : n = Len(ss) /\ \A i \in 1..n : ss[i] \in L
  BY <1>1
<1>3. PICK ds : ds = [i \in 1..n |-> IF i = 1 THEN ss[i] ELSE <<Dot>> \o ss[i]]
  OBVIOUS
<1>4. \A t \in L : t \in C /\ Only(t, Letter) = t
  <2> TAKE t \in L
  <2>1. t \in Seq(Letter) /\ \A i \in 1..Len(t) : t[i] \in Letter
    BY <1>1
  <2>2. t \in Seq(Char)
    BY <2>1
  <2> QED BY <1>1, <2>1, <2>2, OnlyAll
<1>5. PICK d : d = <<Dot>> /\ d \in C /\ Only(d, Letter) = <<>>
  <2>1. <<Dot>> \in Seq(Char)
    OBVIOUS
  <2>2. /\ <<>> \in Seq(Char) /\ Dot \in Char /\ Dot \notin Letter /\ Append(<<>>, Dot) = <<Dot>>
    BY SyllabifierAssumption
  <2>3. Only(Append(<<>>, Dot), Letter) = Kept(Letter, Only(<<>>, Letter), Dot)
    BY <2>2, OnlyMore
  <2>4. Only(<<>>, Letter) = <<>>
    BY OnlyIs
  <2>5. Only(<<Dot>>, Letter) = <<>>
    BY <2>2, <2>3, <2>4 DEF Kept
  <2> QED BY <1>1, <2>1, <2>5
<1>6. ASSUME NEW t \in L PROVE d \o t \in C /\ Only(d \o t, Letter) = t
  <2>1. d \in Seq(Char) /\ t \in Seq(Char) /\ t \in Seq(Letter)
    BY <1>1, <1>4, <1>5, <1>6
  <2>2. d \o t \in Seq(Char) /\ Only(d \o t, Letter) = Only(d, Letter) \o Only(t, Letter)
    BY <2>1, OnlyCat, ConcatProperties
  <2>3. <<>> \o t = t
    BY <2>1, ConcatEmptySeq
  <2> QED BY <1>1, <1>4, <1>5, <2>2, <2>3
<1>7. ASSUME NEW i \in 1..n PROVE ds[i] \in C /\ Only(ds[i], Letter) = ss[i]
  <2>1. CASE i = 1
    BY <1>2, <1>3, <1>4, <2>1
  <2>2. CASE i # 1
    <3>1. ds[i] = d \o ss[i]
      BY <1>3, <1>5, <2>2
    <3> QED BY <1>2, <1>6, <3>1
  <2> QED BY <2>1, <2>2
<1>8. ds \in [1..n -> C]
  BY <1>3, <1>7
<1>9. ds \in Seq(C) /\ Len(ds) = n
  BY <1>8
<1>10. Dotted(ss) = ds
  BY <1>2, <1>3 DEF Dotted
<1> QED BY <1>1, <1>2, <1>7, <1>9, <1>10

LEMMA OnlyFlatten ==
  ASSUME NEW S, NEW kind, NEW ds \in Seq(Seq(S)), NEW ss \in Seq(Seq(S)), Len(ds) = Len(ss),
         \A i \in 1..Len(ss) : Only(ds[i], kind) = ss[i]
  PROVE  Only(FlattenSeq(ds), kind) = FlattenSeq(ss)
<1>1. PICK L : L = Seq(S)
  OBVIOUS
<1>2. PICK n \in Nat : n = Len(ss) /\ n = Len(ds)
  OBVIOUS
<1> DEFINE T == {k \in 0..n : Only(FlattenSeq(SubSeq(ds, 1, k)), kind) = FlattenSeq(SubSeq(ss, 1, k))}
<1>3. 0 \in T
  <2>1. SubSeq(ds, 1, 0) = <<>> /\ SubSeq(ss, 1, 0) = <<>> /\ 0 \in 0..n
    BY SubSeqEmpty
  <2> QED BY <2>1, FlattenIs, OnlyIs
<1>4. ASSUME NEW k \in 1..n, k - 1 \in T PROVE k \in T
  <2>1. PICK d \in L, dd \in Seq(L) : dd = SubSeq(ds, 1, k - 1) /\ d = ds[k] /\ SubSeq(ds, 1, k) = Append(dd, d)
    <3>1. ds \in Seq(L) /\ k \in 1..Len(ds)
      BY <1>1, <1>2
    <3>2. SubSeq(ds, 1, k - 1) \in Seq(L) /\ ds[k] \in L /\ SubSeq(ds, 1, k) = Append(SubSeq(ds, 1, k - 1), ds[k])
      BY <3>1, PrefixGrows
    <3> QED BY <3>2
  <2>2. PICK s \in L, tt \in Seq(L) : tt = SubSeq(ss, 1, k - 1) /\ s = ss[k] /\ SubSeq(ss, 1, k) = Append(tt, s)
    <3>1. ss \in Seq(L) /\ k \in 1..Len(ss)
      BY <1>1, <1>2
    <3>2. SubSeq(ss, 1, k - 1) \in Seq(L) /\ ss[k] \in L /\ SubSeq(ss, 1, k) = Append(SubSeq(ss, 1, k - 1), ss[k])
      BY <3>1, PrefixGrows
    <3> QED BY <3>2
  <2>3. FlattenSeq(Append(dd, d)) = FlattenSeq(dd) \o d /\ FlattenSeq(dd) \in L
    BY <1>1, FlattenIs DEF Cat
  <2>4. FlattenSeq(Append(tt, s)) = FlattenSeq(tt) \o s
    BY <1>1, FlattenIs DEF Cat
  <2>5. Only(FlattenSeq(dd) \o d, kind) = Only(FlattenSeq(dd), kind) \o Only(d, kind)
    BY <1>1, <2>3, OnlyCat
  <2>6. Only(FlattenSeq(dd), kind) = FlattenSeq(tt) /\ Only(d, kind) = s
    BY <1>2, <1>4, <2>1, <2>2
  <2>7. k \in 0..n
    OBVIOUS
  <2> QED BY <2>1, <2>2, <2>3, <2>4, <2>5, <2>6, <2>7
<1>5. n \in T
  <2> HIDE DEF T
  <2>1. \A k \in 0..n : k \in T
    BY <1>3, <1>4, UpTo
  <2> QED BY <2>1
<1>6. SubSeq(ds, 1, n) = ds /\ SubSeq(ss, 1, n) = ss
  BY <1>2, SubSeqFull
<1> QED BY <1>5, <1>6

LEMMA DotsDropped ==
  ASSUME NEW ss \in Seq(Seq(Letter)), NEW j, j = FlattenSeq(Dotted(ss))
  PROVE  Only(j, ToSet(j) \ {Dot}) = FlattenSeq(ss)
<1>1. PICK Char : Char = Letter \cup {Dot}
  OBVIOUS
<1>2. PICK ds \in Seq(Seq(Char)) : /\ ds = Dotted(ss) /\ Len(ds) = Len(ss)
                                   /\ \A i \in 1..Len(ss) : Only(ds[i], Letter) = ss[i]
  BY <1>1, DottedIs
<1>3. ss \in Seq(Seq(Char))
  <2>1. PICK L, C : L = Seq(Letter) /\ C = Seq(Char)
    OBVIOUS
  <2>2. L \subseteq C
    <3>1. Seq(Letter) \subseteq Seq(Char)
      BY <1>1
    <3> QED BY <2>1, <3>1
  <2>3. ss \in Seq(L)
    BY <2>1
  <2>4. ss \in Seq(C)
    BY <2>2, <2>3
  <2> QED BY <2>1, <2>4
<1>4. Only(j, Letter) = FlattenSeq(ss)
  BY <1>2, <1>3, OnlyFlatten
<1>5. j \in Seq(Char)
  BY <1>2, FlattenIs
<1>6. \A i \in 1..Len(j) : j[i] \in Letter <=> j[i] \in ToSet(j) \ {Dot}
  <2> TAKE i \in 1..Len(j)
  <2>1. j[i] \in Char
    BY <1>5
  <2>2. j[i] \in ToSet(j)
    <3>1. i \in DOMAIN j
      BY <1>5
    <3> QED BY <3>1 DEF ToSet
  <2>3. Dot \notin Letter
    BY SyllabifierAssumption
  <2> QED BY <1>1, <2>1, <2>2, <2>3
<1>7. Only(j, Letter) = Only(j, ToSet(j) \ {Dot})
  BY <1>5, <1>6, OnlySame
<1> QED BY <1>4, <1>7

(***************************************************************************)
(* The tokens of a word, behind those of the words before.                 *)
(***************************************************************************)
Token == [word_index : Nat, syl_index : Nat, syl_count : Nat, syllable : Seq(Letter), is_last : BOOLEAN]

Spelling(ts) == [k \in 1..Len(ts) |-> ts[k].syllable]

Short(ts) == \A k \in 1..Len(ts) : Len(ts[k].syllable) < SyllableLimit

Emitted(ss, w) ==
  [i \in 1..Len(ss) |-> [word_index |-> w, syl_index |-> i - 1, syl_count |-> Len(ss),
                         syllable |-> Stored(ss[i]), is_last |-> IsLast(i - 1, Len(ss))]]

OfWord(ts, n, w) ==
  \A i \in 1..n : /\ ts[i].word_index = w /\ ts[i].syl_index = i - 1 /\ ts[i].syl_count = n
                  /\ ts[i].is_last <=> i = n

LEMMA EmittedIs ==
  ASSUME NEW ss \in Seq(Seq(Letter)), NEW w \in Nat, NEW ts, ts = Emitted(ss, w)
  PROVE  /\ ts \in Seq(Token) /\ Len(ts) = Len(ss) /\ OfWord(ts, Len(ss), w)
         /\ Short(ts) => Spelling(ts) = ss
<1>1. PICK n, L : n \in Nat /\ n = Len(ss) /\ L = Seq(Letter) /\ ss \in [1..n -> L]
  OBVIOUS
<1>2. ASSUME NEW i \in 1..n
      PROVE  /\ ts[i] \in Token
             /\ ts[i].word_index = w /\ ts[i].syl_index = i - 1 /\ ts[i].syl_count = n
             /\ ts[i].syllable = Stored(ss[i])
             /\ ts[i].is_last <=> i = n
  <2>1. PICK e \in BOOLEAN : e = IsLast(i - 1, n) /\ (e <=> i = n)
    <3>1. IsLast(i - 1, n) \in BOOLEAN /\ (IsLast(i - 1, n) <=> i = n)
      BY <1>1 DEF IsLast
    <3> QED BY <3>1
  <2>2. PICK x, d : x = Stored(ss[i]) /\ d = i - 1
    OBVIOUS
  <2>3. ts[i] = [word_index |-> w, syl_index |-> d, syl_count |-> n, syllable |-> x, is_last |-> e]
    BY <1>1, <2>1, <2>2 DEF Emitted
  <2>4. x \in Seq(Letter)
    BY <1>1, <2>2, StoredIs
  <2>5. d \in Nat
    BY <2>2
  <2>6. ts[i] \in Token
    BY <1>1, <2>3, <2>4, <2>5 DEF Token
  <2>7. ts[i].word_index = w /\ ts[i].syl_index = d /\ ts[i].syl_count = n /\ ts[i].syllable = x
    BY <2>3
  <2>8. ts[i].is_last = e
    BY <2>3
  <2> QED BY <2>1, <2>2, <2>6, <2>7, <2>8
<1>3. PICK K : K = Token
  OBVIOUS
<1>4. ts \in [1..n -> K]
  <2>1. ts = [i \in 1..n |-> ts[i]]
    BY <1>1 DEF Emitted
  <2> QED BY <1>2, <1>3, <2>1
<1>5. ts \in Seq(K) /\ Len(ts) = n
  BY <1>1, <1>4
<1>6. OfWord(ts, n, w)
  BY <1>2 DEF OfWord
<1>7. ASSUME Short(ts) PROVE Spelling(ts) = ss
  <2>1. \A i \in 1..n : ts[i].syllable = ss[i]
    <3> TAKE i \in 1..n
    <3>1. ts[i].syllable = Stored(ss[i])
      BY <1>2
    <3>2. Len(Stored(ss[i])) < SyllableLimit
      BY <1>5, <1>7, <3>1 DEF Short
    <3>3. ss[i] \in Seq(Letter)
      BY <1>1
    <3> QED BY <3>1, <3>2, <3>3, StoredIs
  <2>2. Spelling(ts) = [i \in 1..n |-> ss[i]]
    BY <1>5, <2>1 DEF Spelling
  <2> QED BY <1>1, <2>2
<1> QED BY <1>1, <1>3, <1>5, <1>6, <1>7

LEMMA SpellingCat ==
  ASSUME NEW ts \in Seq(Token), NEW us \in Seq(Token)
  PROVE  /\ Spelling(ts) \in Seq(Seq(Letter))
         /\ Spelling(ts \o us) = Spelling(ts) \o Spelling(us)
         /\ Short(ts \o us) <=> Short(ts) /\ Short(us)
<1>1. PICK K, L : K = Token /\ L = Seq(Letter)
  OBVIOUS
<1>2. PICK m \in Nat, n \in Nat : m = Len(ts) /\ n = Len(us)
  OBVIOUS
<1>3. /\ ts \o us \in Seq(K) /\ Len(ts \o us) = m + n
      /\ \A i \in 1..m : (ts \o us)[i] = ts[i]
      /\ \A i \in 1..n : (ts \o us)[m + i] = us[i]
  BY <1>1, <1>2, CatIs
<1>4. \A t \in K : t.syllable \in L
  BY <1>1 DEF Token
<1>5. ASSUME NEW vs \in Seq(K)
      PROVE  /\ Spelling(vs) \in Seq(L) /\ Len(Spelling(vs)) = Len(vs)
             /\ \A i \in 1..Len(vs) : Spelling(vs)[i] = vs[i].syllable
  <2>1. PICK l \in Nat : l = Len(vs) /\ \A i \in 1..l : vs[i] \in K
    OBVIOUS
  <2>2. PICK sp : sp = [k \in 1..l |-> vs[k].syllable]
    OBVIOUS
  <2>3. sp \in [1..l -> L]
    BY <1>4, <2>1, <2>2
  <2>4. sp \in Seq(L) /\ Len(sp) = l
    BY <2>3
  <2>5. Spelling(vs) = sp
    BY <2>1, <2>2 DEF Spelling
  <2> QED BY <2>1, <2>2, <2>4, <2>5
<1>6. PICK a \in Seq(L), b \in Seq(L), c \in Seq(L) :
        /\ a = Spelling(ts) /\ b = Spelling(us) /\ c = Spelling(ts \o us)
        /\ Len(a) = m /\ Len(b) = n /\ Len(c) = m + n
        /\ \A i \in 1..m : a[i] = ts[i].syllable
        /\ \A i \in 1..n : b[i] = us[i].syllable
        /\ \A i \in 1..(m + n) : c[i] = (ts \o us)[i].syllable
  <2>1. ts \in Seq(K) /\ us \in Seq(K)
    BY <1>1
  <2>2. PICK vs \in Seq(K) : vs = ts \o us /\ Len(vs) = m + n
    BY <1>3
  <2>3. /\ Spelling(ts) \in Seq(L) /\ Len(Spelling(ts)) = m
        /\ \A i \in 1..m : Spelling(ts)[i] = ts[i].syllable
    BY <1>2, <1>5, <2>1
  <2>4. /\ Spelling(us) \in Seq(L) /\ Len(Spelling(us)) = n
        /\ \A i \in 1..n : Spelling(us)[i] = us[i].syllable
    BY <1>2, <1>5, <2>1
  <2>5. /\ Spelling(vs) \in Seq(L) /\ Len(Spelling(vs)) = m + n
        /\ \A i \in 1..(m + n) : Spelling(vs)[i] = vs[i].syllable
    BY <1>5, <2>2
  <2> QED BY <2>2, <2>3, <2>4, <2>5
<1>7. /\ a \o b \in Seq(L) /\ Len(a \o b) = m + n
      /\ \A i \in 1..m : (a \o b)[i] = a[i]
      /\ \A i \in 1..n : (a \o b)[m + i] = b[i]
  <2>1. a \in Seq(L) /\ b \in Seq(L) /\ m = Len(a) /\ n = Len(b)
    BY <1>6
  <2> HIDE <1>6
  <2> QED BY <2>1, CatIs
<1>8. \A i \in 1..(m + n) : i \in 1..m \/ \E k \in 1..n : i = m + k
  <2> TAKE i \in 1..(m + n)
  <2>1. i \in 1..m \/ (i - m \in 1..n /\ i = m + (i - m))
    OBVIOUS
  <2> QED BY <2>1
<1>9. \A i \in 1..m : i \in 1..(m + n)
  OBVIOUS
<1>10. \A k \in 1..n : m + k \in 1..(m + n)
  OBVIOUS
<1>11. c = a \o b
  <2>1. \A i \in 1..(m + n) : c[i] = (a \o b)[i]
    <3> TAKE i \in 1..(m + n)
    <3>1. CASE i \in 1..m
      <4>1. c[i] = (ts \o us)[i].syllable /\ (ts \o us)[i] = ts[i]
        BY <1>3, <1>6, <3>1
      <4>2. (a \o b)[i] = ts[i].syllable
        BY <1>6, <1>7, <3>1
      <4> QED BY <4>1, <4>2
    <3>2. ASSUME NEW k \in 1..n, i = m + k PROVE c[i] = (a \o b)[i]
      <4>1. c[i] = (ts \o us)[i].syllable /\ (ts \o us)[m + k] = us[k]
        BY <1>3, <1>6
      <4>2. (a \o b)[m + k] = us[k].syllable
        BY <1>6, <1>7
      <4> QED BY <3>2, <4>1, <4>2
    <3> QED BY <1>8, <3>1, <3>2
  <2> QED BY <1>6, <1>7, <2>1, SeqEqual
<1>12. Short(ts \o us) <=> Short(ts) /\ Short(us)
  <2>1. ASSUME Short(ts), Short(us) PROVE Short(ts \o us)
    <3>1. ASSUME NEW i \in 1..(m + n) PROVE Len((ts \o us)[i].syllable) < SyllableLimit
      <4>1. CASE i \in 1..m
        BY <1>2, <1>3, <2>1, <4>1 DEF Short
      <4>2. ASSUME NEW k \in 1..n, i = m + k PROVE Len((ts \o us)[i].syllable) < SyllableLimit
        BY <1>2, <1>3, <2>1, <4>2 DEF Short
      <4> QED BY <1>8, <3>1, <4>1, <4>2
    <3> QED BY <1>3, <3>1 DEF Short
  <2>2. ASSUME Short(ts \o us) PROVE Short(ts)
    <3>1. ASSUME NEW i \in 1..m PROVE Len(ts[i].syllable) < SyllableLimit
      BY <1>3, <1>9, <2>2 DEF Short
    <3> QED BY <1>2, <3>1 DEF Short
  <2>3. ASSUME Short(ts \o us) PROVE Short(us)
    <3>1. ASSUME NEW k \in 1..n PROVE Len(us[k].syllable) < SyllableLimit
      <4>1. Len((ts \o us)[m + k].syllable) < SyllableLimit
        BY <1>3, <1>10, <2>3 DEF Short
      <4> QED BY <1>3, <4>1
    <3> QED BY <1>2, <3>1 DEF Short
  <2> QED BY <2>1, <2>2, <2>3
<1> QED BY <1>1, <1>6, <1>11, <1>12

InOrder(ts) ==
  \A k \in 1..Len(ts) :
    LET t == ts[k]
        first == k = 1 \/ ts[k - 1].is_last
    IN /\ t.syl_index = IF first THEN 0 ELSE ts[k - 1].syl_index + 1
       /\ t.word_index = IF k = 1 THEN 0 ELSE ts[k - 1].word_index + (IF first THEN 1 ELSE 0)
       /\ t.is_last <=> (k = Len(ts) \/ ts[k + 1].word_index # t.word_index)
       /\ t.is_last <=> t.syl_index + 1 = t.syl_count

EndWord(ts, w) ==
  IF Len(ts) = 0 THEN w = 0
  ELSE ts[Len(ts)].is_last /\ w = ts[Len(ts)].word_index + 1

LEMMA OrderedCat ==
  ASSUME NEW ts \in Seq(Token), NEW us \in Seq(Token), NEW w \in Nat, InOrder(ts), EndWord(ts, w),
         Len(us) >= 1, OfWord(us, Len(us), w)
  PROVE  InOrder(ts \o us) /\ EndWord(ts \o us, w + 1)
<1>1. PICK K : K = Token
  OBVIOUS
<1>2. PICK m \in Nat, n \in Nat : m = Len(ts) /\ n = Len(us) /\ n >= 1
  OBVIOUS
<1>3. PICK vs : /\ vs = ts \o us /\ Len(vs) = m + n
                /\ \A i \in 1..m : vs[i] = ts[i]
                /\ \A i \in 1..n : vs[m + i] = us[i]
  <2>1. ts \in Seq(K) /\ us \in Seq(K)
    BY <1>1
  <2>2. /\ Len(ts \o us) = m + n
        /\ \A i \in 1..m : (ts \o us)[i] = ts[i]
        /\ \A i \in 1..n : (ts \o us)[m + i] = us[i]
    BY <1>2, <2>1, CatIs
  <2> QED BY <2>2
<1>4. /\ \A t \in K : t.word_index \in Nat
      /\ \A i \in 1..m : ts[i] \in K
  <2>1. \A t \in K : t.word_index \in Nat
    BY <1>1 DEF Token
  <2>2. ts \in Seq(K)
    BY <1>1
  <2> QED BY <1>2, <2>1, <2>2
<1>5. \A i \in 1..n : /\ vs[m + i].word_index = w /\ vs[m + i].syl_index = i - 1
                      /\ vs[m + i].syl_count = n /\ (vs[m + i].is_last <=> i = n)
  BY <1>2, <1>3 DEF OfWord
<1>6. m # 0 => vs[m].is_last /\ w = vs[m].word_index + 1 /\ vs[m].word_index \in Nat
  <2> SUFFICES ASSUME m # 0 PROVE vs[m].is_last /\ w = vs[m].word_index + 1 /\ vs[m].word_index \in Nat
    OBVIOUS
  <2>1. m \in 1..m
    OBVIOUS
  <2> QED BY <1>2, <1>3, <1>4, <2>1 DEF EndWord
<1>7. m = 0 => w = 0
  BY <1>2 DEF EndWord
<1> DEFINE Good(k) ==
      LET t == vs[k]
          first == k = 1 \/ vs[k - 1].is_last
      IN /\ t.syl_index = IF first THEN 0 ELSE vs[k - 1].syl_index + 1
         /\ t.word_index = IF k = 1 THEN 0 ELSE vs[k - 1].word_index + (IF first THEN 1 ELSE 0)
         /\ t.is_last <=> (k = m + n \/ vs[k + 1].word_index # t.word_index)
         /\ t.is_last <=> t.syl_index + 1 = t.syl_count
<1>8. ASSUME NEW k \in 1..m PROVE Good(k)
  <2>1. /\ vs[k] = ts[k]
        /\ k = 1 \/ (k - 1 \in 1..m /\ vs[k - 1] = ts[k - 1])
    <3>1. k = 1 \/ k - 1 \in 1..m
      OBVIOUS
    <3> QED BY <1>3, <3>1
  <2>2. LET t == ts[k]
            first == k = 1 \/ ts[k - 1].is_last
        IN /\ t.syl_index = IF first THEN 0 ELSE ts[k - 1].syl_index + 1
           /\ t.word_index = IF k = 1 THEN 0 ELSE ts[k - 1].word_index + (IF first THEN 1 ELSE 0)
           /\ t.is_last <=> (k = m \/ ts[k + 1].word_index # t.word_index)
           /\ t.is_last <=> t.syl_index + 1 = t.syl_count
    BY <1>2 DEF InOrder
  <2>3. k # m + n
    BY <1>2
  <2>4. vs[k].is_last <=> vs[k + 1].word_index # vs[k].word_index
    <3>1. CASE k = m
      <4>1. vs[m].is_last /\ w = vs[m].word_index + 1 /\ vs[m].word_index \in Nat
        BY <1>6, <3>1
      <4>2. 1 \in 1..n
        BY <1>2
      <4>3. vs[m + 1].word_index = w
        BY <1>5, <4>2
      <4>4. w # vs[m].word_index
        BY <4>1
      <4> QED BY <3>1, <4>1, <4>3, <4>4
    <3>2. CASE k # m
      <4>1. k + 1 \in 1..m
        BY <3>2
      <4>2. vs[k + 1] = ts[k + 1]
        BY <1>3, <4>1
      <4> QED BY <2>1, <2>2, <3>2, <4>2
    <3> QED BY <3>1, <3>2
  <2>5. CASE k = 1
    BY <2>1, <2>2, <2>3, <2>4, <2>5
  <2>6. CASE k # 1
    <3>1. vs[k] = ts[k] /\ vs[k - 1] = ts[k - 1]
      BY <2>1, <2>6
    <3> QED BY <2>2, <2>3, <2>4, <2>6, <3>1
  <2> QED BY <2>5, <2>6
<1>9. ASSUME NEW i \in 1..n PROVE Good(m + i)
  <2>1. PICK k \in Int : k = m + i
    OBVIOUS
  <2>2. /\ vs[k].word_index = w /\ vs[k].syl_index = i - 1
        /\ vs[k].syl_count = n /\ (vs[k].is_last <=> i = n)
    BY <1>5, <2>1
  <2>3. vs[k].is_last <=> (k = m + n \/ vs[k + 1].word_index # vs[k].word_index)
    <3>1. CASE i = n
      BY <2>1, <2>2, <3>1
    <3>2. CASE i # n
      <4>1. i + 1 \in 1..n /\ m + (i + 1) = k + 1 /\ k # m + n
        BY <2>1, <3>2
      <4>2. vs[k + 1].word_index = w
        <5>1. vs[m + (i + 1)].word_index = w
          BY <1>5, <4>1
        <5> QED BY <4>1, <5>1
      <4>3. ~vs[k].is_last
        BY <2>2, <3>2
      <4>4. vs[k + 1].word_index = vs[k].word_index
        BY <2>2, <4>2
      <4> QED BY <4>1, <4>3, <4>4
    <3> QED BY <3>1, <3>2
  <2>4. vs[k].is_last <=> vs[k].syl_index + 1 = vs[k].syl_count
    <3>1. (i - 1) + 1 = n <=> i = n
      OBVIOUS
    <3>2. vs[k].syl_index + 1 = vs[k].syl_count <=> i = n
      BY <2>2, <3>1
    <3>3. vs[k].is_last <=> i = n
      BY <2>2
    <3> QED BY <3>2, <3>3
  <2>5. CASE k = 1
    <3>1. i = 1 /\ m = 0
      BY <2>1, <2>5
    <3>2. w = 0 /\ i - 1 = 0
      BY <1>7, <3>1
    <3> QED BY <2>1, <2>2, <2>3, <2>4, <2>5, <3>2
  <2>6. CASE k # 1 /\ i = 1
    <3>1. m # 0 /\ k - 1 = m /\ i - 1 = 0
      BY <2>1, <2>6
    <3>2. vs[k - 1].is_last /\ w = vs[k - 1].word_index + 1
      BY <1>6, <3>1
    <3> QED BY <2>1, <2>2, <2>3, <2>4, <2>6, <3>1, <3>2
  <2>7. CASE k # 1 /\ i # 1
    <3>1. PICK j \in 1..n : j = i - 1 /\ m + j = k - 1 /\ j # n /\ (j - 1) + 1 = i - 1
      <4>1. i - 1 \in 1..n /\ m + (i - 1) = k - 1 /\ i - 1 # n /\ ((i - 1) - 1) + 1 = i - 1
        BY <2>1, <2>7
      <4> QED BY <4>1
    <3>2. vs[k - 1].word_index = w /\ vs[k - 1].syl_index = j - 1 /\ ~vs[k - 1].is_last
      <4>1. /\ vs[m + j].word_index = w /\ vs[m + j].syl_index = j - 1
            /\ vs[m + j].is_last <=> j = n
        BY <1>5
      <4>2. ~vs[m + j].is_last
        BY <3>1, <4>1
      <4> QED BY <3>1, <4>1, <4>2
    <3>3. w + 0 = w
      OBVIOUS
    <3> QED BY <2>1, <2>2, <2>3, <2>4, <2>7, <3>1, <3>2, <3>3
  <2> QED BY <2>5, <2>6, <2>7
<1>10. \A k \in 1..(m + n) : Good(k)
  <2> TAKE k \in 1..(m + n)
  <2> HIDE DEF Good
  <2>1. CASE k \in 1..m
    BY <1>8, <2>1
  <2>2. CASE k \notin 1..m
    <3>1. PICK i \in 1..n : k = m + i
      <4>1. k - m \in 1..n /\ k = m + (k - m)
        BY <2>2
      <4> QED BY <4>1
    <3> QED BY <1>9, <3>1
  <2> QED BY <2>1, <2>2
<1>11. InOrder(vs)
  BY <1>3, <1>10 DEF InOrder
<1>12. EndWord(vs, w + 1)
  <2>1. n \in 1..n /\ m + n # 0
    BY <1>2
  <2>2. vs[m + n].is_last /\ vs[m + n].word_index = w
    BY <1>5, <2>1
  <2> QED BY <1>3, <2>1, <2>2 DEF EndWord
<1> QED BY <1>3, <1>11, <1>12

(***************************************************************************)
(* The invariant.                                                          *)
(***************************************************************************)
Types ==
  /\ call \in Calls /\ p \in 0..Len(call.text)
  /\ word \in Seq(Letter) /\ words \in Nat /\ tokens \in Seq(Token)

(* One break was found per pair of vowels looked at, and the cut waits for *)
(* the last pair.                                                          *)
Breaking ==
  /\ Found(word, breaks) /\ Len(breaks) = vi
  /\ pc = "cut" => vi + 1 >= Len(VPos(word))

(* Which word it is.                                                       *)
Current ==
  /\ pc \in {"scan", "breaks", "cut", "returned"}
  /\ pc = "scan" \/ (pc = "returned" /\ call.of = "text") => word = <<>>
  /\ pc # "returned" => joined = <<>>
  /\ call.of = "word" /\ pc \in {"breaks", "cut"} => word = LettersOf(call.text)
  /\ call.of = "word" /\ pc = "returned" => Only(joined, ToSet(joined) \ {Dot}) = LettersOf(call.text)
  /\ call.of = "text" /\ pc = "returned" => p = Len(call.text)

(* The letters read are in the tokens and in the current word.             *)
Spelt ==
  call.of = "text" /\ Short(tokens) =>
    FlattenSeq(Spelling(tokens)) \o word = LettersOf(SubSeq(call.text, 1, p))

Inv == Types /\ Breaking /\ Current /\ Spelt /\ InOrder(tokens) /\ EndWord(tokens, words)

LEMMA NoneFound ==
  ASSUME NEW w \in Seq(Letter)
  PROVE  Found(w, <<>>)
<1>1. <<>> \in Seq(Int) /\ Len(<<>>) = 0
  OBVIOUS
<1> QED BY <1>1 DEF Found

LEMMA CallIs ==
  ASSUME call \in Calls
  PROVE  call.of \in {"text", "word"} /\ call.text \in Seq(ToSet(call.text))
BY SyllabifierAssumption

LEMMA FirstInv == Init => Inv
<1> SUFFICES ASSUME Init PROVE Inv
  OBVIOUS
<1>1. call \in Calls /\ pc = "scan" /\ p = 0 /\ words = 0
  BY DEF Init
<1>2. word = <<>> /\ vi = 0 /\ breaks = <<>> /\ tokens = <<>> /\ joined = <<>>
  BY DEF Init
<1>3. <<>> \in Seq(Letter) /\ <<>> \in Seq(Token) /\ Len(<<>>) = 0
  OBVIOUS
<1>4. PICK n \in Nat : n = Len(call.text) /\ 0 \in 0..n
  BY <1>1, CallIs
<1>5. Types
  BY <1>1, <1>2, <1>3, <1>4 DEF Types
<1>6. Breaking
  BY <1>1, <1>2, <1>3, NoneFound DEF Breaking
<1>7. Current
  BY <1>1, <1>2 DEF Current
<1>8. Spelt
  <2>1. Spelling(<<>>) = <<>>
    BY <1>3 DEF Spelling
  <2>2. FlattenSeq(<<>>) = <<>> /\ <<>> \o <<>> = <<>>
    BY FlattenIs
  <2>3. SubSeq(call.text, 1, 0) = <<>>
    BY SubSeqEmpty
  <2> QED BY <1>1, <1>2, <2>1, <2>2, <2>3, NoLetters DEF Spelt
<1>9. InOrder(tokens) /\ EndWord(tokens, words)
  BY <1>1, <1>2, <1>3 DEF InOrder, EndWord
<1> QED BY <1>5, <1>6, <1>7, <1>8, <1>9 DEF Inv

(***************************************************************************)
(* Every action keeps it.                                                  *)
(***************************************************************************)
(* What is read in front of a later place.                                 *)
LEMMA ReadOn ==
  ASSUME Types, NEW q \in p..Len(call.text)
  PROVE  /\ LettersOf(SubSeq(call.text, p + 1, q)) \in Seq(Letter)
         /\ LettersOf(SubSeq(call.text, 1, q)) =
              LettersOf(SubSeq(call.text, 1, p)) \o LettersOf(SubSeq(call.text, p + 1, q))
<1>1. PICK C : C = ToSet(call.text) /\ call.text \in Seq(C)
  BY CallIs DEF Types
<1>2. PICK n \in Nat : n = Len(call.text)
  BY <1>1
<1>3. p \in 0..n /\ q \in p..n
  BY <1>2 DEF Types
<1>4. SubSeq(call.text, 1, p) \o SubSeq(call.text, p + 1, q) = SubSeq(call.text, 1, q)
  <2>1. 1 \in 1..(Len(call.text) + 1) /\ p \in (1 - 1)..Len(call.text) /\ q \in p..Len(call.text)
    BY <1>2, <1>3
  <2> QED BY <1>1, <2>1, ConcatAdjacentSubSeq
<1>5. SubSeq(call.text, 1, p) \in Seq(C) /\ SubSeq(call.text, p + 1, q) \in Seq(C)
  <2>1. 1 \in Int /\ p \in Int /\ p + 1 \in Int /\ q \in Int
    BY <1>3
  <2>2. \A i \in 1..n : call.text[i] \in C
    BY <1>1, <1>2
  <2>3. \A i \in 1..p : i \in 1..n
    BY <1>3
  <2>4. \A i \in (p + 1)..q : i \in 1..n
    BY <1>3
  <2>5. (\A i \in 1..p : call.text[i] \in C) /\ (\A i \in (p + 1)..q : call.text[i] \in C)
    BY <2>2, <2>3, <2>4
  <2> QED BY <2>1, <2>5, SubSeqProperties
<1> QED BY <1>4, <1>5, LettersIs, LettersCat

LEMMA SkipKeeps ==
  ASSUME Inv, SkipNonAlpha
  PROVE  Inv'
<1>1. /\ pc = "scan" /\ call.of = "text" /\ p < Len(call.text) /\ call.text[p + 1] \notin Letter /\ p' = p + 1
      /\ UNCHANGED <<call, pc, words, word, vi, breaks, tokens, joined>>
  BY DEF SkipNonAlpha
<1>2. Types /\ Breaking /\ Current /\ Spelt /\ InOrder(tokens) /\ EndWord(tokens, words)
  BY DEF Inv
<1>3. PICK n, C : n \in Nat /\ n = Len(call.text) /\ call.text \in Seq(C) /\ p \in 0..n /\ p + 1 \in 0..n /\ p + 1 \in p..n
  <2>1. PICK n \in Nat : n = Len(call.text) /\ p \in 0..n
    BY <1>2, CallIs DEF Types
  <2>2. p + 1 \in 0..n /\ p + 1 \in p..n
    BY <1>1, <2>1
  <2> QED BY <1>2, <2>1, <2>2, CallIs DEF Types
<1>4. Types'
  BY <1>1, <1>2, <1>3 DEF Types
<1>5. Breaking' /\ Current'
  BY <1>1, <1>2 DEF Breaking, Current
<1>6. Spelt'
  <2>1. SubSeq(call.text, p + 1, p + 1) = <<call.text[p + 1]>>
    <3>1. PICK q \in 1..n : q = p + 1
      BY <1>3
    <3>2. call.text[q] \in C /\ (\A i \in q..q : call.text[i] \in C) /\ q \in Int
      BY <1>3, <3>1
    <3>3. PICK u \in Seq(C) : u = SubSeq(call.text, q, q) /\ Len(u) = 1 /\ u[1] = call.text[q]
      <4>1. (IF q <= q THEN q - q + 1 ELSE 0) = 1 /\ q - q + 1 = 1 /\ q + 1 - 1 = q
        OBVIOUS
      <4>2. /\ SubSeq(call.text, q, q) \in Seq(C)
            /\ Len(SubSeq(call.text, q, q)) = IF q <= q THEN q - q + 1 ELSE 0
            /\ \A i \in 1..(q - q + 1) : SubSeq(call.text, q, q)[i] = call.text[q + i - 1]
        BY <3>2, SubSeqProperties
      <4>3. 1 \in 1..(q - q + 1)
        BY <4>1
      <4>4. SubSeq(call.text, q, q)[1] = call.text[q + 1 - 1]
        BY <4>2, <4>3
      <4> QED BY <4>1, <4>2, <4>4
    <3>4. PICK v \in Seq(C) : v = <<call.text[q]>> /\ Len(v) = 1 /\ v[1] = call.text[q]
      <4>1. <<call.text[q]>> \in Seq(C) /\ Len(<<call.text[q]>>) = 1 /\ <<call.text[q]>>[1] = call.text[q]
        BY <3>2
      <4> QED BY <4>1
    <3>5. u = v
      <4>1. \A i \in 1..1 : u[i] = v[i]
        BY <3>3, <3>4
      <4> QED BY <3>3, <3>4, <4>1, SeqEqual
    <3> QED BY <3>1, <3>3, <3>4, <3>5
  <2>2. LettersOf(SubSeq(call.text, p + 1, p + 1)) = <<>>
    BY <1>1, <2>1, NoLetters
  <2>3. LettersOf(SubSeq(call.text, 1, p)) \in Seq(Letter)
    <3>1. p \in p..Len(call.text)
      BY <1>3
    <3>2. \A i \in 1..p : call.text[i] \in C
      BY <1>3
    <3>3. SubSeq(call.text, 1, p) \in Seq(C)
      BY <1>3, <3>2, SubSeqProperties
    <3> QED BY <3>3, LettersIs
  <2>4. LettersOf(SubSeq(call.text, 1, p + 1)) = LettersOf(SubSeq(call.text, 1, p))
    <3>1. LettersOf(SubSeq(call.text, 1, p + 1)) = LettersOf(SubSeq(call.text, 1, p)) \o <<>>
      BY <1>2, <1>3, <2>2, ReadOn
    <3> QED BY <2>3, <3>1, ConcatEmptySeq
  <2> QED BY <1>1, <1>2, <2>4 DEF Spelt, Short, Spelling
<1>7. InOrder(tokens)' /\ EndWord(tokens, words)'
  BY <1>1, <1>2 DEF InOrder, EndWord
<1> QED BY <1>4, <1>5, <1>6, <1>7 DEF Inv

LEMMA CollectKeeps ==
  ASSUME Inv, CollectWord
  PROVE  Inv'
<1>1. /\ pc = "scan" /\ call.of = "text" /\ p < Len(call.text)
      /\ word' = LettersOf(SubSeq(call.text, p + 1, WordEnd)) /\ vi' = 0 /\ breaks' = <<>> /\ pc' = "breaks"
      /\ p' = WordEnd /\ UNCHANGED <<call, words, tokens, joined>>
  BY DEF CollectWord, Begin
<1>2. Types /\ Breaking /\ Current /\ Spelt /\ InOrder(tokens) /\ EndWord(tokens, words)
  BY DEF Inv
<1>3. PICK n \in Nat : n = Len(call.text) /\ p \in 0..n
  BY <1>2, CallIs DEF Types
<1>4. WordEnd \in p..n /\ WordEnd \in 0..n
  <2>1. PICK S : S = {j \in p..n : j = n \/ call.text[j + 1] \notin Letter}
    OBVIOUS
  <2>2. S \in SUBSET Nat /\ n \in S /\ S \subseteq p..n
    BY <1>3, <2>1
  <2>3. Min(S) \in S
    BY <2>2, LeastIs
  <2>4. WordEnd = Min(S)
    BY <1>3, <2>1 DEF WordEnd
  <2>5. p..n \subseteq 0..n
    BY <1>3
  <2> QED BY <2>2, <2>3, <2>4, <2>5
<1>5. /\ word' \in Seq(Letter)
      /\ LettersOf(SubSeq(call.text, 1, p')) = LettersOf(SubSeq(call.text, 1, p)) \o word'
  BY <1>1, <1>2, <1>3, <1>4, ReadOn
<1>6. Types'
  BY <1>1, <1>2, <1>3, <1>4, <1>5 DEF Types
<1>7. Breaking'
  <2>1. Len(<<>>) = 0
    OBVIOUS
  <2> QED BY <1>1, <1>5, <2>1, NoneFound DEF Breaking
<1>8. Current'
  BY <1>1, <1>2 DEF Current
<1>9. Spelt'
  <2> SUFFICES ASSUME Short(tokens)
               PROVE  FlattenSeq(Spelling(tokens)) \o word' = LettersOf(SubSeq(call.text, 1, p'))
    BY <1>1 DEF Spelt, Short, Spelling
  <2>1. FlattenSeq(Spelling(tokens)) \o <<>> = LettersOf(SubSeq(call.text, 1, p))
    BY <1>1, <1>2 DEF Spelt, Current
  <2>2. FlattenSeq(Spelling(tokens)) \in Seq(Letter)
    <3>1. tokens \in Seq(Token)
      BY <1>2 DEF Types
    <3> QED BY <3>1, SpellingCat, FlattenIs
  <2>3. FlattenSeq(Spelling(tokens)) = LettersOf(SubSeq(call.text, 1, p))
    BY <2>1, <2>2, ConcatEmptySeq
  <2> QED BY <1>5, <2>3
<1>10. InOrder(tokens)' /\ EndWord(tokens, words)'
  BY <1>1, <1>2 DEF InOrder, EndWord
<1> QED BY <1>6, <1>7, <1>8, <1>9, <1>10 DEF Inv

LEMMA TakeKeeps ==
  ASSUME Inv, TakeWord
  PROVE  Inv'
<1>1. /\ pc = "scan" /\ call.of = "word"
      /\ word' = LettersOf(call.text) /\ vi' = 0 /\ breaks' = <<>> /\ pc' = "breaks"
      /\ p' = Len(call.text) /\ UNCHANGED <<call, words, tokens, joined>>
  BY DEF TakeWord, Begin
<1>2. Types /\ Breaking /\ Current /\ Spelt /\ InOrder(tokens) /\ EndWord(tokens, words)
  BY DEF Inv
<1>3. PICK n \in Nat : n = Len(call.text) /\ n \in 0..n
  BY <1>2, CallIs DEF Types
<1>4. word' \in Seq(Letter)
  BY <1>1, <1>2, CallIs, LettersIs DEF Types
<1>5. Types'
  BY <1>1, <1>2, <1>3, <1>4 DEF Types
<1>6. Breaking'
  <2>1. Len(<<>>) = 0
    OBVIOUS
  <2> QED BY <1>1, <1>4, <2>1, NoneFound DEF Breaking
<1>7. Current'
  BY <1>1, <1>2 DEF Current
<1>8. Spelt'
  BY <1>1 DEF Spelt
<1>9. InOrder(tokens)' /\ EndWord(tokens, words)'
  BY <1>1, <1>2 DEF InOrder, EndWord
<1> QED BY <1>5, <1>6, <1>7, <1>8, <1>9 DEF Inv

LEMMA FindKeeps ==
  ASSUME Inv, FindBreak
  PROVE  Inv'
<1>1. /\ pc = "breaks" /\ vi + 1 < Len(VPos(word))
      /\ breaks' = breaks \o BreakOf(word, vi + 1) /\ vi' = vi + 1
      /\ UNCHANGED <<call, pc, p, words, word, tokens, joined>>
  BY DEF FindBreak
<1>2. Types /\ Breaking /\ Current /\ Spelt /\ InOrder(tokens) /\ EndWord(tokens, words)
  BY DEF Inv
<1>3. word \in Seq(Letter)
  BY <1>2 DEF Types
<1>4. PICK l \in Nat : l = Len(VPos(word))
  <2>1. VPos(word) \in Seq(Int)
    BY <1>3, VPosIs DEF Marks
  <2> QED BY <2>1
<1>5. PICK bs \in Seq(Int) : bs = breaks /\ Len(bs) = vi /\ vi \in Nat
  BY <1>2 DEF Breaking, Found
<1>6. vi + 1 \in 1..(l - 1)
  BY <1>1, <1>4, <1>5
<1>7. PICK b \in Int : BreakOf(word, vi + 1) = <<b>>
  <2>1. vi + 1 \in 1..(Len(VPos(word)) - 1)
    BY <1>4, <1>6
  <2>2. PICK u \in Int, x \in Int : Pair(word, vi + 1, u, x)
    BY <1>3, <2>1, PairIs
  <2>3. PICK b \in 1..(Len(word) - 1) : BreakOf(word, vi + 1) = <<b>>
    BY <1>3, <2>2, BreakIs
  <2>4. b \in Int
    OBVIOUS
  <2> QED BY <2>3, <2>4
<1>8. PICK cs \in Seq(Int) : /\ cs = breaks' /\ Len(cs) = vi + 1 /\ cs[vi + 1] = b
                             /\ \A k \in 1..vi : cs[k] = bs[k]
  <2>1. PICK d \in Seq(Int) : d = <<b>> /\ Len(d) = 1 /\ d[1] = b
    <3>1. <<b>> \in Seq(Int) /\ Len(<<b>>) = 1 /\ <<b>>[1] = b
      OBVIOUS
    <3> QED BY <3>1
  <2>2. /\ bs \o d \in Seq(Int) /\ Len(bs \o d) = vi + 1
        /\ \A k \in 1..vi : (bs \o d)[k] = bs[k]
        /\ \A k \in 1..1 : (bs \o d)[vi + k] = d[k]
    BY <1>5, <2>1, CatIs
  <2>3. (bs \o d)[vi + 1] = b
    BY <2>1, <2>2
  <2> QED BY <1>1, <1>5, <1>7, <2>1, <2>2, <2>3
<1>9. Found(word, cs)
  <2>1. ASSUME NEW k \in 1..(vi + 1) PROVE k + 1 <= l /\ BreakOf(word, k) = <<cs[k]>>
    <3>1. k + 1 <= l
      BY <1>5, <1>6
    <3>2. CASE k = vi + 1
      BY <1>7, <1>8, <3>1, <3>2
    <3>3. CASE k # vi + 1
      <4>1. k \in 1..vi
        BY <1>5, <3>3
      <4>2. BreakOf(word, k) = <<bs[k]>>
        BY <1>2, <1>5, <4>1 DEF Breaking, Found
      <4> QED BY <1>8, <3>1, <4>1, <4>2
    <3> QED BY <3>2, <3>3
  <2> QED BY <1>4, <1>8, <2>1 DEF Found
<1>10. Types'
  BY <1>1, <1>2 DEF Types
<1>11. Breaking'
  BY <1>1, <1>8, <1>9 DEF Breaking
<1>12. Current'
  BY <1>1, <1>2 DEF Current
<1>13. Spelt'
  BY <1>1, <1>2 DEF Spelt, Short, Spelling
<1>14. InOrder(tokens)' /\ EndWord(tokens, words)'
  BY <1>1, <1>2 DEF InOrder, EndWord
<1> QED BY <1>10, <1>11, <1>12, <1>13, <1>14 DEF Inv

LEMMA EndBreaksKeeps ==
  ASSUME Inv, EndBreaks
  PROVE  Inv'
<1>1. /\ pc = "breaks" /\ vi + 1 >= Len(VPos(word)) /\ pc' = "cut"
      /\ UNCHANGED <<call, p, words, word, vi, breaks, tokens, joined>>
  BY DEF EndBreaks
<1>2. Types /\ Breaking /\ Current /\ Spelt /\ InOrder(tokens) /\ EndWord(tokens, words)
  BY DEF Inv
<1>3. Types'
  BY <1>1, <1>2 DEF Types
<1>4. Breaking'
  BY <1>1, <1>2 DEF Breaking
<1>5. Current'
  BY <1>1, <1>2 DEF Current
<1>6. Spelt'
  BY <1>1, <1>2 DEF Spelt, Short, Spelling
<1>7. InOrder(tokens)' /\ EndWord(tokens, words)'
  BY <1>1, <1>2 DEF InOrder, EndWord
<1> QED BY <1>3, <1>4, <1>5, <1>6, <1>7 DEF Inv

LEMMA EmitKeeps ==
  ASSUME Inv, EmitTokens
  PROVE  Inv'
<1>1. /\ pc = "cut" /\ call.of = "text" /\ tokens' = tokens \o Emitted(Syllables, words) /\ words' = words + 1
      /\ pc' = "scan" /\ word' = <<>> /\ vi' = 0 /\ breaks' = <<>> /\ UNCHANGED <<call, p, joined>>
  BY DEF EmitTokens, Emitted
<1>2. Types /\ Breaking /\ Current /\ Spelt /\ InOrder(tokens) /\ EndWord(tokens, words)
  BY DEF Inv
<1>3. word \in Seq(Letter) /\ words \in Nat /\ tokens \in Seq(Token)
  BY <1>2 DEF Types
<1>4. /\ Syllables \in Seq(Seq(Letter)) /\ Len(Syllables) >= 1
      /\ FlattenSeq(Syllables) = word
  <2>1. Found(word, breaks)
    BY <1>2 DEF Breaking
  <2>2. Len(breaks) \in Nat
    BY <2>1 DEF Found
  <2> QED BY <1>3, <2>1, <2>2, FoundRejoin DEF Syllables
<1>5. PICK us : us = Emitted(Syllables, words) /\ us \in Seq(Token) /\ tokens' = tokens \o us
  BY <1>1, <1>3, <1>4, EmittedIs
<1>6. /\ Len(us) >= 1 /\ OfWord(us, Len(us), words)
      /\ Short(us) => Spelling(us) = Syllables
  BY <1>3, <1>4, <1>5, EmittedIs
<1>7. tokens' \in Seq(Token)
  <2>1. PICK K : K = Token
    OBVIOUS
  <2>2. tokens \in Seq(K) /\ us \in Seq(K)
    BY <1>3, <1>5, <2>1
  <2>3. tokens \o us \in Seq(K)
    BY <2>2
  <2> QED BY <1>5, <2>1, <2>3
<1>8. Types'
  BY <1>1, <1>2, <1>3, <1>7 DEF Types
<1>9. Breaking'
  <2>1. Len(<<>>) = 0 /\ <<>> \in Seq(Letter)
    OBVIOUS
  <2> QED BY <1>1, <2>1, NoneFound DEF Breaking
<1>10. Current'
  BY <1>1, <1>2 DEF Current
<1>11. Spelt'
  <2> SUFFICES ASSUME Short(tokens')
               PROVE  FlattenSeq(Spelling(tokens')) \o <<>> = LettersOf(SubSeq(call.text, 1, p))
    BY <1>1 DEF Spelt, Short, Spelling
  <2>1. Short(tokens) /\ Short(us)
    BY <1>3, <1>5, SpellingCat
  <2>2. Spelling(tokens') = Spelling(tokens) \o Syllables /\ Spelling(tokens) \in Seq(Seq(Letter))
    BY <1>3, <1>5, <1>6, <2>1, SpellingCat
  <2>3. FlattenSeq(Spelling(tokens')) = FlattenSeq(Spelling(tokens)) \o word
    BY <1>4, <2>2, FlattenCat
  <2>4. FlattenSeq(Spelling(tokens)) \o word = LettersOf(SubSeq(call.text, 1, p))
    BY <1>1, <1>2, <2>1 DEF Spelt
  <2>5. FlattenSeq(Spelling(tokens)) \o word \in Seq(Letter)
    <3>1. FlattenSeq(Spelling(tokens)) \in Seq(Letter)
      BY <2>2, FlattenIs
    <3> QED BY <1>3, <3>1, ConcatProperties
  <2> QED BY <2>3, <2>4, <2>5, ConcatEmptySeq
<1>12. InOrder(tokens') /\ EndWord(tokens', words + 1)
  BY <1>2, <1>3, <1>5, <1>6, OrderedCat
<1>13. InOrder(tokens)' /\ EndWord(tokens, words)'
  BY <1>1, <1>12 DEF InOrder, EndWord
<1> QED BY <1>8, <1>9, <1>10, <1>11, <1>13 DEF Inv

LEMMA JoinKeeps ==
  ASSUME Inv, Join
  PROVE  Inv'
<1>1. /\ pc = "cut" /\ call.of = "word" /\ joined' = FlattenSeq(Dotted(Syllables)) /\ pc' = "returned"
      /\ UNCHANGED <<call, p, words, word, vi, breaks, tokens>>
  BY DEF Join, Dotted
<1>2. Types /\ Breaking /\ Current /\ Spelt /\ InOrder(tokens) /\ EndWord(tokens, words)
  BY DEF Inv
<1>3. Types'
  BY <1>1, <1>2 DEF Types
<1>4. Breaking'
  BY <1>1, <1>2 DEF Breaking
<1>5. Only(joined', ToSet(joined') \ {Dot}) = LettersOf(call.text)
  <2>1. word \in Seq(Letter) /\ Found(word, breaks) /\ word = LettersOf(call.text)
    BY <1>1, <1>2 DEF Types, Breaking, Current
  <2>2. Syllables \in Seq(Seq(Letter)) /\ FlattenSeq(Syllables) = word
    BY <2>1, FoundRejoin DEF Syllables
  <2> QED BY <1>1, <2>1, <2>2, DotsDropped
<1>6. Current'
  <2>1. ToSet(joined)' = ToSet(joined')
    BY DEF ToSet
  <2>2. Only(joined, ToSet(joined) \ {Dot})' = Only(joined', ToSet(joined') \ {Dot})
    BY DEF Only, ToSet
  <2>3. LettersOf(call.text)' = LettersOf(call.text)
    BY <1>1 DEF LettersOf, Only
  <2> QED BY <1>1, <1>5, <2>2, <2>3 DEF Current
<1>7. Spelt'
  BY <1>1 DEF Spelt
<1>8. InOrder(tokens)' /\ EndWord(tokens, words)'
  BY <1>1, <1>2 DEF InOrder, EndWord
<1> QED BY <1>3, <1>4, <1>6, <1>7, <1>8 DEF Inv

LEMMA ReturnKeeps ==
  ASSUME Inv, Return
  PROVE  Inv'
<1>1. /\ pc = "scan" /\ IF call.of = "text" THEN p = Len(call.text) ELSE LettersOf(call.text) = <<>>
      /\ pc' = "returned" /\ UNCHANGED <<call, p, words, word, vi, breaks, tokens, joined>>
  BY DEF Return
<1>2. Types /\ Breaking /\ Current /\ Spelt /\ InOrder(tokens) /\ EndWord(tokens, words)
  BY DEF Inv
<1>3. Types'
  BY <1>1, <1>2 DEF Types
<1>4. Breaking'
  BY <1>1, <1>2 DEF Breaking
<1>5. Current'
  <2>1. joined' = <<>> /\ word' = <<>> /\ call' = call /\ p' = p
    BY <1>1, <1>2 DEF Current
  <2>2. call.of = "word" => Only(joined', ToSet(joined') \ {Dot}) = LettersOf(call.text)
    BY <1>1, <2>1, OnlyIs
  <2>3. Only(joined, ToSet(joined) \ {Dot})' = Only(joined', ToSet(joined') \ {Dot})
    BY DEF Only, ToSet
  <2>4. LettersOf(call.text)' = LettersOf(call.text)
    BY <2>1 DEF LettersOf, Only
  <2> QED BY <1>1, <2>1, <2>2, <2>3, <2>4 DEF Current
<1>6. Spelt'
  BY <1>1, <1>2 DEF Spelt, Short, Spelling
<1>7. InOrder(tokens)' /\ EndWord(tokens, words)'
  BY <1>1, <1>2 DEF InOrder, EndWord
<1> QED BY <1>3, <1>4, <1>5, <1>6, <1>7 DEF Inv

LEMMA StutterKeeps ==
  ASSUME Inv, UNCHANGED vars
  PROVE  Inv'
<1>1. UNCHANGED <<call, pc, p, words, word, vi, breaks, tokens, joined>>
  BY DEF vars
<1>2. Types /\ Breaking /\ Current /\ Spelt /\ InOrder(tokens) /\ EndWord(tokens, words)
  BY DEF Inv
<1> QED BY <1>1, <1>2 DEF Inv, Types, Breaking, Current, Spelt, Short, Spelling, InOrder, EndWord

LEMMA AlwaysInv == Spec => []Inv
<1>1. Init => Inv
  BY FirstInv
<1>2. Inv /\ [Next]_vars => Inv'
  <2> SUFFICES ASSUME Inv, [Next]_vars PROVE Inv'
    OBVIOUS
  <2>1. CASE SkipNonAlpha
    BY <2>1, SkipKeeps
  <2>2. CASE CollectWord
    BY <2>2, CollectKeeps
  <2>3. CASE TakeWord
    BY <2>3, TakeKeeps
  <2>4. CASE FindBreak
    BY <2>4, FindKeeps
  <2>5. CASE EndBreaks
    BY <2>5, EndBreaksKeeps
  <2>6. CASE EmitTokens
    BY <2>6, EmitKeeps
  <2>7. CASE Join
    BY <2>7, JoinKeeps
  <2>8. CASE Return
    BY <2>8, ReturnKeeps
  <2>9. CASE UNCHANGED vars
    BY <2>9, StutterKeeps
  <2> QED BY <2>1, <2>2, <2>3, <2>4, <2>5, <2>6, <2>7, <2>8, <2>9 DEF Next
<1> QED BY <1>1, <1>2, PTL DEF Spec

(***************************************************************************)
(* The theorems.                                                           *)
(***************************************************************************)

(* Nothing of a text is lost or made up: the syllables that syllabify_text *)
(* returns spell its letters in order, unless one fills a token's buffer,  *)
(* and what meteor_syllabify_word returns is its word with dots in it.     *)
THEOREM SyllablesRejoin == Spec => []WordsRejoin
<1>1. Inv => WordsRejoin
  <2> SUFFICES ASSUME Inv, pc = "returned" PROVE WordsRejoin
    BY DEF WordsRejoin
  <2>1. Types /\ Current /\ Spelt
    BY DEF Inv
  <2>2. CASE call.of = "word"
    BY <2>1, <2>2 DEF Current, WordsRejoin
  <2>3. CASE call.of = "text"
    <3>1. p = Len(call.text) /\ word = <<>>
      BY <2>1, <2>3 DEF Current
    <3>2. SubSeq(call.text, 1, p) = call.text
      BY <2>1, <3>1, CallIs, SubSeqFull DEF Types
    <3>3. ASSUME Short(tokens) PROVE FlattenSeq(Spelling(tokens)) = LettersOf(call.text)
      <4>1. FlattenSeq(Spelling(tokens)) \o <<>> = LettersOf(call.text)
        BY <2>1, <2>3, <3>1, <3>2, <3>3 DEF Spelt
      <4>2. tokens \in Seq(Token)
        BY <2>1 DEF Types
      <4>3. FlattenSeq(Spelling(tokens)) \in Seq(Letter)
        BY <4>2, SpellingCat, FlattenIs
      <4> QED BY <4>1, <4>3, ConcatEmptySeq
    <3> QED BY <2>3, <3>3 DEF WordsRejoin, Short, Spelling
  <2> QED BY <2>1, <2>2, <2>3, CallIs DEF Types
<1> QED BY <1>1, AlwaysInv, PTL

(* The tokens number the words of a text and the syllables of each without *)
(* a gap, and mark the last syllable of every word and no other.           *)
THEOREM TokensNumbered == Spec => []TokensInOrder
<1>1. Inv => TokensInOrder
  BY DEF Inv, InOrder, TokensInOrder
<1> QED BY <1>1, AlwaysInv, PTL

(* No break leaves consonants on their own: every syllable of a word with  *)
(* vowels has a vowel, or is the empty one among three that touch.         *)
THEOREM SyllablesHaveNuclei == Spec => []NucleusInEach
<1>1. Inv => NucleusInEach
  <2> SUFFICES ASSUME Inv, pc = "cut", VPos(word) # <<>>, NEW i \in 1..Len(Syllables)
               PROVE  Nucleus(word, breaks, Syllables, i)
    BY DEF NucleusInEach, Nucleus
  <2>1. word \in Seq(Letter) /\ Found(word, breaks) /\ Len(breaks) = vi /\ vi + 1 >= Len(VPos(word))
    BY DEF Inv, Types, Breaking
  <2>2. PICK l \in Nat : l = Len(VPos(word)) /\ l # 0
    <3>1. VPos(word) \in Seq(Int)
      BY <2>1, VPosIs DEF Marks
    <3> QED BY <3>1
  <2>3. PICK m \in Nat : m = Len(breaks)
    BY <2>1 DEF Found
  <2>4. Len(VPos(word)) = Len(breaks) + 1
    <3>1. CASE m = 0
      BY <2>1, <2>2, <2>3, <3>1
    <3>2. CASE m # 0
      <4>1. m \in 1..m
        BY <3>2
      <4>2. m + 1 <= l
        BY <2>1, <2>2, <2>3, <4>1 DEF Found
      <4> QED BY <2>1, <2>2, <2>3, <4>2
    <3> QED BY <3>1, <3>2
  <2>5. PICK syl : syl = Pieces(word, Sorted(breaks)) /\ syl = Syllables
    BY DEF Syllables
  <2>6. i \in 1..Len(syl)
    BY <2>5
  <2>7. Nucleus(word, breaks, syl, i)
    BY <2>1, <2>4, <2>5, <2>6, FoundNucleus
  <2> QED BY <2>5, <2>7
<1> QED BY <1>1, AlwaysInv, PTL

(* A cut between the letters of a digraph comes only from stepping off the *)
(* digraph in front of it.                                                 *)
THEOREM DigraphsUncut == Spec => []DigraphsKept
<1>1. Inv => DigraphsKept
  <2> SUFFICES ASSUME Inv, NEW i \in 1..Len(breaks) PROVE DigraphKept(word, breaks[i])
    BY DEF DigraphsKept, DigraphKept
  <2>1. word \in Seq(Letter) /\ Found(word, breaks)
    BY DEF Inv, Types, Breaking
  <2> QED BY <2>1, FoundIs
<1> QED BY <1>1, AlwaysInv, PTL
=============================================================================
