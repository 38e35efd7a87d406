----------------------------- MODULE CodecProofs -----------------------------
(***************************************************************************)
(* The codec, for any model, message, table, key, keystream and budget:    *)
(* the decoder's loop, fed with nothing but the covertext, goes through    *)
(* the steps of the encoder's, and the message comes back.                 *)
(*                                                                         *)
(* The first half is the codec with a style; its invariant is SInv.        *)
(* Encoded says what asked records: n phrases led to Before(n), each step  *)
(* is what EncodePhrase makes of the answer to its prompt, and the text    *)
(* only grows, so no two prompts are the same.  Decoded says where the     *)
(* decoder is: it has made n of those steps, stands in the covertext       *)
(* behind the n-th phrase and has the encoder's locals (InStep), or it has *)
(* gone past the last of them with its buffer full (OffTheEnd).            *)
(*                                                                         *)
(* The second half is the syllable mode; its invariant is WInv, of Written *)
(* for the encoder and ReadBack for the decoder.  At its end are the six   *)
(* theorems on both modes, TypeCorrect with an invariant of its own, TInv. *)
(***************************************************************************)
EXTENDS Codec, SlotCodingProofs, SequenceTheorems

(***************************************************************************)
(* Sequences.                                                              *)
(***************************************************************************)
Drop(s, m) == SubSeq(s, m + 1, Len(s))

LEMMA DropIs ==
  ASSUME NEW S, NEW s \in Seq(S), NEW m \in 0..Len(s)
  PROVE  /\ Drop(s, m) \in Seq(S) /\ Len(Drop(s, m)) = Len(s) - m
         /\ \A k \in 1..(Len(s) - m) : Drop(s, m)[k] = s[m + k]
<1>1. Len(s) \in Nat /\ \A k \in (m + 1)..Len(s) : s[k] \in S
  OBVIOUS
<1>2. PICK a \in Int, b \in Int : a = m + 1 /\ b = Len(s) /\ a <= b + 1
  BY <1>1
<1>3. /\ SubSeq(s, a, b) \in Seq(S)
      /\ Len(SubSeq(s, a, b)) = IF a <= b THEN b - a + 1 ELSE 0
      /\ \A k \in 1 .. b - a + 1 : SubSeq(s, a, b)[k] = s[a + k - 1]
  BY <1>1, <1>2, SubSeqProperties
<1>4. Drop(s, m) = SubSeq(s, a, b)
  BY <1>2 DEF Drop
<1>5. Len(Drop(s, m)) = Len(s) - m
  BY <1>1, <1>2, <1>3, <1>4
<1>6. ASSUME NEW k \in 1..(Len(s) - m) PROVE Drop(s, m)[k] = s[m + k]
  <2>1. k \in 1..(b - a + 1) /\ a + k - 1 = m + k
    BY <1>1, <1>2
  <2> QED BY <1>3, <1>4, <2>1
<1> QED BY <1>3, <1>4, <1>5, <1>6, Zenon

LEMMA DropConcat ==
  ASSUME NEW S, NEW s \in Seq(S), NEW t \in Seq(S)
  PROVE  Drop(s \o t, Len(s)) = t
<1>1. PICK u \in Seq(S) : u = s \o t /\ Len(u) = Len(s) + Len(t)
  BY ConcatProperties, Zenon
<1>2. \A k \in 1..Len(u) : u[k] = IF k <= Len(s) THEN s[k] ELSE t[k - Len(s)]
  BY <1>1, ConcatProperties
<1>3. PICK m \in Nat, n \in Nat : m = Len(s) /\ n = Len(t)
  OBVIOUS
<1>4. m \in 0..Len(u) /\ Len(u) - m = n
  BY <1>1, <1>3
<1>5. /\ Drop(u, m) \in Seq(S) /\ Len(Drop(u, m)) = n
      /\ \A k \in 1..n : Drop(u, m)[k] = u[m + k]
  BY <1>1, <1>4, DropIs, Zenon
<1>6. \A k \in 1..n : Drop(u, m)[k] = t[k]
  <2> SUFFICES ASSUME NEW k \in 1..n PROVE u[m + k] = t[k]
    BY <1>5
  <2>1. m + k \in 1..Len(u) /\ ~(m + k <= m) /\ (m + k) - m = k
    BY <1>1, <1>3
  <2> QED BY <1>2, <1>3, <2>1
<1>7. Drop(u, m) = t
  BY <1>3, <1>5, <1>6, SeqEqual
<1> QED BY <1>1, <1>3, <1>7

LEMMA PrefixIs ==
  ASSUME NEW S, NEW s \in Seq(S), NEW u \in Seq(S)
  PROVE  IsPrefix(s, u) <=> Len(s) <= Len(u) /\ \A k \in 1..Len(s) : s[k] = u[k]
<1>1. PICK m \in Nat, n \in Nat : m = Len(s) /\ n = Len(u)
  OBVIOUS
<1>2. SubSeq(s, 1, m) = s
  BY <1>1, SubSeqFull
<1>3. CASE m <= n
  <2>1. \A k \in 1..m : u[k] \in S
    BY <1>1, <1>3
  <2>2. PICK one \in Int : one = 1
    OBVIOUS
  <2>3. /\ SubSeq(u, one, m) \in Seq(S)
        /\ Len(SubSeq(u, one, m)) = IF one <= m THEN m - one + 1 ELSE 0
        /\ \A k \in 1 .. m - one + 1 : SubSeq(u, one, m)[k] = u[one + k - 1]
    BY <2>1, <2>2, SubSeqProperties
  <2>4. PICK v \in Seq(S) : v = SubSeq(u, 1, m) /\ Len(v) = m
    <3>1. Len(SubSeq(u, one, m)) = m
      BY <1>1, <2>2, <2>3
    <3>2. SubSeq(u, one, m) = SubSeq(u, 1, m)
      BY <2>2
    <3> QED BY <2>3, <3>1, <3>2, Zenon
  <2>5. \A k \in 1..m : v[k] = u[k]
    <3> SUFFICES ASSUME NEW k \in 1..m PROVE v[k] = u[k]
      OBVIOUS
    <3>1. k \in 1..(m - one + 1) /\ one + k - 1 = k
      BY <1>1, <2>2
    <3> QED BY <2>2, <2>3, <2>4, <3>1
  <2>6. s = v <=> \A k \in 1..m : s[k] = v[k]
    BY <1>1, <2>4, SeqEqual
  <2> QED BY <1>1, <1>2, <1>3, <2>4, <2>5, <2>6 DEF IsPrefix
<1>4. CASE ~(m <= n)
  BY <1>1, <1>4 DEF IsPrefix
<1> QED BY <1>3, <1>4

LEMMA PrefixRest ==
  ASSUME NEW S, NEW s \in Seq(S), NEW u \in Seq(S), IsPrefix(s, u)
  PROVE  Drop(u, Len(s)) \in Seq(S) /\ u = s \o Drop(u, Len(s))
<1>1. Len(s) \in 0..Len(u) /\ \A k \in 1..Len(s) : s[k] = u[k]
  BY PrefixIs
<1>2. PICK m \in Nat, n \in Nat : m = Len(s) /\ n = Len(u) /\ m <= n
  BY <1>1
<1>3. PICK d \in Seq(S) : d = Drop(u, m) /\ Len(d) = n - m /\ \A k \in 1..(n - m) : d[k] = u[m + k]
  <2>1. m \in 0..Len(u)
    BY <1>2
  <2>2. /\ Drop(u, m) \in Seq(S) /\ Len(Drop(u, m)) = Len(u) - m
        /\ \A k \in 1..(Len(u) - m) : Drop(u, m)[k] = u[m + k]
    BY <2>1, DropIs
  <2> QED BY <1>2, <2>2
<1>4. PICK w \in Seq(S) : w = s \o d /\ Len(w) = n
  <2>1. s \o d \in Seq(S) /\ Len(s \o d) = Len(s) + Len(d)
    BY <1>3, ConcatProperties
  <2>2. Len(s) + Len(d) = n
    BY <1>2, <1>3
  <2> QED BY <2>1, <2>2, Zenon
<1>5. \A k \in 1..n : w[k] = IF k <= m THEN s[k] ELSE d[k - m]
  BY <1>2, <1>3, <1>4, ConcatProperties
<1>6. ASSUME NEW k \in 1..n PROVE w[k] = u[k]
  <2>1. CASE k <= m
    <3>1. k \in 1..m
      BY <1>2, <2>1
    <3> QED BY <1>1, <1>2, <1>5, <2>1, <3>1
  <2>2. CASE ~(k <= m)
    <3>1. k - m \in 1..(n - m) /\ m + (k - m) = k
      BY <1>2, <2>2
    <3> QED BY <1>3, <1>5, <2>2, <3>1
  <2> QED BY <2>1, <2>2
<1>7. w = u
  BY <1>2, <1>4, <1>6, SeqEqual, Zenon
<1> QED BY <1>2, <1>3, <1>4, <1>7

LEMMA PrefixOfConcat ==
  ASSUME NEW S, NEW s \in Seq(S), NEW t \in Seq(S)
  PROVE  IsPrefix(s, s \o t)
<1>1. s \o t \in Seq(S) /\ Len(s \o t) = Len(s) + Len(t)
      /\ \A k \in 1..(Len(s) + Len(t)) : (s \o t)[k] = IF k <= Len(s) THEN s[k] ELSE t[k - Len(s)]
  BY ConcatProperties
<1>2. Len(s) \in Nat /\ Len(t) \in Nat
  OBVIOUS
<1>3. \A k \in 1..Len(s) : s[k] = (s \o t)[k]
  BY <1>1, <1>2
<1>4. Len(s) <= Len(s \o t)
  BY <1>1, <1>2
<1> QED BY <1>1, <1>3, <1>4, PrefixIs, Zenon

LEMMA PrefixTransitive ==
  ASSUME NEW S, NEW s \in Seq(S), NEW t \in Seq(S), NEW u \in Seq(S), IsPrefix(s, t), IsPrefix(t, u)
  PROVE  IsPrefix(s, u)
<1>1. Len(s) <= Len(t) /\ \A k \in 1..Len(s) : s[k] = t[k]
  BY PrefixIs
<1>2. Len(t) <= Len(u) /\ \A k \in 1..Len(t) : t[k] = u[k]
  BY PrefixIs
<1>3. Len(s) \in Nat /\ Len(t) \in Nat /\ Len(u) \in Nat
  OBVIOUS
<1>4. \A k \in 1..Len(s) : s[k] = u[k]
  BY <1>1, <1>2, <1>3
<1> QED BY <1>1, <1>2, <1>3, <1>4, PrefixIs
(***************************************************************************)
(* Skipping spaces.                                                        *)
(***************************************************************************)
LEMMA SkipSpacesIs ==
  ASSUME NEW S, NEW s \in Seq(S)
  PROVE  \E n \in 0..Len(s) : /\ SkipSpaces(s) = Drop(s, n)
                              /\ \A k \in 1..n : s[k] = Space
                              /\ n < Len(s) => s[n + 1] # Space
<1> DEFINE Blank(n) == (\A k \in 1..n : s[k] = Space) /\ (n < Len(s) => s[n + 1] # Space)
           T == {n \in 0..Len(s) : n < Len(s) => s[n + 1] # Space}
<1>1. T \subseteq Nat /\ T # {}
  <2>1. Len(s) \in Nat
    OBVIOUS
  <2>2. Len(s) \in T
    BY <2>1
  <2> QED BY <2>1, <2>2
<1>2. PICK n \in T : \A m \in T : n <= m
  <2> HIDE DEF T
  <2> QED BY <1>1, LeastNatural, Zenon
<1>3. n \in 0..Len(s) /\ Blank(n)
  <2>1. n \in 0..Len(s) /\ (n < Len(s) => s[n + 1] # Space) /\ Len(s) \in Nat
    BY <1>2
  <2>2. ASSUME NEW k \in 1..n PROVE s[k] = Space
    <3>1. k - 1 \in 0..Len(s) /\ ~(n <= k - 1) /\ (k - 1) + 1 = k
      BY <2>1
    <3> QED BY <1>2, <3>1, Zenon
  <2> QED BY <2>1, <2>2
<1>4. PICK b : b = CHOOSE m \in 0..Len(s) : Blank(m)
  OBVIOUS
<1>5. b \in 0..Len(s) /\ Blank(b)
  <2> HIDE DEF Blank
  <2> QED BY <1>3, <1>4
<1>6. SkipSpaces(s) = Drop(s, b)
  BY <1>4 DEF SkipSpaces, Drop
<1> QED BY <1>5, <1>6

LEMMA SkipSpacesType ==
  ASSUME NEW S, NEW s \in Seq(S)
  PROVE  SkipSpaces(s) \in Seq(S)
<1>1. PICK n \in 0..Len(s) : SkipSpaces(s) = Drop(s, n)
  BY SkipSpacesIs
<1> QED BY <1>1, DropIs

LEMMA DropNone ==
  ASSUME NEW S, NEW s \in Seq(S)
  PROVE  Drop(s, 0) = s
<1>1. Drop(s, 0) = SubSeq(s, 1, Len(s))
  BY DEF Drop
<1> QED BY <1>1, SubSeqFull

LEMMA SkipNone ==
  ASSUME NEW S, NEW s \in Seq(S), s # <<>> => s[1] # Space
  PROVE  SkipSpaces(s) = s
<1>1. PICK n \in 0..Len(s) : SkipSpaces(s) = Drop(s, n) /\ \A k \in 1..n : s[k] = Space
  BY SkipSpacesIs
<1>2. n = 0
  <2> SUFFICES ASSUME n # 0 PROVE FALSE
    OBVIOUS
  <2>1. 1 \in 1..n /\ s # <<>>
    OBVIOUS
  <2> QED BY <1>1, <2>1
<1> QED BY <1>1, <1>2, DropNone

LEMMA SkipOne ==
  ASSUME NEW S, Space \in S, NEW s \in Seq(S), s # <<>>, s[1] # Space
  PROVE  SkipSpaces(<<Space>> \o s) = s
<1>1. PICK g \in Seq(S) : g = <<Space>> /\ Len(g) = 1 /\ g[1] = Space
  <2>1. PICK c \in S : c = Space
    OBVIOUS
  <2>2. <<c>> \in Seq(S) /\ Len(<<c>>) = 1 /\ <<c>>[1] = c
    OBVIOUS
  <2> QED BY <2>1, <2>2, Zenon
<1>2. PICK t \in Seq(S) : t = g \o s
  BY ConcatProperties, Zenon
<1>3. Len(t) = 1 + Len(s) /\ t[1] = Space /\ t[2] = s[1]
  <2>1. Len(t) = Len(g) + Len(s)
        /\ \A k \in 1..(Len(g) + Len(s)) : t[k] = IF k <= Len(g) THEN g[k] ELSE s[k - Len(g)]
    BY <1>2, ConcatProperties
  <2>2. Len(s) \in Nat /\ Len(s) # 0
    OBVIOUS
  <2>3. 1 \in 1..(1 + Len(s)) /\ 2 \in 1..(1 + Len(s)) /\ 1 <= 1 /\ ~(2 <= 1) /\ 2 - 1 = 1
    BY <2>2
  <2> QED BY <1>1, <2>1, <2>3
<1>4. PICK n \in 0..Len(t) : /\ SkipSpaces(t) = Drop(t, n) /\ \A k \in 1..n : t[k] = Space
                             /\ n < Len(t) => t[n + 1] # Space
  BY SkipSpacesIs
<1>5. n = 1
  <2>1. Len(s) \in Nat /\ Len(s) # 0
    OBVIOUS
  <2>2. n # 0
    <3> SUFFICES ASSUME n = 0 PROVE FALSE
      OBVIOUS
    <3> QED BY <1>3, <1>4, <2>1
  <2>3. ~(n >= 2)
    <3> SUFFICES ASSUME n >= 2 PROVE FALSE
      OBVIOUS
    <3>1. 2 \in 1..n
      BY <1>4
    <3> QED BY <1>3, <1>4, <3>1
  <2> QED BY <1>4, <2>2, <2>3
<1>6. Drop(t, 1) = s
  BY <1>1, <1>2, DropConcat, Zenon
<1> QED BY <1>1, <1>2, <1>4, <1>5, <1>6

(***************************************************************************)
(* The draws of a step.                                                    *)
(***************************************************************************)
LEMMA RedrawsBounded ==
  ASSUME NEW bits, NEW pos \in Nat, NEW recent
  PROVE  /\ DrawUnlikeRecent(bits, pos, recent).pos \in Nat
         /\ DrawUnlikeRecent(bits, pos, recent).pos <= pos + 12
<1> DEFINE value(k) == Draw(bits, pos + 3 * (k - 1), 3) % QuestionCount
           Final(k) == value(k) \notin recent \/ k = 4
           Ends(k) == Final(k) /\ \A j \in 1..(k - 1) : value(j) \in recent
           T == {k \in 1..4 : Final(k)}
<1>1. PICK k \in T : \A m \in T : k <= m
  <2>1. 4 \in T /\ T \subseteq Nat
    OBVIOUS
  <2> HIDE DEF T
  <2> QED BY <2>1, LeastNatural
<1>2. k \in 1..4 /\ Ends(k)
  <2>1. k \in 1..4 /\ Final(k)
    BY <1>1
  <2>2. ASSUME NEW j \in 1..(k - 1) PROVE value(j) \in recent
    <3>1. j \in 1..4 /\ ~(k <= j)
      BY <2>1
    <3>2. ~Final(j)
      <4> HIDE DEF Final
      <4> QED BY <1>1, <3>1
    <3> QED BY <3>2
  <2> QED BY <2>1, <2>2
<1>3. PICK d : d = CHOOSE n \in 1..4 : Ends(n)
  OBVIOUS
<1>4. d \in 1..4
  <2> HIDE DEF Ends
  <2> QED BY <1>2, <1>3
<1>5. DrawUnlikeRecent(bits, pos, recent).pos = pos + 3 * d
  BY <1>3 DEF DrawUnlikeRecent, MaxRedraws
<1> QED BY <1>4, <1>5
(***************************************************************************)
(* The locals of either loop, and a step of the encoder's.                 *)
(***************************************************************************)
IsLocals(s) ==
  s = [pos |-> s.pos, text |-> s.text, steps |-> s.steps, question |-> s.question, axis |-> s.axis,
       phrases |-> s.phrases, topics |-> s.topics, lastDig |-> s.lastDig, anchor |-> s.anchor,
       dig |-> s.dig, digAxis |-> s.digAxis, variant |-> s.variant, hist |-> s.hist,
       words |-> s.words, partial |-> s.partial]

LEMMA FreshIs ==
  ASSUME NEW s, s = FreshLocals("styled")
  PROVE  /\ IsLocals(s) /\ s.pos = 0 /\ s.text = <<>> /\ s.steps = 0 /\ s.partial = <<>>
         /\ s.anchor = NoPhrase /\ s.topics = 0
BY DEF FreshLocals, IsLocals

LEMMA SameDraws == \A s : DecoderDraws(s) = EncoderDraws(s)
BY DEF DecoderDraws, EncoderDraws

LEMMA DrawsIs ==
  ASSUME NEW b, IsLocals(b), NEW s, s = EncoderDraws(b).locals
  PROVE  /\ IsLocals(s) /\ s.text = b.text /\ s.steps = b.steps /\ s.partial = b.partial
         /\ s.anchor = b.anchor /\ s.topics = b.topics /\ s.lastDig = b.lastDig
BY Zenon DEF EncoderDraws, IsLocals

LEMMA DrawsBounded ==
  ASSUME NEW b, IsLocals(b), b.pos \in Nat
  PROVE  LET s == EncoderDraws(b).locals
         IN s.pos \in Nat /\ s.pos + Beta <= b.pos + StepDraws
<1> DEFINE q == DrawUnlikeRecent(stream, b.pos, b.question)
           e == DrawClauseEnd(stream, q.pos, b.phrases)
           d == DrawDigressMode(stream, e.pos, b.topics, b.lastDig)
           a == DrawUnlikeRecent(stream, d.pos, b.axis)
           v == DrawVariant(stream, a.pos)
<1>1. q.pos \in Nat /\ q.pos <= b.pos + 12
  BY RedrawsBounded
<1>2. e.pos \in Nat /\ e.pos = q.pos + 3
  BY <1>1 DEF DrawClauseEnd
<1>3. d.pos \in Nat /\ d.pos = e.pos + 3
  BY <1>2 DEF DrawDigressMode
<1>4. a.pos \in Nat /\ a.pos <= d.pos + 12
  BY <1>3, RedrawsBounded
<1>5. v.pos \in Nat /\ v.pos = a.pos + 1
  BY <1>4 DEF DrawVariant
<1>6. EncoderDraws(b).locals.pos = v.pos
  BY Zenon DEF EncoderDraws, IsLocals
<1>7. StepDraws = 31 + Beta /\ Beta \in Nat
  BY BetaAssumption DEF StepDraws, MaxRedraws
<1> HIDE DEF q, e, d, a, v
<1>8. v.pos <= b.pos + 31
  BY <1>1, <1>2, <1>3, <1>4, <1>5
<1> QED BY <1>5, <1>6, <1>7, <1>8

(* A phrase behind the text so far.                                        *)
Spoken(text, phrase, ends) ==
  IF ends THEN Append(Joined(text, phrase), Period) ELSE Joined(text, phrase)

Advanced(s) == [s EXCEPT !.pos = @ + Beta, !.steps = @ + 1]

LEMMA TakesIs ==
  ASSUME NEW s, IsLocals(s), NEW phrase, NEW ends, NEW a, a = EncoderTakes(Advanced(s), phrase, ends)
  PROVE  /\ IsLocals(a) /\ a.text = Spoken(s.text, phrase, ends) /\ a.steps = s.steps + 1
         /\ a.pos = s.pos + Beta /\ a.partial = s.partial
BY Zenon DEF EncoderTakes, Advanced, IsLocals, Spoken

LEMMA TakesSame ==
  ASSUME NEW s, IsLocals(s), NEW phrase, NEW ends
  PROVE  DecoderTakes([s EXCEPT !.pos = @ + Beta], phrase, ends)
           = EncoderTakes(Advanced(s), phrase, ends)
<1>1. PICK d : d = DecoderTakes([s EXCEPT !.pos = @ + Beta], phrase, ends)
  OBVIOUS
<1>2. PICK a : a = EncoderTakes(Advanced(s), phrase, ends)
  OBVIOUS
<1>3. IsLocals(d) /\ IsLocals(a)
  BY <1>1, <1>2, Zenon DEF EncoderTakes, DecoderTakes, Advanced, IsLocals
<1>4. /\ d.pos = a.pos /\ d.text = a.text /\ d.steps = a.steps /\ d.question = a.question
      /\ d.axis = a.axis /\ d.phrases = a.phrases /\ d.topics = a.topics
  BY <1>1, <1>2 DEF EncoderTakes, DecoderTakes, Advanced, IsLocals
<1>5. /\ d.lastDig = a.lastDig /\ d.anchor = a.anchor /\ d.dig = a.dig /\ d.digAxis = a.digAxis
      /\ d.variant = a.variant /\ d.hist = a.hist /\ d.words = a.words /\ d.partial = a.partial
  BY <1>1, <1>2 DEF EncoderTakes, DecoderTakes, Advanced, IsLocals
<1>6. d = a
  BY <1>3, <1>4, <1>5 DEF IsLocals
<1> QED BY <1>1, <1>2, <1>6
(***************************************************************************)
(* Phrases in the covertext.                                               *)
(***************************************************************************)
LEMMA One ==
  ASSUME NEW S, NEW c \in S
  PROVE  <<c>> \in Seq(S) /\ Len(<<c>>) = 1 /\ <<c>>[1] = c
OBVIOUS

LEMMA ConcatLonger ==
  ASSUME NEW S, NEW s \in Seq(S), NEW t \in Seq(S), s # <<>>
  PROVE  /\ s \o t \in Seq(S) /\ s \o t # <<>> /\ (s \o t)[1] = s[1]
         /\ Len(s \o t) = Len(s) + Len(t) /\ Len(t) < Len(s \o t) /\ Len(s) <= Len(s \o t)
<1>1. Len(s) \in Nat /\ Len(s) # 0 /\ Len(t) \in Nat
  OBVIOUS
<1>2. s \o t \in Seq(S) /\ Len(s \o t) = Len(s) + Len(t)
      /\ \A k \in 1..(Len(s) + Len(t)) : (s \o t)[k] = IF k <= Len(s) THEN s[k] ELSE t[k - Len(s)]
  BY ConcatProperties
<1>3. 1 \in 1..(Len(s) + Len(t)) /\ 1 <= Len(s)
  BY <1>1
<1>4. s \o t # <<>>
  BY <1>1, <1>2
<1> QED BY <1>1, <1>2, <1>3, <1>4

LEMMA AppendIs ==
  ASSUME NEW S, NEW s \in Seq(S), NEW c \in S
  PROVE  Append(s, c) = s \o <<c>>
OBVIOUS

LEMMA Associative ==
  \A a, b, c \in Seq(Char) : (a \o b) \o c = a \o (b \o c)
<1> SUFFICES ASSUME NEW a \in Seq(Char), NEW b \in Seq(Char), NEW c \in Seq(Char)
             PROVE  (a \o b) \o c = a \o (b \o c)
  BY Zenon
<1> QED BY ConcatAssociative

(* Concatenation as the provers' first-order parts see it best.            *)
Cat(a, b) == a \o b

LEMMA CatIs ==
  /\ \A a, b \in Seq(Char) : Cat(a, b) \in Seq(Char)
  /\ \A a, b, c \in Seq(Char) : Cat(Cat(a, b), c) = Cat(a, Cat(b, c))
<1>1. \A a, b \in Seq(Char) : Cat(a, b) \in Seq(Char)
  BY ConcatProperties DEF Cat
<1>2. \A a, b, c \in Seq(Char) : Cat(Cat(a, b), c) = Cat(a, Cat(b, c))
  BY Associative, Zenon DEF Cat
<1> QED BY <1>1, <1>2

LEMMA Regrouped ==
  ASSUME NEW a \in Seq(Char), NEW b \in Seq(Char), NEW c \in Seq(Char),
         NEW d \in Seq(Char), NEW e \in Seq(Char)
  PROVE  Cat(Cat(Cat(a, Cat(b, c)), d), e) = Cat(a, Cat(b, Cat(c, Cat(d, e))))
<1>1. /\ Cat(b, c) \in Seq(Char) /\ Cat(a, Cat(b, c)) \in Seq(Char) /\ Cat(d, e) \in Seq(Char)
      /\ Cat(c, Cat(d, e)) \in Seq(Char)
  BY CatIs
<1>2. Cat(Cat(Cat(a, Cat(b, c)), d), e) = Cat(Cat(a, Cat(b, c)), Cat(d, e))
  BY <1>1, CatIs
<1>3. Cat(Cat(a, Cat(b, c)), Cat(d, e)) = Cat(a, Cat(Cat(b, c), Cat(d, e)))
  BY <1>1, CatIs
<1>4. Cat(Cat(b, c), Cat(d, e)) = Cat(b, Cat(c, Cat(d, e)))
  BY <1>1, CatIs
<1> QED BY <1>2, <1>3, <1>4

LEMMA Chars == Space \in Char /\ Period \in Char
BY SessionAssumption

(* What the covertext says of a phrase: the decoder, who has skipped the   *)
(* space before it, finds it there, and behind it and its period the place *)
(* where the next one starts.                                              *)
Continues(cover, t, p, ends) ==
  \E rest \in Seq(Char) :
    /\ SkipSpaces(Drop(cover, Len(t))) = p \o rest
    /\ RestAfter(rest, ends) = SkipSpaces(Drop(cover, Len(Spoken(t, p, ends))))

LEMMA PhraseInCovertext ==
  ASSUME NEW t \in Seq(Char), NEW p \in Seq(Char), p # <<>>, p[1] # Space, NEW ends,
         NEW cover \in Seq(Char), IsPrefix(Spoken(t, p, ends), cover)
  PROVE  Continues(cover, t, p, ends)
<1>a. PICK u : u = Spoken(t, p, ends) /\ IsPrefix(u, cover)
  OBVIOUS
<1>0. <<Space>> \in Seq(Char) /\ <<Period>> \in Seq(Char) /\ <<Period>>[1] = Period
      /\ <<Period>> # <<>> /\ <<Space>> # <<>>
  BY Chars, One
<1>b. <<>> \in Seq(Char)
  OBVIOUS
<1>1. PICK gap \in Seq(Char) : (t = <<>> => gap = <<>>) /\ (t # <<>> => gap = <<Space>>)
  <2>1. CASE t = <<>>
    BY <1>b, <2>1, Zenon
  <2>2. CASE t # <<>>
    BY <1>0, <2>2, Zenon
  <2> QED BY <2>1, <2>2
<1>2. PICK dot \in Seq(Char) : (~ends => dot = <<>>) /\ (ends => dot = <<Period>>)
  <2>1. CASE ~ends
    BY <1>b, <2>1, Zenon
  <2>2. CASE ends
    BY <1>0, <2>2, Zenon
  <2> QED BY <2>1, <2>2
<1>3. Joined(t, p) = t \o (gap \o p)
  <2>1. CASE t = <<>>
    <3>1. gap \o p = p /\ t \o p = p
      BY <1>1, <2>1, ConcatEmptySeq
    <3> QED BY <2>1, <3>1 DEF Joined
  <2>2. CASE t # <<>>
    <3>1. (t \o <<Space>>) \o p = t \o (<<Space>> \o p)
      BY <1>0, ConcatAssociative
    <3> QED BY <1>1, <2>2, <3>1, Zenon DEF Joined
  <2> QED BY <2>1, <2>2, Zenon
<1>4. PICK gp \in Seq(Char) : gp = gap \o p
  BY ConcatProperties, Zenon
<1>5. PICK tgp \in Seq(Char) : tgp = t \o gp
  BY ConcatProperties, Zenon
<1>6. u = tgp \o dot
  <2>1. CASE ends
    BY <1>2, <1>3, <1>4, <1>5, <1>a, <2>1, Chars, AppendIs, Zenon DEF Spoken
  <2>2. CASE ~ends
    BY <1>2, <1>3, <1>4, <1>5, <1>a, <2>2, ConcatEmptySeq DEF Spoken
  <2> QED BY <2>1, <2>2
<1>7. u \in Seq(Char)
  BY <1>6, ConcatProperties
<1>8. PICK w \in Seq(Char) : w = Drop(cover, Len(u)) /\ cover = u \o w
  <2>1. Drop(cover, Len(u)) \in Seq(Char) /\ cover = u \o Drop(cover, Len(u))
    BY <1>7, <1>a, PrefixRest, Zenon
  <2> QED BY <2>1, Zenon
<1>9. PICK rest \in Seq(Char) : rest = dot \o w
  BY ConcatProperties, Zenon
<1>10. PICK prest \in Seq(Char) : prest = p \o rest
  BY ConcatProperties, Zenon
<1>11. prest # <<>> /\ prest[1] = p[1]
  BY <1>10, ConcatLonger
<1>12. cover = t \o (gap \o prest)
  <2>0. gap \in Seq(Char) /\ dot \in Seq(Char) /\ w \in Seq(Char)
    BY <1>1, <1>2, <1>8
  <2>1. Cat(Cat(Cat(t, Cat(gap, p)), dot), w) = Cat(t, Cat(gap, Cat(p, Cat(dot, w))))
    BY ONLY <2>0, Regrouped
  <2>2. gp = Cat(gap, p) /\ tgp = Cat(t, gp) /\ u = Cat(tgp, dot) /\ cover = Cat(u, w)
    BY <1>4, <1>5, <1>6, <1>8, Zenon DEF Cat
  <2>3. rest = Cat(dot, w) /\ prest = Cat(p, rest)
    BY <1>9, <1>10 DEF Cat
  <2>4. cover = Cat(t, Cat(gap, prest))
    BY <2>1, <2>2, <2>3
  <2> QED BY <2>4 DEF Cat
<1>13. Drop(cover, Len(t)) = gap \o prest
  <2>1. gap \o prest \in Seq(Char)
    BY ConcatProperties
  <2> QED BY <1>12, <2>1, DropConcat, Zenon
<1>14. SkipSpaces(gap \o prest) = prest
  <2>1. CASE t = <<>>
    <3>1. gap \o prest = prest
      BY <1>1, <2>1, ConcatEmptySeq
    <3>2. SkipSpaces(prest) = prest
      BY <1>11, SkipNone, Zenon
    <3> QED BY <3>1, <3>2
  <2>2. CASE t # <<>>
    BY <1>1, <1>11, <2>2, Chars, SkipOne, Zenon
  <2> QED BY <2>1, <2>2
<1>15. RestAfter(rest, ends) = SkipSpaces(w)
  <2>1. CASE ends
    <3>0. <<Period>> \o w # <<>> /\ (<<Period>> \o w)[1] = <<Period>>[1]
      BY <1>0, <1>8, ConcatLonger
    <3>1. rest # <<>> /\ rest[1] = Period
      BY <1>0, <1>2, <1>9, <2>1, <3>0, Zenon
    <3>2. Head(rest) = Period
      BY <3>1
    <3>3. Tail(rest) = w
      <4>1. Tail(rest) = SubSeq(rest, 2, Len(rest))
        BY <3>1, TailIsSubSeq
      <4>2. Drop(rest, 1) = w
        <5>1. Len(dot) = 1
          BY <1>2, <2>1, Chars, One
        <5> QED BY <1>9, <5>1, DropConcat, Zenon
      <4>3. Drop(rest, 1) = SubSeq(rest, 2, Len(rest))
        BY DEF Drop
      <4> QED BY <4>1, <4>2, <4>3, Zenon
    <3> QED BY <2>1, <3>1, <3>2, <3>3, Zenon DEF RestAfter
  <2>2. CASE ~ends
    <3>1. rest = w
      BY <1>2, <1>9, <2>2, ConcatEmptySeq
    <3> QED BY <2>2, <3>1 DEF RestAfter
  <2> QED BY <2>1, <2>2
<1> QED BY <1>8, <1>9, <1>10, <1>13, <1>14, <1>15, <1>a, Zenon DEF Continues

LEMMA SpokenGrows ==
  ASSUME NEW t \in Seq(Char), NEW p \in Seq(Char), p # <<>>, NEW ends, NEW u, u = Spoken(t, p, ends)
  PROVE  u \in Seq(Char) /\ IsPrefix(t, u) /\ Len(t) < Len(u)
<1>0. <<Space>> \in Seq(Char) /\ <<Period>> \in Seq(Char)
  BY Chars, One
<1>1. PICK v \in Seq(Char) : v = Joined(t, p) /\ IsPrefix(t, v) /\ Len(t) < Len(v)
  <2>1. CASE t = <<>>
    <3>1. Joined(t, p) = p
      BY <2>1 DEF Joined
    <3>2. Len(t) = 0 /\ Len(p) \in Nat /\ Len(p) # 0
      BY <2>1
    <3>3. \A k \in 1..Len(t) : t[k] = p[k]
      BY <3>2
    <3>4. IsPrefix(t, p)
      BY <3>2, <3>3, PrefixIs, Len(t) <= Len(p), Zenon
    <3> QED BY <3>1, <3>2, <3>4
  <2>2. CASE t # <<>>
    <3>1. PICK sp \in Seq(Char) : sp = <<Space>> \o p
      BY <1>0, ConcatProperties, Zenon
    <3>2. Joined(t, p) = t \o sp
      BY <1>0, <2>2, <3>1, ConcatAssociative DEF Joined
    <3>3. sp # <<>>
      BY <1>0, <3>1, ConcatLonger
    <3>4. t \o sp \in Seq(Char) /\ Len(t \o sp) = Len(t) + Len(sp)
      BY ConcatProperties
    <3>5. Len(t) \in Nat /\ Len(sp) \in Nat /\ Len(sp) # 0
      BY <3>3
    <3>6. Len(t) < Len(t \o sp)
      BY <3>4, <3>5
    <3> QED BY <3>2, <3>4, <3>6, PrefixOfConcat, Zenon
  <2> QED BY <2>1, <2>2
<1>2. CASE ends
  <2>1. u = v \o <<Period>>
    BY <1>1, <1>2, Chars, AppendIs DEF Spoken
  <2>2. u \in Seq(Char) /\ Len(u) = Len(v) + Len(<<Period>>)
    BY <1>0, <2>1, ConcatProperties
  <2>3. IsPrefix(v, u)
    BY <1>0, <2>1, PrefixOfConcat, Zenon
  <2>4. IsPrefix(t, u)
    BY <1>1, <2>2, <2>3, PrefixTransitive
  <2>5. Len(v) \in Nat /\ Len(t) \in Nat /\ Len(<<Period>>) = 1
    OBVIOUS
  <2> QED BY <1>1, <2>2, <2>4, <2>5
<1>3. CASE ~ends
  BY <1>1, <1>3 DEF Spoken
<1> QED BY <1>2, <1>3

(***************************************************************************)
(* Division, and the bits of a message.                                    *)
(***************************************************************************)
Divides(n, B, q, r) == n = B * q + r

LEMMA Division ==
  ASSUME NEW n \in Nat, NEW B \in Nat \ {0}
  PROVE  \E d \in Nat, m \in 0..(B - 1) : n \div B = d /\ n % B = m /\ n = B * d + m
<1>1. PICK d \in Int : d = n \div B
  OBVIOUS
<1>2. PICK m \in 0..(B - 1) : m = n % B
  OBVIOUS
<1>3. n = B * d + m
  BY <1>1, <1>2
<1>4. ~(d <= -1)
  <2> SUFFICES ASSUME d <= -1 PROVE FALSE
    OBVIOUS
  <2>1. PICK e \in Nat : e = -1 - d
    OBVIOUS
  <2>2. B * e >= 0 /\ B * e \in Int
    OBVIOUS
  <2>3. B * d = B * (-1 - e)
    BY <2>1
  <2>4. B * (-1 - e) = -B - B * e
    OBVIOUS
  <2> QED BY <1>2, <1>3, <2>2, <2>3, <2>4
<1>5. d \in Nat
  BY <1>1, <1>4
<1> QED BY <1>1, <1>2, <1>3, <1>5, Zenon

LEMMA Monotone ==
  ASSUME NEW a \in Nat, NEW b \in Nat, NEW B \in Nat, a <= b
  PROVE  B * a \in Nat /\ B * b \in Nat /\ B * a <= B * b
<1>1. PICK c \in Nat : c = b - a
  OBVIOUS
<1>2. B * b = B * (a + c)
  BY <1>1
<1>3. B * (a + c) = B * a + B * c
  OBVIOUS
<1>4. B * c \in Nat /\ B * a \in Nat
  OBVIOUS
<1> QED BY <1>2, <1>3, <1>4

LEMMA NextMultiple ==
  ASSUME NEW a \in Nat, NEW b \in Nat, NEW B \in Nat, a < b
  PROVE  B * a \in Nat /\ B * b \in Nat /\ B * a + B <= B * b
<1>1. B * (a + 1) = B * a + B /\ B * a \in Nat
  OBVIOUS
<1>2. B * (a + 1) <= B * b /\ B * b \in Nat
  BY Monotone
<1> QED BY <1>1, <1>2

LEMMA DivisionIs ==
  ASSUME NEW B \in Nat \ {0}, NEW q \in Nat, NEW r \in 0..(B - 1), NEW n \in Nat,
         Divides(n, B, q, r)
  PROVE  n \div B = q /\ n % B = r
<1>1. PICK d \in Nat, m \in 0..(B - 1) : d = n \div B /\ m = n % B /\ n = B * d + m
  BY Division
<1>2. PICK x \in Nat, y \in Nat : x = B * q /\ y = B * d
  OBVIOUS
<1>3. x + r = y + m
  BY <1>1, <1>2 DEF Divides
<1>4. ~(d < q)
  <2> SUFFICES ASSUME d < q PROVE FALSE
    OBVIOUS
  <2>1. y + B <= x
    BY <1>2, NextMultiple
  <2> QED BY <1>3, <2>1
<1>5. ~(q < d)
  <2> SUFFICES ASSUME q < d PROVE FALSE
    OBVIOUS
  <2>1. x + B <= y
    BY <1>2, NextMultiple
  <2> QED BY <1>1, <1>3, <2>1
<1>6. q = d
  BY <1>4, <1>5
<1> QED BY <1>1, <1>2, <1>3, <1>6

LEMMA MessageBits ==
  ASSUME message \in Messages
  PROVE  /\ Bits \in Seq(Bit) /\ Len(message) \in Nat
         /\ Len(Bits) = ByteBits * Len(message) + ByteBits
         /\ \A i \in 1..Len(Bits) : i > ByteBits * Len(message) => Bits[i] = 0
         /\ \A k \in 1..Len(message) :
              /\ message[k] \in 1..(PowerOfTwo(ByteBits) - 1)
              /\ \A j \in 1..ByteBits :
                   Bits[ByteBits * (k - 1) + j] = BitsOf(message[k], ByteBits)[j]
<1>1. PICK B \in Nat \ {0} : B = ByteBits
  BY CoreAssumption
<1>2. PICK L \in Nat : L = Len(message) /\ \A k \in 1..L : message[k] \in 1..(PowerOfTwo(B) - 1)
  <2>1. message \in Seq(1..(PowerOfTwo(B) - 1))
    BY <1>1, SessionAssumption
  <2>2. PICK S : S = 1..(PowerOfTwo(B) - 1) /\ message \in Seq(S)
    BY <2>1
  <2>3. Len(message) \in Nat /\ \A k \in 1..Len(message) : message[k] \in S
    BY <2>2, ElementOfSeq, LenProperties, Zenon
  <2> QED BY <2>2, <2>3
<1>3. PowerOfTwo(B) \in Int
  BY <1>1, PowerRec
<1>4. PICK M \in Nat, N \in Nat : M = B * L /\ M = L * B /\ N = M + B /\ N = (L + 1) * B
  <2>1. (L + 1) * B = B * L + B /\ L * B = B * L /\ B * L \in Nat
    OBVIOUS
  <2> QED BY <2>1
<1> DEFINE bit(i) == BitsOf(message[(i - 1) \div B + 1], B)[((i - 1) % B) + 1]
<1>5. Bits = [i \in 1..N |-> IF i > M THEN 0 ELSE bit(i)]
  BY <1>1, <1>2, <1>4 DEF Bits, BitsFromBytes
<1>6. ASSUME NEW i \in 1..N, ~(i > M) PROVE bit(i) \in Bit
  <2>1. PICK q \in Nat, r \in 0..(B - 1) : q = (i - 1) \div B /\ r = (i - 1) % B /\ i - 1 = B * q + r
    <3>1. i - 1 \in Nat
      OBVIOUS
    <3> QED BY <3>1, Division
  <2>2. q < L
    <3> SUFFICES ASSUME L <= q PROVE FALSE
      BY <2>1
    <3>1. M <= B * q /\ B * q \in Nat
      BY <1>4, <2>1, Monotone
    <3> QED BY <1>6, <2>1, <3>1
  <2>3. q + 1 \in 1..L /\ r + 1 \in 1..B
    BY <2>1, <2>2
  <2>4. message[q + 1] \in Int
    BY <1>2, <1>3, <2>3
  <2>5. BitsOf(message[q + 1], B)[r + 1] \in Bit
    BY <2>3, <2>4, BitOf
  <2> QED BY <2>1, <2>5
<1>7. Bits \in [1..N -> Bit]
  <2>1. \A i \in 1..N : (IF i > M THEN 0 ELSE bit(i)) \in Bit
    <3> HIDE DEF bit
    <3> QED BY <1>6 DEF Bit
  <2> HIDE DEF bit
  <2> QED BY <1>5, <2>1
<1>8. Bits \in Seq(Bit) /\ Len(Bits) = N
  BY <1>4, <1>7
<1>9. ASSUME NEW k \in 1..L, NEW j \in 1..B PROVE Bits[B * (k - 1) + j] = BitsOf(message[k], B)[j]
  <2>1. PICK q \in Nat, r \in 0..(B - 1) : q = k - 1 /\ r = j - 1
    OBVIOUS
  <2>2. PICK x \in Nat : x = B * q
    OBVIOUS
  <2>3. x + B <= M
    <3>1. q < L
      BY <2>1
    <3> QED BY <1>4, <2>1, <2>2, <3>1, NextMultiple
  <2>4. x + j \in 1..N /\ ~(x + j > M) /\ (x + j) - 1 = x + r
    BY <1>4, <2>1, <2>2, <2>3
  <2>5. (x + r) \div B = q /\ (x + r) % B = r
    <3>1. PICK n \in Nat : n = x + r
      BY <2>1, <2>2
    <3>2. Divides(n, B, q, r)
      BY <2>2, <3>1 DEF Divides
    <3>3. n \div B = q /\ n % B = r
      BY <2>1, <3>1, <3>2, DivisionIs
    <3> QED BY <3>1, <3>3
  <2>6. Bits[x + j] = bit(x + j)
    <3> HIDE DEF bit
    <3> QED BY <1>5, <2>4
  <2>7. q + 1 = k /\ r + 1 = j
    BY <2>1
  <2>8. bit(x + j) = BitsOf(message[k], B)[j]
    BY <2>4, <2>5, <2>7
  <2> QED BY <2>1, <2>2, <2>6, <2>8
<1>10. \A i \in 1..N : i > M => Bits[i] = 0
  <2> HIDE DEF bit
  <2> QED BY <1>5
<1> QED BY <1>1, <1>2, <1>4, <1>8, <1>9, <1>10

(***************************************************************************)
(* The invariant.  Before(n) is what a loop starts from when n phrases     *)
(* have been chosen, Sent(n) how many of the message's bits they carry,    *)
(* and Step(b, sent, table) what the encoder does with the model's answer. *)
(***************************************************************************)
Before(n) == IF n < Len(asked) THEN asked[n + 1].before ELSE enc.locals

Sent(n) == IF n = 0 THEN 0 ELSE asked[n].offset

MaskOf(b) == NextBits(stream, EncoderDraws(b).locals.pos, Beta)

Choice(b, sent, table) == EncodeStep(table, Bits, sent, MaskOf(b))

After(b, sent, table) ==
  EncoderTakes(Advanced(EncoderDraws(b).locals), Choice(b, sent, table).chosen, EncoderDraws(b).endClause)

AskedPrompt(b, preamble) == PromptOf(EncoderDraws(b).locals, EncoderDraws(b).question, preamble)

Follows(n) ==
  /\ asked[n].table \in Tables
  /\ asked[n].prompt = AskedPrompt(Before(n - 1), enc.preamble)
  /\ asked[n].maskAt = EncoderDraws(Before(n - 1)).locals.pos
  /\ asked[n].offset = Sent(n - 1) + Choice(Before(n - 1), Sent(n - 1), asked[n].table).consumed
  /\ Before(n) = After(Before(n - 1), Sent(n - 1), asked[n].table)

(* How far the keystream may have been read after n steps.                *)
Limit(n) == n * StepDraws

IsPlace(b, n) ==
  /\ IsLocals(b) /\ b.text \in Seq(Char) /\ b.steps = n
  /\ b.pos \in Nat /\ b.pos <= Limit(n) /\ b.partial = <<>>

Placed(n) == IsPlace(Before(n), n) /\ Sent(n) \in Nat

Extends(t, u) == IsPrefix(t, u) /\ Len(t) < Len(u)

Grows == \A i, j \in 0..Len(asked) : i < j => Extends(Before(i).text, Before(j).text)

IsSeq(s) == \E S : s \in Seq(S)

IsEnc(e) ==
  e = [status |-> e.status, preamble |-> e.preamble, locals |-> e.locals, offset |-> e.offset,
       cut |-> e.cut, cover |-> e.cover]

IsDec(d) ==
  d = [status |-> d.status, preamble |-> d.preamble, locals |-> d.locals, remaining |-> d.remaining,
       todo |-> d.todo, bits |-> d.bits, unmatched |-> d.unmatched, skipped |-> d.skipped,
       wordless |-> d.wordless, result |-> d.result]

Encoded ==
  /\ IsSeq(asked) /\ IsEnc(enc)
  /\ Len(asked) <= MaxSteps
  /\ Before(0) = FreshLocals("styled")
  /\ \A n \in 0..Len(asked) : Placed(n)
  /\ \A n \in 1..Len(asked) : Follows(n)
  /\ Grows
  /\ enc.offset = Sent(Len(asked))
  /\ enc.status = "idle" => asked = <<>>
  /\ enc.status = "OK" =>
       /\ enc.cover = ClosedSentence(enc.locals.text)
       /\ Len(asked) >= MaxSteps \/ enc.offset >= Len(Bits)

(* What the buffer holds when k bits have been sent.                       *)
Padded(i) == IF i <= Len(Bits) THEN Bits[i] ELSE 0

Buffered(k) == [i \in 1..(IF k < MaxRecoveredBits THEN k ELSE MaxRecoveredBits) |-> Padded(i)]

RestOf(n) == SkipSpaces(Drop(enc.cover, Len(Before(n).text)))

(* The decoder has made n steps, the same as the encoder's.                *)
InStep(n) ==
  /\ n <= Len(asked) /\ ~dec.unmatched
  /\ dec.bits = Buffered(Sent(n))
  /\ dec.status = "running" =>
       /\ dec.locals = Before(n) /\ dec.remaining = RestOf(n)
       /\ n > 0 => ~NullTerminatorFound(dec.bits)
  /\ dec.status \in {"stopped", "OK"} =>
       n = Len(asked) \/ (n > 0 /\ NullTerminatorFound(dec.bits))

(* It has gone past the end of the covertext, with its buffer full.        *)
OffTheEnd(n) ==
  /\ n > Len(asked) /\ Len(Bits) > MaxRecoveredBits
  /\ dec.bits = Buffered(Sent(Len(asked))) /\ Sent(Len(asked)) >= MaxRecoveredBits

Retraced(n) ==
  \A i \in 1..n : i <= Len(asked) =>
    replayed[i].prompt = asked[i].prompt /\ replayed[i].maskAt = asked[i].maskAt

Decoded ==
  /\ IsSeq(replayed) /\ IsDec(dec) /\ ~dec.skipped
  /\ enc.status # "OK" => dec.status = "idle"
  /\ dec.status # "idle" => dec.preamble = enc.preamble
  /\ dec.status = "idle" =>
       replayed = <<>> /\ dec.bits = <<>> /\ dec.locals = FreshLocals("styled") /\ ~dec.unmatched
  /\ Retraced(Len(replayed))
  /\ InStep(Len(replayed)) \/ OffTheEnd(Len(replayed))
  /\ dec.status = "OK" => dec.result = BitsToBytes(dec.bits)

(* It has gone astray, for want of one side's preamble.  What it draws     *)
(* does not depend on what the phrases are, only on where they end.        *)
DrawsAlike(s, t) ==
  /\ s.pos = t.pos /\ s.question = t.question /\ s.axis = t.axis /\ s.phrases = t.phrases
  /\ s.topics = t.topics /\ s.lastDig = t.lastDig /\ s.dig = t.dig
  /\ s.anchor = NoPhrase <=> t.anchor = NoPhrase

Masked(n) == \A i \in 1..n : i <= Len(asked) => replayed[i].maskAt = asked[i].maskAt

Astray ==
  /\ IsSeq(replayed) /\ IsDec(dec) /\ IsLocals(dec.locals) /\ ~dec.skipped
  /\ enc.status = "OK" /\ dec.status # "idle" /\ dec.preamble # enc.preamble
  /\ Masked(Len(replayed))
  /\ dec.status = "running" /\ Len(replayed) <= Len(asked) =>
       DrawsAlike(dec.locals, Before(Len(replayed)))

Given == message \in Messages /\ key \in Keys

SInv == Given /\ (style = "styled" => Encoded /\ (Decoded \/ Astray))

(***************************************************************************)
(* The keystream reaches as far as the draws of a step go.                 *)
(***************************************************************************)
LEMMA StepDrawsIs == StepDraws \in Nat /\ MaxSteps \in Nat /\ Beta \in Nat
BY BetaAssumption, SessionAssumption DEF StepDraws, MaxRedraws

LEMMA MaskType ==
  ASSUME key \in Keys, NEW b, IsLocals(b), NEW n \in Nat, n < MaxSteps,
         b.pos \in Nat, b.pos <= Limit(n)
  PROVE  /\ EncoderDraws(b).locals.pos \in Nat
         /\ EncoderDraws(b).locals.pos + Beta <= Limit(n + 1)
         /\ MaskOf(b) \in [1..Beta -> Bit]
<1>1. PICK D \in Nat, M \in Nat : D = StepDraws /\ M = MaxSteps + 1
  BY StepDrawsIs
<1>2. PICK p \in Nat : p = EncoderDraws(b).locals.pos /\ p + Beta <= b.pos + D
  BY <1>1, DrawsBounded
<1>3. PICK x \in Nat, y \in Nat : x = n * D /\ y = M * D
  OBVIOUS
<1>4. (n + 1) * D = x + D
  BY <1>3
<1>5. x + D <= y
  <2>1. n < M
    BY <1>1, StepDrawsIs
  <2>2. D * n + D <= D * M
    BY <1>1, <2>1, NextMultiple
  <2>3. D * n = n * D /\ D * M = M * D
    OBVIOUS
  <2> QED BY <1>3, <2>2, <2>3
<1>6. p + Beta <= x + D
  BY <1>1, <1>2, <1>3, StepDrawsIs DEF Limit
<1>7. stream \in Seq(Bit) /\ Len(stream) >= y
  BY <1>1, <1>3, SessionAssumption DEF stream
<1>8. ASSUME NEW i \in 1..Beta PROVE stream[p + i] \in Bit
  <2>1. PICK l \in Nat : l = Len(stream) /\ stream \in [1..l -> Bit]
    BY <1>7
  <2>2. p + i \in 1..l
    <3>1. PICK e \in Nat : e = Beta
      BY StepDrawsIs
    <3>1a. y <= l
      BY <1>7, <2>1
    <3>1b. p + e <= x + D
      BY <1>6, <3>1
    <3>1c. p \in Nat /\ x \in Nat /\ y \in Nat /\ D \in Nat
      BY <1>1, <1>2, <1>3
    <3>2. p + e <= l
      BY <1>5, <2>1, <3>1, <3>1a, <3>1b, <3>1c
    <3>3. i \in 1..e
      BY <3>1
    <3>4. p \in Nat
      BY <1>2
    <3> QED BY <3>2, <3>3, <3>4
  <2> QED BY <2>1, <2>2
<1>9. MaskOf(b) \in [1..Beta -> Bit]
  BY <1>2, <1>8 DEF MaskOf, NextBits
<1> QED BY <1>1, <1>2, <1>4, <1>6, <1>9, Zenon DEF Limit

(***************************************************************************)
(* The decoder's buffer.                                                   *)
(***************************************************************************)
LEMMA PaddedType ==
  ASSUME Bits \in Seq(Bit), NEW i \in Nat \ {0}
  PROVE  Padded(i) \in Bit
<1>1. CASE i <= Len(Bits)
  <2>1. i \in 1..Len(Bits)
    BY <1>1
  <2> QED BY <1>1, <2>1 DEF Padded
<1>2. CASE ~(i <= Len(Bits))
  BY <1>2 DEF Padded, Bit
<1> QED BY <1>1, <1>2

LEMMA BufferedIs ==
  ASSUME Bits \in Seq(Bit), NEW k \in Nat
  PROVE  /\ Buffered(k) \in Seq(Bit)
         /\ Len(Buffered(k)) = IF k < MaxRecoveredBits THEN k ELSE MaxRecoveredBits
         /\ \A i \in 1..Len(Buffered(k)) : Buffered(k)[i] = Padded(i)
<1>1. PICK m \in Nat : m = IF k < MaxRecoveredBits THEN k ELSE MaxRecoveredBits
  BY SessionAssumption
<1>2. Buffered(k) = [i \in 1..m |-> Padded(i)]
  BY <1>1 DEF Buffered
<1>3. \A i \in 1..m : Padded(i) \in Bit
  <2> SUFFICES ASSUME NEW i \in 1..m PROVE Padded(i) \in Bit
    OBVIOUS
  <2>1. i \in Nat \ {0}
    OBVIOUS
  <2> QED BY <2>1, PaddedType
<1>4. Buffered(k) \in [1..m -> Bit]
  BY <1>2, <1>3
<1>5. Buffered(k) \in Seq(Bit) /\ Len(Buffered(k)) = m
  BY <1>4
<1> QED BY <1>1, <1>2, <1>5

LEMMA SubSeqFirst ==
  ASSUME NEW S, NEW s \in Seq(S), NEW m \in 0..Len(s)
  PROVE  /\ SubSeq(s, 1, m) \in Seq(S) /\ Len(SubSeq(s, 1, m)) = m
         /\ \A i \in 1..m : SubSeq(s, 1, m)[i] = s[i]
<1>1. \A i \in 1..m : s[i] \in S
  OBVIOUS
<1>2. PICK one \in Int, n \in Int : one = 1 /\ n = m /\ n >= 0
  OBVIOUS
<1>3. /\ SubSeq(s, one, n) \in Seq(S)
      /\ Len(SubSeq(s, one, n)) = IF one <= n THEN n - one + 1 ELSE 0
      /\ \A i \in 1 .. n - one + 1 : SubSeq(s, one, n)[i] = s[one + i - 1]
  BY <1>1, <1>2, SubSeqProperties
<1>4. Len(SubSeq(s, one, n)) = m
  BY <1>2, <1>3
<1>5. ASSUME NEW i \in 1..m PROVE SubSeq(s, one, n)[i] = s[i]
  <2>1. i \in 1..(n - one + 1) /\ one + i - 1 = i
    BY <1>2
  <2> QED BY <1>3, <2>1
<1> QED BY <1>2, <1>3, <1>4, <1>5

(* A step's bits go behind those that are there, as far as there is room.  *)
LEMMA RecoverStep ==
  ASSUME Bits \in Seq(Bit), NEW k \in Nat, NEW c \in 0..Beta
  PROVE  Recover(Buffered(k), SubSeq(WindowAt(Bits, k), 1, c)) = Buffered(k + c)
<1>0. PICK M \in Nat : M = MaxRecoveredBits
  BY SessionAssumption
<1>1. PICK w \in Seq(Bit) : w = WindowAt(Bits, k) /\ Len(w) = Beta /\ \A i \in 1..Beta : w[i] = Padded(k + i)
  <2>1. WindowAt(Bits, k) \in [1..Beta -> Bit]
    BY WindowType
  <2>2. WindowAt(Bits, k) \in Seq(Bit) /\ Len(WindowAt(Bits, k)) = Beta
    BY <2>1, StepDrawsIs
  <2>3. \A i \in 1..Beta : WindowAt(Bits, k)[i] = Padded(k + i)
    BY DEF WindowAt, Padded
  <2> QED BY <2>2, <2>3
<1>2. PICK more \in Seq(Bit) : more = SubSeq(w, 1, c) /\ Len(more) = c /\ \A i \in 1..c : more[i] = Padded(k + i)
  <2>1. c \in 0..Len(w)
    BY <1>1
  <2>2. \A i \in 1..c : i \in 1..Beta
    BY StepDrawsIs
  <2>3. /\ SubSeq(w, 1, c) \in Seq(Bit) /\ Len(SubSeq(w, 1, c)) = c
        /\ \A i \in 1..c : SubSeq(w, 1, c)[i] = w[i]
    BY <2>1, SubSeqFirst
  <2>4. \A i \in 1..c : SubSeq(w, 1, c)[i] = Padded(k + i)
    BY <1>1, <2>2, <2>3
  <2> QED BY <2>3, <2>4, Zenon
<1>3. PICK b \in Seq(Bit), m \in Nat :
        /\ b = Buffered(k) /\ Len(b) = m /\ m = (IF k < M THEN k ELSE M)
        /\ \A i \in 1..m : b[i] = Padded(i)
  <2>1. /\ Buffered(k) \in Seq(Bit) /\ Len(Buffered(k)) = (IF k < M THEN k ELSE M)
        /\ \A i \in 1..Len(Buffered(k)) : Buffered(k)[i] = Padded(i)
    BY <1>0, BufferedIs, Zenon
  <2>2. Len(Buffered(k)) \in Nat
    BY <2>1
  <2> QED BY <2>1, <2>2
<1>4. PICK all \in Seq(Bit) : /\ all = b \o more /\ Len(all) = m + c
                              /\ \A i \in 1..(m + c) : all[i] = IF i <= m THEN b[i] ELSE more[i - m]
  <2>1. Len(b) = m /\ Len(more) = c
    BY <1>2, <1>3
  <2>2. /\ b \o more \in Seq(Bit) /\ Len(b \o more) = Len(b) + Len(more)
        /\ \A i \in 1..(Len(b) + Len(more)) : (b \o more)[i] = IF i <= Len(b) THEN b[i] ELSE more[i - Len(b)]
    BY ConcatProperties
  <2> QED BY <2>1, <2>2, Zenon
<1>5. PICK r \in Nat : r = (IF Len(all) < M THEN Len(all) ELSE M) /\ r \in 0..Len(all)
                      /\ r = (IF k + c < M THEN k + c ELSE M)
  <2>1. PICK n \in Nat : n = Len(all) /\ n = m + c
    BY <1>4
  <2>2. m \in Nat /\ m = (IF k < M THEN k ELSE M)
    BY <1>3
  <2>3. \E r \in Nat : r = (IF n < M THEN n ELSE M) /\ r \in 0..n /\ r = (IF k + c < M THEN k + c ELSE M)
    <3>1. CASE k + c < M
      BY <2>1, <2>2, <3>1
    <3>2. CASE ~(k + c < M)
      BY <2>1, <2>2, <3>2
    <3> QED BY <3>1, <3>2
  <2> QED BY <2>1, <2>3
<1>6. PICK got \in Seq(Bit) : got = SubSeq(all, 1, r) /\ Len(got) = r /\ \A i \in 1..r : got[i] = all[i]
  <2>1. r \in 0..Len(all) /\ all \in Seq(Bit)
    BY <1>4, <1>5
  <2>2. /\ SubSeq(all, 1, r) \in Seq(Bit) /\ Len(SubSeq(all, 1, r)) = r
        /\ \A i \in 1..r : SubSeq(all, 1, r)[i] = all[i]
    BY <2>1, SubSeqFirst, Zenon
  <2> QED BY <2>2, Zenon
<1>7. Recover(b, more) = got
  BY <1>0, <1>4, <1>5, <1>6, Zenon DEF Recover
<1>8. ASSUME NEW i \in 1..r PROVE got[i] = Padded(i)
  <2>1. i \in 1..(m + c) /\ got[i] = all[i]
    BY <1>4, <1>5, <1>6
  <2>2. CASE i <= m
    <3>1. i \in 1..m
      BY <2>1, <2>2
    <3> QED BY <1>3, <1>4, <2>1, <2>2, <3>1, Zenon
  <2>3. CASE ~(i <= m)
    <3>1. m = k /\ i - m \in 1..c /\ k + (i - m) = i
      <4>1. m \in Nat /\ m = IF k < M THEN k ELSE M
        BY <1>3
      <4>2. i \in Nat /\ i <= r /\ i > m /\ r = IF k + c < M THEN k + c ELSE M
        BY <1>5, <2>3, <4>1
      <4>3. k < M
        BY <1>0, <4>1, <4>2
      <4>4. i <= k + c
        BY <1>0, <4>2
      <4> QED BY <4>1, <4>2, <4>3, <4>4
    <3> QED BY <1>2, <1>4, <2>1, <2>3, <3>1, Zenon
  <2> QED BY <2>2, <2>3
<1>9. PICK e \in Seq(Bit) : e = Buffered(k + c) /\ Len(e) = r /\ \A i \in 1..r : e[i] = Padded(i)
  <2>1. k + c \in Nat
    OBVIOUS
  <2> QED BY <1>0, <1>5, <2>1, BufferedIs, Zenon
<1>10. got = e
  BY <1>6, <1>8, <1>9, SeqEqual
<1> QED BY <1>1, <1>2, <1>3, <1>7, <1>9, <1>10

LEMMA RecoverFull ==
  ASSUME Bits \in Seq(Bit), NEW k \in Nat, k >= MaxRecoveredBits, NEW S, NEW more \in Seq(S)
  PROVE  Recover(Buffered(k), more) = Buffered(k)
<1>0. PICK M \in Nat : M = MaxRecoveredBits
  BY SessionAssumption
<1> DEFINE U == Bit \cup S
<1>1. PICK b \in Seq(U) : b = Buffered(k) /\ Len(b) = M
  <2>1. Buffered(k) \in Seq(Bit) /\ Len(Buffered(k)) = M
    BY <1>0, BufferedIs
  <2>2. Buffered(k) \in Seq(U)
    BY <2>1, SeqMonotonic
  <2> QED BY <2>1, <2>2
<1>2. more \in Seq(U)
  BY SeqMonotonic
<1> HIDE DEF U
<1>3. PICK n \in Nat : n = Len(more)
  OBVIOUS
<1>4. PICK all \in Seq(U) : all = b \o more /\ Len(all) = M + n /\ \A i \in 1..M : all[i] = b[i]
  <2>1. /\ b \o more \in Seq(U) /\ Len(b \o more) = Len(b) + Len(more)
        /\ \A i \in 1..(Len(b) + Len(more)) : (b \o more)[i] = IF i <= Len(b) THEN b[i] ELSE more[i - Len(b)]
    BY <1>2, ConcatProperties
  <2>2. \A i \in 1..M : i \in 1..(M + n) /\ i <= M
    OBVIOUS
  <2> QED BY <1>1, <1>3, <2>1, <2>2, Zenon
<1>5. M \in 0..Len(all) /\ (IF Len(all) < M THEN Len(all) ELSE M) = M
  BY <1>4
<1>6. SubSeq(all, 1, M) \in Seq(U) /\ Len(SubSeq(all, 1, M)) = M /\ \A i \in 1..M : SubSeq(all, 1, M)[i] = all[i]
  BY <1>5, SubSeqFirst
<1>7. SubSeq(all, 1, M) = b
  <2>1. \A i \in 1..M : SubSeq(all, 1, M)[i] = b[i]
    BY <1>4, <1>6, Zenon
  <2> QED BY <1>1, <1>6, <2>1, SeqEqual
<1> QED BY <1>0, <1>1, <1>4, <1>5, <1>7 DEF Recover

(* Behind the message's last bit there are zeros only: its zero byte and   *)
(* what the encoder pads it with.                                          *)
LEMMA EndsInZeros ==
  ASSUME message \in Messages, NEW k \in Nat, k >= Len(Bits), Len(Bits) <= MaxRecoveredBits
  PROVE  NullTerminatorFound(Buffered(k))
<1>1. PICK M \in Nat, B \in Nat, L \in Nat :
        /\ M = MaxRecoveredBits /\ B = ByteBits /\ L = ByteBits * Len(message)
        /\ Len(Bits) = L + B /\ \A i \in 1..Len(Bits) : i > L => Bits[i] = 0
  <2>1. ByteBits * Len(message) \in Nat /\ ByteBits \in Nat /\ MaxRecoveredBits \in Nat
    BY MessageBits, CoreAssumption, SessionAssumption
  <2> QED BY <2>1, MessageBits, Zenon
<1>2. Bits \in Seq(Bit)
  BY MessageBits
<1>3. PICK b : b = Buffered(k)
  OBVIOUS
<1>4. PICK n \in Nat : n = Len(b) /\ n = (IF k < M THEN k ELSE M) /\ \A i \in 1..n : b[i] = Padded(i)
  <2>1. /\ Len(b) = (IF k < M THEN k ELSE M) /\ \A i \in 1..Len(b) : b[i] = Padded(i)
    BY <1>1, <1>2, <1>3, BufferedIs, Zenon
  <2>2. (IF k < M THEN k ELSE M) \in Nat
    OBVIOUS
  <2> QED BY <2>1, <2>2
<1>5. n >= L + B
  BY <1>1, <1>4
<1>6. ASSUME NEW i \in (n - B + 1)..n PROVE b[i] = 0
  <2>1. i \in 1..n /\ i > L
    BY <1>5
  <2>2. Padded(i) = 0
    <3>1. CASE i <= Len(Bits)
      <4>1. i \in 1..Len(Bits)
        BY <1>1, <2>1, <3>1
      <4> QED BY <1>1, <2>1, <3>1, <4>1 DEF Padded
    <3>2. CASE ~(i <= Len(Bits))
      BY <3>2 DEF Padded
    <3> QED BY <3>1, <3>2
  <2> QED BY <1>4, <2>1, <2>2
<1>7. n >= B
  BY <1>5
<1> QED BY <1>1, <1>3, <1>4, <1>6, <1>7 DEF NullTerminatorFound

(***************************************************************************)
(* Recognition.                                                            *)
(***************************************************************************)
LEMMA PrefixesComparable ==
  ASSUME NEW S, NEW s \in Seq(S), NEW t \in Seq(S), NEW u \in Seq(S), IsPrefix(s, u), IsPrefix(t, u)
  PROVE  IsPrefix(s, t) \/ IsPrefix(t, s)
<1>1. Len(s) <= Len(u) /\ \A k \in 1..Len(s) : s[k] = u[k]
  BY PrefixIs
<1>2. Len(t) <= Len(u) /\ \A k \in 1..Len(t) : t[k] = u[k]
  BY PrefixIs
<1>3. PICK m \in Nat, n \in Nat : m = Len(s) /\ n = Len(t)
  OBVIOUS
<1>4. CASE m <= n
  <2>1. \A k \in 1..m : k \in 1..n
    BY <1>4
  <2>2. \A k \in 1..m : s[k] = t[k]
    BY <1>1, <1>2, <1>3, <2>1
  <2>3. IsPrefix(s, t)
    BY <1>3, <1>4, <2>2, PrefixIs
  <2> QED BY <2>3
<1>5. CASE n <= m
  <2>1. \A k \in 1..n : k \in 1..m
    BY <1>5
  <2>2. \A k \in 1..n : t[k] = s[k]
    BY <1>1, <1>2, <1>3, <2>1
  <2>3. IsPrefix(t, s)
    BY <1>3, <1>5, <2>2, PrefixIs
  <2> QED BY <2>3
<1> QED BY <1>3, <1>4, <1>5

LEMMA TableIs ==
  ASSUME NEW table \in Tables
  PROVE  /\ table \in Seq([text : Seq(Char), start : Int, end : Int]) /\ LaidOut(table)
         /\ Len(table) \in Nat \ {0} /\ DOMAIN table = 1..Len(table)
         /\ \A i \in 1..Len(table) :
              /\ table[i].text \in Seq(Char) /\ table[i].start \in Int /\ table[i].end \in Int
              /\ table[i].text # <<>> /\ table[i].text[1] # Space
         /\ \A i, j \in 1..Len(table) : IsPrefix(table[i].text, table[j].text) => i = j
<1>1. PICK R : R = [text : Seq(Char), start : Int, end : Int]
  BY Zenon
<1>2. table \in Seq(R) /\ LaidOut(table)
  BY <1>1, TablesAssumption, Zenon
<1>3. Len(table) \in Nat /\ table # <<>> /\ DOMAIN table = 1..Len(table)
  BY <1>2, LenProperties DEF LaidOut
<1>4. Len(table) # 0
  BY <1>2, <1>3, EmptySeq
<1>5. ASSUME NEW i \in 1..Len(table)
      PROVE  /\ table[i].text \in Seq(Char) /\ table[i].start \in Int /\ table[i].end \in Int
             /\ table[i].text # <<>> /\ table[i].text[1] # Space
  <2>1. table[i] \in R
    BY <1>2, ElementOfSeq
  <2>2. table[i].text # <<>> /\ Head(table[i].text) # Space
    BY <1>3, TablesAssumption
  <2>3. PICK t \in Seq(Char) : t = table[i].text
    BY <1>1, <2>1
  <2>4. Head(t) = t[1]
    BY <2>2, <2>3
  <2> QED BY <1>1, <2>1, <2>2, <2>3, <2>4
<1>6. \A i, j \in 1..Len(table) : IsPrefix(table[i].text, table[j].text) => i = j
  BY <1>3, TablesAssumption, Zenon
<1> QED BY <1>1, <1>2, <1>3, <1>4, <1>5, <1>6, Zenon

(* The candidate whose text the covertext goes on with is found, whatever  *)
(* comes behind it.                                                        *)
Found(table, i, rest) ==
  LET p == table[i].text
      r == Cat(p, rest)
  IN Matching(table, r) = {i} /\ Recognised(table, r) = p /\ Behind(r, p) = {rest}

LEMMA Recognition ==
  ASSUME NEW table \in Tables, NEW i \in 1..Len(table), NEW rest \in Seq(Char)
  PROVE  Found(table, i, rest)
<1>a. PICK p, r : p = table[i].text /\ r = Cat(p, rest)
  OBVIOUS
<1>0. r = p \o rest
  BY <1>a DEF Cat
<1>1. /\ p \in Seq(Char) /\ p # <<>> /\ DOMAIN table = 1..Len(table)
      /\ \A j \in 1..Len(table) : table[j].text \in Seq(Char) /\ table[j].text # <<>>
  BY <1>a, TableIs, Zenon
<1>2. r \in Seq(Char) /\ IsPrefix(p, r) /\ Len(p) <= Len(r)
  BY <1>0, <1>1, ConcatProperties, PrefixOfConcat, ConcatLonger
<1>3. ASSUME NEW j \in 1..Len(table), IsPrefix(table[j].text, r) PROVE j = i
  <2>1. IsPrefix(table[j].text, p) \/ IsPrefix(p, table[j].text)
    BY <1>1, <1>2, <1>3, PrefixesComparable
  <2> QED BY <1>a, <2>1, TableIs
<1>4. Matching(table, r) = {i}
  BY <1>1, <1>2, <1>3, <1>a DEF Matching
<1>5. LongestMatch(table, r) = i
  <2> DEFINE Q(k) == \A j \in {i} : \/ Len(table[j].text) < Len(table[k].text)
                                    \/ Len(table[j].text) = Len(table[k].text) /\ k <= j
  <2>1. Q(i)
    OBVIOUS
  <2>2. LongestMatch(table, r) = CHOOSE k \in {i} : Q(k)
    BY <1>4 DEF LongestMatch
  <2> HIDE DEF Q
  <2> QED BY <2>1, <2>2
<1>6. Recognised(table, r) = p
  BY <1>4, <1>5, <1>a DEF Recognised
<1>7. Behind(r, p) = {rest}
  <2>1. Drop(r, Len(p)) = rest
    BY <1>0, <1>1, DropConcat
  <2>2. ~(Len(p) > Len(r))
    <3>1. Len(p) \in Nat /\ Len(r) \in Nat
      BY <1>1, <1>2
    <3> QED BY <1>2, <3>1
  <2> QED BY <2>1, <2>2, Zenon DEF Behind, Drop
<1> QED BY <1>4, <1>6, <1>7, <1>a DEF Found

(* There is a longest match wherever there is one.                         *)
LEMMA LongestFound ==
  ASSUME NEW table \in Tables, NEW remaining, Matching(table, remaining) # {}
  PROVE  LongestMatch(table, remaining) \in Matching(table, remaining)
<1>1. PICK n \in Nat : n = Len(table) /\ DOMAIN table = 1..n /\ \A i \in 1..n : Len(table[i].text) \in Nat
  <2>1. /\ Len(table) \in Nat /\ DOMAIN table = 1..Len(table)
        /\ \A i \in 1..Len(table) : table[i].text \in Seq(Char)
    BY TableIs
  <2>2. \A i \in 1..Len(table) : Len(table[i].text) \in Nat
    BY <2>1, LenProperties
  <2> QED BY <2>1, <2>2, Zenon
<1>2. PICK hits : hits = Matching(table, remaining)
  OBVIOUS
<1>3. hits \subseteq 1..n
  BY <1>1, <1>2 DEF Matching
<1>4. PICK l \in [1..n -> Nat] : \A i \in 1..n : l[i] = Len(table[i].text)
  <2>1. PICK f : f = [i \in 1..n |-> Len(table[i].text)]
    BY Zenon
  <2>2. f \in [1..n -> Nat] /\ \A i \in 1..n : f[i] = Len(table[i].text)
    BY <1>1, <2>1
  <2> QED BY <2>2
<1> DEFINE Over(i, j) == l[j] < l[i] \/ (l[j] = l[i] /\ i <= j)
           T == {k \in 0..n : (\E j \in hits : j <= k) =>
                                \E i \in hits : i <= k /\ \A j \in hits : j <= k => Over(i, j)}
<1>5. 0 \in T
  BY <1>3
<1>6. ASSUME NEW k \in 1..n, k - 1 \in T PROVE k \in T
  <2>1. \A j \in hits : j <= k => j = k \/ j <= k - 1
    BY <1>3
  <2>2. CASE k \notin hits
    <3>1. \A j \in hits : j <= k => j <= k - 1
      BY <2>1, <2>2
    <3>2. \A j \in hits : j <= k - 1 => j <= k
      BY <1>3
    <3> HIDE DEF Over
    <3> QED BY <1>6, <3>1, <3>2
  <2>3. CASE k \in hits /\ ~(\E j \in hits : j <= k - 1)
    <3>1. \A j \in hits : j <= k => j = k
      BY <2>1, <2>3
    <3>2. Over(k, k) /\ k <= k
      BY <1>4
    <3>3. k \in hits /\ k <= k /\ \A j \in hits : j <= k => Over(k, j)
      <4> HIDE DEF Over
      <4> QED BY <2>3, <3>1, <3>2
    <3> HIDE DEF Over
    <3> QED BY <3>3
  <2>4. CASE k \in hits /\ \E j \in hits : j <= k - 1
    <3>1. PICK i \in hits : i <= k - 1 /\ \A j \in hits : j <= k - 1 => Over(i, j)
      <4> HIDE DEF Over
      <4> QED BY <1>6, <2>4
    <3>2. i \in 1..n /\ l[i] \in Nat /\ l[k] \in Nat
      BY <1>3, <1>4
    <3>3. CASE l[k] <= l[i]
      <4>1. Over(i, k)
        BY <3>1, <3>2, <3>3
      <4>2. i <= k
        BY <3>1, <3>2
      <4>3. \A j \in hits : j <= k => Over(i, j)
        <5> HIDE DEF Over
        <5> QED BY <2>1, <3>1, <4>1
      <4> HIDE DEF Over
      <4> QED BY <4>2, <4>3
    <3>4. CASE ~(l[k] <= l[i])
      <4>1. ASSUME NEW j \in hits, j <= k PROVE Over(k, j)
        <5>1. CASE j = k
          BY <1>4, <5>1
        <5>2. CASE j <= k - 1
          <6>1. Over(i, j) /\ l[j] \in Nat
            BY <1>3, <1>4, <3>1, <5>2
          <6> QED BY <3>2, <3>4, <6>1
        <5> QED BY <2>1, <4>1, <5>1, <5>2
      <4>2. k <= k
        OBVIOUS
      <4> HIDE DEF Over
      <4> QED BY <2>4, <4>1, <4>2
    <3> QED BY <3>3, <3>4
  <2> QED BY <2>2, <2>3, <2>4
<1>7. n \in T
  <2> HIDE DEF T
  <2>1. \A k \in 0..n : k \in T
    BY <1>5, <1>6, UpTo, Zenon
  <2> QED BY <2>1
<1>8. PICK i \in hits : \A j \in hits : Over(i, j)
  <2>1. \A j \in hits : j <= n
    BY <1>3
  <2>2. \E j \in hits : j <= n
    BY <1>2, <2>1
  <2> HIDE DEF Over
  <2> QED BY <1>7, <2>1, <2>2
<1> DEFINE Q(k) == \A j \in hits : \/ Len(table[j].text) < Len(table[k].text)
                                   \/ Len(table[j].text) = Len(table[k].text) /\ k <= j
<1>9. Q(i)
  BY <1>3, <1>4, <1>8
<1>10. LongestMatch(table, remaining) = CHOOSE k \in hits : Q(k)
  BY <1>2 DEF LongestMatch
<1> HIDE DEF Q, Over, T
<1> QED BY <1>2, <1>9, <1>10

LEMMA RecognisedText ==
  ASSUME NEW table \in Tables, NEW remaining
  PROVE  Recognised(table, remaining) \in Seq(Char) /\ Recognised(table, remaining) # <<>>
<1>1. /\ Len(table) \in Nat \ {0} /\ DOMAIN table = 1..Len(table)
      /\ \A i \in 1..Len(table) : table[i].text \in Seq(Char) /\ table[i].text # <<>>
  BY TableIs, Zenon
<1>2. PICK k : k = IF Matching(table, remaining) = {} THEN 1 ELSE LongestMatch(table, remaining)
  OBVIOUS
<1>3. k \in 1..Len(table)
  <2>1. CASE Matching(table, remaining) = {}
    BY <1>1, <1>2, <2>1
  <2>2. CASE Matching(table, remaining) # {}
    <3>1. Matching(table, remaining) \subseteq DOMAIN table
      BY DEF Matching
    <3> QED BY <1>1, <1>2, <2>2, <3>1, LongestFound
  <2> QED BY <2>1, <2>2
<1>4. Recognised(table, remaining) = table[k].text
  BY <1>2 DEF Recognised
<1> QED BY <1>1, <1>3, <1>4

(* Whatever it finds, the decoder gets some bits out of a table.           *)
LEMMA StepIs ==
  ASSUME NEW table, Len(table) \in Nat \ {0}, DOMAIN table = 1..Len(table),
         \A i \in 1..Len(table) : table[i].start \in Int /\ table[i].end \in Int,
         NEW text, NEW mask
  PROVE  \E start \in Int, k \in 0..Beta :
           DecodeStep(table, text, mask) = Xor(SubSeq(BitsOf(start, Beta), 1, k), SubSeq(mask, 1, k))
<1> DEFINE hits == {i \in DOMAIN table : table[i].text = text}
           at == IF hits = {} THEN Len(table) ELSE CHOOSE i \in hits : \A j \in hits : i <= j
<1>1. Len(table) \in Nat \ {0} /\ DOMAIN table = 1..Len(table)
      /\ \A i \in 1..Len(table) : table[i].start \in Int /\ table[i].end \in Int
  OBVIOUS
<1>2. at \in 1..Len(table)
  <2>1. CASE hits = {}
    BY <1>1, <2>1
  <2>2. CASE hits # {}
    <3>1. hits \subseteq Nat
      BY <1>1
    <3>2. PICK h : h = hits
      BY Zenon
    <3>3. \E i \in h : \A j \in h : i <= j
      BY <2>2, <3>1, <3>2, LeastNatural, Zenon
    <3>4. (CHOOSE i \in h : \A j \in h : i <= j) \in h
      BY <3>3
    <3> QED BY <1>1, <2>2, <3>2, <3>4
  <2> QED BY <2>1, <2>2
<1>3. PICK start \in Int, end \in Int : start = table[at].start /\ end = table[at].end
  <2> HIDE DEF at
  <2> QED BY <1>1, <1>2
<1>4. PICK k \in 0..Beta : k = CommonPrefixLen(start, end)
  BY CommonPrefix, Zenon
<1>5. DecodeStep(table, text, mask)
        = Xor(SubSeq(BitsOf(table[at].start, Beta), 1, CommonPrefixLen(table[at].start, table[at].end)),
              SubSeq(mask, 1, CommonPrefixLen(table[at].start, table[at].end)))
  BY Zenon, Zenon DEF DecodeStep
<1> HIDE DEF at
<1> QED BY <1>3, <1>4, <1>5

LEMMA StepBits ==
  ASSUME NEW table, Len(table) \in Nat \ {0}, DOMAIN table = 1..Len(table),
         \A i \in 1..Len(table) : table[i].start \in Int /\ table[i].end \in Int,
         NEW text, NEW mask
  PROVE  /\ \E S : DecodeStep(table, text, mask) \in Seq(S)
         /\ mask \in [1..Beta -> Bit] => DecodeStep(table, text, mask) \in Seq(Bit)
<1>1. PICK start \in Int, k \in 0..Beta :
        DecodeStep(table, text, mask) = Xor(SubSeq(BitsOf(start, Beta), 1, k), SubSeq(mask, 1, k))
  BY StepIs
<1>2. PICK b : b = BitsOf(start, Beta)
  OBVIOUS
<1>3. b \in [1..Beta -> Bit]
  <2>1. b = [i \in 1..Beta |-> b[i]]
    BY <1>2 DEF BitsOf
  <2>2. \A i \in 1..Beta : b[i] \in Bit
    BY <1>2, BitOf, StepDrawsIs, Zenon
  <2> QED BY <2>1, <2>2
<1>4. SubSeq(b, 1, k) = [i \in 1..k |-> b[i]]
  BY <1>3, StepDrawsIs
<1>5. PICK m : m = SubSeq(mask, 1, k)
  BY Zenon
<1>6. PICK x : x = [i \in 1..k |-> (b[i] + m[i]) % 2]
  BY Zenon
<1>7. DecodeStep(table, text, mask) = x
  <2>1. Xor(SubSeq(b, 1, k), m) = x
    BY <1>4, <1>6 DEF Xor
  <2> QED BY <1>1, <1>2, <1>5, <2>1
<1>8. k \in Nat
  OBVIOUS
<1>9. \E S : x \in Seq(S)
  <2>1. PICK S : S = {x[i] : i \in 1..k}
    BY Zenon
  <2>2. x \in [1..k -> S]
    BY <1>6, <2>1
  <2>3. x \in Seq(S)
    BY <1>8, <2>2
  <2> QED BY <2>3
<1>10. ASSUME mask \in [1..Beta -> Bit] PROVE x \in Seq(Bit)
  <2>1. m = [i \in 1..k |-> mask[i]]
    BY <1>5, <1>10, StepDrawsIs
  <2>2. \A i \in 1..k : b[i] \in Bit /\ m[i] \in Bit
    <3>1. \A i \in 1..k : i \in 1..Beta
      BY StepDrawsIs
    <3> QED BY <1>3, <1>10, <2>1, <3>1
  <2>3. \A i \in 1..k : (b[i] + m[i]) % 2 \in Bit
    BY <2>2 DEF Bit
  <2>4. x \in [1..k -> Bit]
    BY <1>6, <2>3
  <2> QED BY <1>8, <2>4
<1> QED BY <1>7, <1>9, <1>10

LEMMA SomeBits ==
  ASSUME NEW table \in Tables, NEW text, NEW mask
  PROVE  \E S : DecodeStep(table, text, mask) \in Seq(S)
<1>1. /\ Len(table) \in Nat \ {0} /\ DOMAIN table = 1..Len(table)
      /\ \A i \in 1..Len(table) : table[i].start \in Int /\ table[i].end \in Int
  BY TableIs, Zenon
<1> QED BY <1>1, StepBits, Zenon

(***************************************************************************)
(* Steps of the loops.                                                     *)
(***************************************************************************)
LEMMA AppendAny ==
  ASSUME NEW s, IsSeq(s), NEW e
  PROVE  /\ IsSeq(Append(s, e)) /\ Len(s) \in Nat /\ Len(Append(s, e)) = Len(s) + 1
         /\ \A i \in 1..Len(s) : Append(s, e)[i] = s[i]
         /\ Append(s, e)[Len(s) + 1] = e
<1>1. PICK S : s \in Seq(S)
  BY DEF IsSeq
<1> DEFINE T == S \cup {e}
<1>2. s \in Seq(T) /\ e \in T
  BY <1>1, SeqMonotonic
<1> HIDE DEF T
<1> QED BY <1>2, AppendProperties, LenProperties DEF IsSeq

LEMMA ExtendsTransitive ==
  ASSUME NEW s \in Seq(Char), NEW t \in Seq(Char), NEW u \in Seq(Char), Extends(s, t), Extends(t, u)
  PROVE  Extends(s, u)
<1>1. IsPrefix(s, u)
  BY PrefixTransitive DEF Extends
<1>2. Len(s) \in Nat /\ Len(t) \in Nat /\ Len(u) \in Nat
  OBVIOUS
<1> QED BY <1>1, <1>2 DEF Extends

LEMMA Unchanging ==
  ASSUME UNCHANGED session
  PROVE  /\ Bits' = Bits /\ stream' = stream
         /\ \A b : EncoderDraws(b)' = EncoderDraws(b) /\ MaskOf(b)' = MaskOf(b) /\ \A p : AskedPrompt(b, p)' = AskedPrompt(b, p)
         /\ \A b, o, t : Choice(b, o, t)' = Choice(b, o, t) /\ After(b, o, t)' = After(b, o, t)
<1>1. Bits' = Bits /\ stream' = stream
  BY DEF session, stream, Bits
<1>2. \A b : EncoderDraws(b)' = EncoderDraws(b)
  BY <1>1 DEF EncoderDraws
<1>3. \A b : MaskOf(b)' = MaskOf(b)
  BY <1>1, <1>2 DEF MaskOf
<1>4. \A b, p : AskedPrompt(b, p)' = AskedPrompt(b, p)
  BY <1>2 DEF AskedPrompt
<1>5. \A b, o, t : Choice(b, o, t)' = Choice(b, o, t)
  BY <1>1, <1>3 DEF Choice
<1>6. \A b, o, t : After(b, o, t)' = After(b, o, t)
  BY <1>2, <1>5 DEF After
<1> QED BY <1>1, <1>2, <1>3, <1>4, <1>5, <1>6

(* What a step makes of a place of the loop.                               *)
Forward(n, b, o, table) ==
  LET a == After(b, o, table)
      c == Choice(b, o, table)
  IN /\ c.consumed \in 0..Beta
     /\ \E i \in 1..Len(table) : c.chosen = table[i].text
     /\ DecodeStep(table, c.chosen, MaskOf(b)) = SubSeq(WindowAt(Bits, o), 1, c.consumed)
     /\ IsPlace(a, n + 1) /\ Extends(b.text, a.text)
     /\ a.text = Spoken(b.text, c.chosen, EncoderDraws(b).endClause)

LEMMA StepForward ==
  ASSUME Given, NEW n \in Nat, n < MaxSteps,
         NEW b, IsPlace(b, n), NEW o \in Nat, NEW table \in Tables
  PROVE  Forward(n, b, o, table)
<1>a. PICK a, c : a = After(b, o, table) /\ c = Choice(b, o, table)
  OBVIOUS
<1>0. /\ IsLocals(b) /\ b.text \in Seq(Char) /\ b.steps = n
      /\ b.pos \in Nat /\ b.pos <= Limit(n) /\ b.partial = <<>>
  BY DEF IsPlace
<1>1. PICK s : s = EncoderDraws(b).locals
  OBVIOUS
<1>2. IsLocals(s) /\ s.text = b.text /\ s.steps = n /\ s.partial = <<>>
  BY <1>0, <1>1, DrawsIs
<1>3. s.pos \in Nat /\ s.pos + Beta <= Limit(n + 1) /\ MaskOf(b) \in [1..Beta -> Bit]
  BY <1>0, <1>1, MaskType DEF Given
<1>4. Bits \in Seq(Bit)
  BY MessageBits DEF Given
<1>5. table \in Seq([text : Seq(Char), start : Int, end : Int]) /\ LaidOut(table)
  BY TableIs, Zenon
<1>6. /\ \E i \in 1..Len(table) : c.chosen = table[i].text
      /\ c.consumed \in 0..Beta
      /\ DecodeStep(table, c.chosen, MaskOf(b)) = SubSeq(WindowAt(Bits, o), 1, c.consumed)
  BY <1>3, <1>4, <1>5, <1>a, StepInverts, Zenon DEF Choice
<1>7. c.chosen \in Seq(Char) /\ c.chosen # <<>>
  BY <1>6, TableIs, Zenon
<1>8. PICK ends : ends = EncoderDraws(b).endClause
  OBVIOUS
<1>9. a = EncoderTakes(Advanced(s), c.chosen, ends)
  BY <1>1, <1>8, <1>a DEF After
<1>10. /\ IsLocals(a) /\ a.text = Spoken(b.text, c.chosen, ends) /\ a.steps = n + 1
       /\ a.pos = s.pos + Beta /\ a.partial = <<>>
  BY <1>2, <1>9, TakesIs
<1>11. a.text \in Seq(Char) /\ Extends(b.text, a.text)
  BY <1>0, <1>7, <1>10, SpokenGrows DEF Extends
<1>12. a.pos \in Nat /\ a.pos <= Limit(n + 1)
  BY <1>3, <1>10, StepDrawsIs
<1>13. IsPlace(a, n + 1)
  BY <1>10, <1>11, <1>12 DEF IsPlace
<1> QED BY <1>6, <1>8, <1>10, <1>11, <1>13, <1>a, Zenon DEF Forward

(* What an iteration of the encoder's loop does with the model's answer,   *)
(* and what it leaves in asked of it.                                      *)
Asks(table, e) ==
  LET b == enc.locals
      o == enc.offset
      s == EncoderDraws(b).locals
  IN /\ asked' = Append(asked, e)
     /\ enc' = [enc EXCEPT !.locals = After(b, o, table), !.offset = @ + Choice(b, o, table).consumed]
     /\ e.before = b /\ e.table = table /\ e.prompt = AskedPrompt(b, enc.preamble) /\ e.maskAt = s.pos
     /\ e.offset = o + Choice(b, o, table).consumed
     /\ (e.opening <=> s.anchor = NoPhrase) /\ e.digression = s.dig

LEMMA EncodePhraseIs ==
  ASSUME EncodePhrase
  PROVE  \E table \in Tables : \E e : Asks(table, e)
<1>1. PICK table \in Tables :
        /\ asked' = Append(asked,
             [before |-> enc.locals, prompt |-> AskedPrompt(enc.locals, enc.preamble),
              maskAt |-> EncoderDraws(enc.locals).locals.pos, table |-> table,
              opening |-> EncoderDraws(enc.locals).locals.anchor = NoPhrase,
              digression |-> EncoderDraws(enc.locals).locals.dig,
              offset |-> enc.offset + Choice(enc.locals, enc.offset, table).consumed])
        /\ enc' = [enc EXCEPT !.locals = After(enc.locals, enc.offset, table),
                             !.offset = @ + Choice(enc.locals, enc.offset, table).consumed]
  BY Zenon, Zenon DEF EncodePhrase, After, Choice, MaskOf, AskedPrompt, Advanced
<1>2. PICK b, o, s : b = enc.locals /\ o = enc.offset /\ s = EncoderDraws(b).locals
  OBVIOUS
<1>3. PICK opens : opens = (s.anchor = NoPhrase)
  OBVIOUS
<1>4. PICK e : e = [before |-> b, prompt |-> AskedPrompt(b, enc.preamble), maskAt |-> s.pos, table |-> table,
                    opening |-> opens, digression |-> s.dig,
                    offset |-> o + Choice(b, o, table).consumed]
  BY Zenon
<1>5. asked' = Append(asked, e)
  BY Zenon, <1>1, <1>2, <1>3, <1>4, Zenon
<1>6. /\ e.before = b /\ e.table = table /\ e.prompt = AskedPrompt(b, enc.preamble) /\ e.maskAt = s.pos
      /\ e.offset = o + Choice(b, o, table).consumed /\ e.digression = s.dig
  BY <1>4
<1>7. e.opening <=> s.anchor = NoPhrase
  BY <1>3, <1>4, Zenon
<1> QED BY <1>1, <1>2, <1>5, <1>6, <1>7, Zenon DEF Asks

LEMMA EncodePhraseKeeps ==
  ASSUME Given, Encoded, EncodePhrase
  PROVE  Encoded'
<1>1. PICK n \in Nat : n = Len(asked) /\ n \in 0..n
  <2>1. Len(asked) \in Nat
    BY AppendAny DEF Encoded
  <2> QED BY <2>1
<1>2. PICK b : b = enc.locals
  OBVIOUS
<1>3. Before(n) = b /\ IsPlace(b, n) /\ Sent(n) \in Nat /\ enc.offset = Sent(n)
  <2>1. Before(n) = b
    BY <1>1, <1>2 DEF Before
  <2>2. Placed(n) /\ enc.offset = Sent(n)
    BY <1>1 DEF Encoded
  <2> QED BY <2>1, <2>2 DEF Placed
<1>4. PICK o \in Nat : o = enc.offset /\ o = Sent(n)
  BY <1>3
<1>5. enc.status = "running" /\ n < MaxSteps /\ UNCHANGED session
  BY <1>2, <1>3 DEF EncodePhrase, EncoderRuns, IsPlace
<1>5a. PICK table \in Tables : \E e : Asks(table, e)
  BY EncodePhraseIs
<1>6. PICK e :
        /\ asked' = Append(asked, e)
        /\ enc' = [enc EXCEPT !.locals = After(b, o, table), !.offset = @ + Choice(b, o, table).consumed]
        /\ e.before = b /\ e.table = table /\ e.prompt = AskedPrompt(b, enc.preamble)
        /\ e.maskAt = EncoderDraws(b).locals.pos /\ e.offset = o + Choice(b, o, table).consumed
  BY <1>2, <1>4, <1>5a, Zenon DEF Asks
<1>7. PICK a, c : a = After(b, o, table) /\ c = Choice(b, o, table)
  OBVIOUS
<1>8. c.consumed \in 0..Beta /\ IsPlace(a, n + 1) /\ Extends(b.text, a.text)
  <2>1. Forward(n, b, o, table)
    BY <1>1, <1>3, <1>4, <1>5, <1>6, StepForward
  <2> QED BY <1>7, <2>1 DEF Forward
<1>9. /\ IsSeq(asked') /\ Len(asked') = n + 1
      /\ \A i \in 1..n : asked'[i] = asked[i]
      /\ asked'[n + 1] = e
  BY <1>1, <1>6, AppendAny DEF Encoded
<1>10. enc' = [status |-> "running", preamble |-> enc.preamble, locals |-> a, offset |-> o + c.consumed,
               cut |-> enc.cut, cover |-> enc.cover]
  BY <1>4, <1>5, <1>6, <1>7, Zenon DEF Encoded, IsEnc
<1>11. \A i \in 0..n : Before(i)' = Before(i)
  <2> SUFFICES ASSUME NEW i \in 0..n PROVE Before(i)' = Before(i)
    OBVIOUS
  <2>1. i < Len(asked') /\ i + 1 \in 1..(n + 1)
    BY <1>9
  <2>2. Before(i)' = asked'[i + 1].before
    BY <2>1 DEF Before
  <2>3. CASE i < n
    <3>1. i + 1 \in 1..n
      BY <2>3
    <3> QED BY <1>1, <1>9, <2>2, <2>3, <3>1 DEF Before
  <2>4. CASE i = n
    BY <1>3, <1>6, <1>9, <2>2, <2>4
  <2> QED BY <2>3, <2>4
<1>12. Before(n + 1)' = a
  BY <1>9, <1>10 DEF Before
<1>13. \A i \in 0..n : Sent(i)' = Sent(i)
  BY <1>9 DEF Sent
<1>14. Sent(n + 1)' = o + c.consumed /\ o + c.consumed \in Nat
  BY <1>6, <1>7, <1>8, <1>9, StepDrawsIs DEF Sent
<1>15. ASSUME NEW i \in 0..(n + 1) PROVE Placed(i)'
  <2>1. CASE i \in 0..n
    <3>1. Placed(i)
      BY <1>1, <2>1 DEF Encoded
    <3> QED BY <1>11, <1>13, <2>1, <3>1 DEF Placed
  <2>2. CASE i = n + 1
    BY <1>8, <1>12, <1>14, <2>2 DEF Placed
  <2> QED BY <2>1, <2>2
<1>16. ASSUME NEW i \in 1..(n + 1) PROVE Follows(i)'
  <2>1. CASE i \in 1..n
    <3>1. Follows(i) /\ i - 1 \in 0..n /\ i \in 0..n
      BY <1>1, <2>1 DEF Encoded
    <3>2. Before(i - 1)' = Before(i - 1) /\ Sent(i - 1)' = Sent(i - 1) /\ Before(i)' = Before(i)
      BY <1>11, <1>13, <3>1
    <3>3. asked'[i] = asked[i]
      BY <1>9, <2>1
    <3>4. enc'.preamble = enc.preamble
      BY <1>10
    <3> QED BY <1>5, <3>1, <3>2, <3>3, <3>4, Unchanging DEF Follows
  <2>2. CASE i = n + 1
    <3>1. i - 1 = n /\ n \in 0..n
      BY <2>2
    <3>2. Before(i - 1)' = b /\ Sent(i - 1)' = o /\ Before(i)' = a /\ asked'[i] = e
      BY <1>3, <1>4, <1>9, <1>11, <1>12, <1>13, <2>2, <3>1
    <3>3. enc'.preamble = enc.preamble
      BY <1>10
    <3> QED BY <1>5, <1>6, <1>7, <3>2, <3>3, Unchanging DEF Follows
  <2> QED BY <2>1, <2>2
<1>17. Grows'
  <2> SUFFICES ASSUME NEW i \in 0..(n + 1), NEW j \in 0..(n + 1), i < j
               PROVE  Extends(Before(i)'.text, Before(j)'.text)
    BY <1>9 DEF Grows, Extends
  <2>0. i \in 0..n /\ Before(i)' = Before(i)
    BY <1>11
  <2>1. CASE j \in 0..n
    <3>1. Before(j)' = Before(j)
      BY <1>11, <2>1
    <3> QED BY <1>1, <2>0, <2>1, <3>1 DEF Encoded, Grows
  <2>2. CASE j = n + 1
    <3>1. Before(j)' = a
      BY <1>12, <2>2
    <3>2. CASE i = n
      BY <1>3, <1>8, <2>0, <3>1, <3>2
    <3>3. CASE i < n
      <4>1. Extends(Before(i).text, b.text)
        BY <1>1, <1>3, <2>0, <3>3 DEF Encoded, Grows
      <4>2. Before(i).text \in Seq(Char) /\ b.text \in Seq(Char) /\ a.text \in Seq(Char)
        BY <1>1, <1>3, <1>8, <2>0 DEF Encoded, Placed, IsPlace
      <4>3. Extends(Before(i).text, a.text)
        BY <1>8, <4>1, <4>2, ExtendsTransitive
      <4> QED BY <2>0, <3>1, <4>3
    <3> QED BY <2>0, <3>2, <3>3
  <2> QED BY <2>1, <2>2
<1>18. (Before(0) = FreshLocals("styled"))'
  <2>1. 0 \in 0..n
    BY <1>1
  <2>2. FreshLocals("styled")' = FreshLocals("styled")
    BY DEF FreshLocals
  <2> QED BY <1>11, <2>1, <2>2 DEF Encoded
<1>19. IsEnc(enc') /\ enc'.status = "running" /\ enc'.offset = o + c.consumed
  BY <1>10 DEF IsEnc
<1>20. n + 1 <= MaxSteps
  BY <1>5, StepDrawsIs
<1> QED BY <1>9, <1>14, <1>15, <1>16, <1>17, <1>18, <1>19, <1>20 DEF Encoded

(* The steps of the encoder before and behind its loop, of either mode.    *)
LEMMA EncoderBegins ==
  ASSUME IsEnc(enc), BeginEncode
  PROVE  /\ UNCHANGED <<session, asked, replayed, dec>> /\ enc.status = "idle"
         /\ IsEnc(enc') /\ enc'.locals = enc.locals /\ enc'.offset = enc.offset /\ enc'.cut = enc.cut
         /\ enc'.status \in {"ERR_CAPACITY", "running", "failed"}
<1>1. UNCHANGED <<session, asked, replayed, dec>> /\ enc.status = "idle"
  BY Zenon DEF BeginEncode
<1>2. \/ enc' = [enc EXCEPT !.status = "ERR_CAPACITY"]
      \/ \E built \in Preambles : enc' = [enc EXCEPT !.status = "running", !.preamble = built]
      \/ enc' = [enc EXCEPT !.status = "failed"]
  BY Zenon DEF BeginEncode
<1>3. CASE enc' = [enc EXCEPT !.status = "ERR_CAPACITY"]
  <2>1. enc' = [status |-> "ERR_CAPACITY", preamble |-> enc.preamble, locals |-> enc.locals,
                offset |-> enc.offset, cut |-> enc.cut, cover |-> enc.cover]
    BY <1>3 DEF IsEnc
  <2> QED BY <1>1, <2>1 DEF IsEnc
<1>4. CASE \E built \in Preambles : enc' = [enc EXCEPT !.status = "running", !.preamble = built]
  <2>1. PICK built : enc' = [enc EXCEPT !.status = "running", !.preamble = built]
    BY <1>4, Zenon
  <2>2. enc' = [status |-> "running", preamble |-> built, locals |-> enc.locals,
                offset |-> enc.offset, cut |-> enc.cut, cover |-> enc.cover]
    BY <2>1 DEF IsEnc
  <2> QED BY <1>1, <2>2 DEF IsEnc
<1>5. CASE enc' = [enc EXCEPT !.status = "failed"]
  <2>1. enc' = [status |-> "failed", preamble |-> enc.preamble, locals |-> enc.locals,
                offset |-> enc.offset, cut |-> enc.cut, cover |-> enc.cover]
    BY <1>5 DEF IsEnc
  <2> QED BY <1>1, <2>1 DEF IsEnc
<1> QED BY <1>2, <1>3, <1>4, <1>5, Zenon

LEMMA EncoderReturns ==
  ASSUME IsEnc(enc), EncodeReturns \/ EncodeFails
  PROVE  /\ UNCHANGED <<session, asked, replayed, dec>> /\ enc.status = "running"
         /\ IsEnc(enc') /\ enc'.locals = enc.locals /\ enc'.offset = enc.offset /\ enc'.cut = enc.cut
         /\ enc'.preamble = enc.preamble /\ enc'.status \in {"OK", "failed"}
         /\ enc'.status = "OK" => enc'.cover = Closed(enc.locals) /\ ~EncoderRuns
<1>1. UNCHANGED <<session, asked, replayed, dec>> /\ enc.status = "running"
  BY Zenon DEF EncodeReturns, EncodeFails, EncoderRuns
<1>2. \/ enc' = [enc EXCEPT !.status = "OK", !.cover = Closed(enc.locals)] /\ ~EncoderRuns
      \/ enc' = [enc EXCEPT !.status = "failed"]
  BY Zenon DEF EncodeReturns, EncodeFails
<1>3. CASE enc' = [enc EXCEPT !.status = "OK", !.cover = Closed(enc.locals)] /\ ~EncoderRuns
  <2>1. enc' = [status |-> "OK", preamble |-> enc.preamble, locals |-> enc.locals,
                offset |-> enc.offset, cut |-> enc.cut, cover |-> Closed(enc.locals)]
    BY <1>3 DEF IsEnc
  <2> QED BY <1>1, <1>3, <2>1 DEF IsEnc
<1>4. CASE enc' = [enc EXCEPT !.status = "failed"]
  <2>1. enc' = [status |-> "failed", preamble |-> enc.preamble, locals |-> enc.locals,
                offset |-> enc.offset, cut |-> enc.cut, cover |-> enc.cover]
    BY <1>4 DEF IsEnc
  <2> QED BY <1>1, <2>1 DEF IsEnc
<1> QED BY <1>2, <1>3, <1>4, Zenon

(* The steps of the encoder that choose no phrase.                         *)
LEMMA EncoderRestKeeps ==
  ASSUME Encoded, UNCHANGED <<session, asked>>, IsEnc(enc'),
         enc'.locals = enc.locals, enc'.offset = enc.offset,
         enc'.preamble = enc.preamble \/ asked = <<>>, enc'.status = "idle" => asked = <<>>,
         enc'.status = "OK" => /\ enc'.cover = ClosedSentence(enc.locals.text)
                               /\ Len(asked) >= MaxSteps \/ enc.offset >= Len(Bits)
  PROVE  Encoded'
<1>0. UNCHANGED session /\ asked' = asked
  OBVIOUS
<1>1. \A i : Before(i)' = Before(i) /\ Sent(i)' = Sent(i)
  BY <1>0 DEF Before, Sent
<1>2. ASSUME NEW i \in 0..Len(asked) PROVE Placed(i)'
  <2>1. Placed(i)
    BY DEF Encoded
  <2> QED BY <1>1, <2>1 DEF Placed
<1>3. ASSUME NEW i \in 1..Len(asked) PROVE Follows(i)'
  <2>1. Follows(i)
    BY DEF Encoded
  <2>2. enc'.preamble = enc.preamble
    <3> SUFFICES ASSUME asked = <<>> PROVE FALSE
      OBVIOUS
    <3>1. Len(asked) = 0
      OBVIOUS
    <3> QED BY <3>1
  <2> QED BY <1>0, <1>1, <2>1, <2>2, Unchanging DEF Follows
<1>4. Grows'
  BY <1>0, <1>1 DEF Encoded, Grows
<1>5. (Before(0) = FreshLocals("styled"))'
  <2>1. FreshLocals("styled")' = FreshLocals("styled")
    BY DEF FreshLocals
  <2> QED BY <1>1, <2>1 DEF Encoded
<1>6. Bits' = Bits
  BY <1>0, Unchanging
<1>7. IsSeq(asked') /\ Len(asked') <= MaxSteps /\ (enc.offset = Sent(Len(asked)))'
  <2>1. Sent(Len(asked))' = Sent(Len(asked))
    BY <1>0 DEF Sent
  <2> QED BY <1>0, <2>1 DEF Encoded
<1>8. enc'.status = "OK" =>
        /\ enc'.cover = ClosedSentence(enc'.locals.text)
        /\ Len(asked') >= MaxSteps \/ enc'.offset >= Len(Bits')
  BY <1>0, <1>6
<1> QED BY <1>0, <1>2, <1>3, <1>4, <1>5, <1>7, <1>8 DEF Encoded

LEMMA EncoderKeeps ==
  ASSUME Given, style = "styled", Encoded, NEW A,
         A = (BeginEncode \/ EncodePhrase \/ EncodeFails \/ EncodeReturns), A
  PROVE  Encoded' /\ UNCHANGED <<session, replayed, dec>> /\ enc.status # "OK"
<1>0. IsEnc(enc) /\ Len(asked) \in Nat /\ Placed(Len(asked)) /\ Before(Len(asked)) = enc.locals
      /\ enc.offset = Sent(Len(asked))
  <2>1. Len(asked) \in Nat
    BY AppendAny DEF Encoded
  <2>2. Before(Len(asked)) = enc.locals
    BY <2>1 DEF Before
  <2> QED BY <2>1, <2>2 DEF Encoded
<1>1. CASE BeginEncode
  <2>1. /\ UNCHANGED <<session, asked, replayed, dec>> /\ enc.status = "idle"
        /\ IsEnc(enc') /\ enc'.locals = enc.locals /\ enc'.offset = enc.offset
        /\ enc'.status \in {"ERR_CAPACITY", "running", "failed"}
    BY <1>0, <1>1, EncoderBegins
  <2>2. UNCHANGED <<session, asked>> /\ UNCHANGED <<session, replayed, dec>> /\ enc.status # "OK"
        /\ enc'.status # "OK" /\ enc'.status # "idle"
    BY <2>1
  <2>3. asked = <<>>
    BY <2>1 DEF Encoded
  <2> QED BY <2>1, <2>2, <2>3, EncoderRestKeeps
<1>2. CASE EncodePhrase
  <2>1. UNCHANGED <<session, replayed, dec>> /\ enc.status # "OK"
    BY <1>2, Zenon DEF EncodePhrase, EncoderRuns
  <2> QED BY <1>2, <2>1, EncodePhraseKeeps
<1>3. CASE EncodeFails \/ EncodeReturns
  <2>1. /\ UNCHANGED <<session, asked, replayed, dec>> /\ enc.status = "running"
        /\ IsEnc(enc') /\ enc'.locals = enc.locals /\ enc'.offset = enc.offset
        /\ enc'.preamble = enc.preamble /\ enc'.status \in {"OK", "failed"}
        /\ enc'.status = "OK" => enc'.cover = Closed(enc.locals) /\ ~EncoderRuns
    BY <1>0, <1>3, EncoderReturns
  <2>2. UNCHANGED <<session, asked>> /\ UNCHANGED <<session, replayed, dec>> /\ enc.status # "OK"
        /\ enc'.status # "idle"
    BY <2>1
  <2>3. Closed(enc.locals) = ClosedSentence(enc.locals.text)
    BY DEF Closed, Styled
  <2>4. ~EncoderRuns => Len(asked) >= MaxSteps \/ enc.offset >= Len(Bits)
    <3>1. enc.locals.steps = Len(asked) /\ enc.locals.partial = <<>> /\ enc.offset \in Nat
      BY <1>0 DEF Placed, IsPlace
    <3>2. Len(Bits) \in Nat
      BY MessageBits DEF Given
    <3>3. ~EncoderRuns => ~(Len(asked) < MaxSteps) \/ ~(enc.offset < Len(Bits))
      BY <2>1, <3>1 DEF EncoderRuns
    <3> QED BY <1>0, <3>1, <3>2, <3>3, StepDrawsIs
  <2> QED BY <2>1, <2>2, <2>3, <2>4, EncoderRestKeeps
<1> QED BY <1>1, <1>2, <1>3, Zenon

(* The decoder waits while the encoder works.                              *)
LEMMA DecoderWaits ==
  ASSUME Given, Encoded', Decoded, dec.status = "idle", UNCHANGED <<session, replayed, dec>>
  PROVE  Decoded'
<1>0. UNCHANGED session /\ replayed' = replayed /\ dec' = dec
  OBVIOUS
<1>1. /\ replayed = <<>> /\ dec.bits = <<>> /\ dec.locals = FreshLocals("styled") /\ ~dec.unmatched
      /\ IsSeq(replayed) /\ IsDec(dec) /\ ~dec.skipped
  BY DEF Decoded
<1>2. FreshLocals("styled")' = FreshLocals("styled")
  BY DEF FreshLocals
<1>3. Len(replayed') = 0
  BY <1>0, <1>1
<1>4. Retraced(0)'
  BY DEF Retraced
<1>5. InStep(0)'
  <2>1. 0 <= Len(asked')
    <3>1. Len(asked') \in Nat
      BY AppendAny DEF Encoded
    <3> QED BY <3>1
  <2>2. Buffered(Sent(0))' = <<>>
    <3>1. Sent(0)' = 0
      BY DEF Sent
    <3>2. PICK M \in Nat : M = MaxRecoveredBits
      BY SessionAssumption
    <3>3. (IF 0 < M THEN 0 ELSE M) = 0
      OBVIOUS
    <3>4. Buffered(0)' = <<>>
      BY <3>2, <3>3 DEF Buffered
    <3> QED BY <3>1, <3>4
  <2> QED BY <1>0, <1>1, <2>1, <2>2 DEF InStep
<1> QED BY <1>0, <1>1, <1>2, <1>3, <1>4, <1>5 DEF Decoded

(***************************************************************************)
(* What the covertext and the model's answers tell the decoder.            *)
(***************************************************************************)
LEMMA Asked ==
  ASSUME Encoded
  PROVE  Len(asked) \in Nat /\ DOMAIN asked = 1..Len(asked) /\ Before(Len(asked)) = enc.locals
<1>1. PICK S : asked \in Seq(S)
  BY DEF Encoded, IsSeq
<1>2. Len(asked) \in Nat /\ DOMAIN asked = 1..Len(asked)
  BY <1>1, LenProperties
<1> QED BY <1>2 DEF Before

LEMMA CoverIs ==
  ASSUME Encoded, enc.status = "OK"
  PROVE  /\ enc.cover \in Seq(Char)
         /\ \A i \in 0..Len(asked) : IsPrefix(Before(i).text, enc.cover)
         /\ Len(asked) = 0 => enc.cover = <<>>
<1>1. PICK m \in Nat : m = Len(asked) /\ Before(m) = enc.locals
  BY Asked, Zenon
<1>2. \A i \in 0..m : Before(i).text \in Seq(Char)
  BY <1>1 DEF Encoded, Placed, IsPlace
<1>3. PICK t \in Seq(Char) : t = enc.locals.text
  BY <1>1, <1>2
<1>4. PICK cover : cover = enc.cover /\ cover = ClosedSentence(t)
  BY <1>3 DEF Encoded
<1>5. cover \in Seq(Char) /\ IsPrefix(t, cover)
  <2>1. CASE cover = t
    <3>1. Len(t) \in Nat /\ \A k \in 1..Len(t) : t[k] = t[k]
      OBVIOUS
    <3>2. IsPrefix(t, t)
      BY <3>1, PrefixIs
    <3> QED BY <2>1, <3>2
  <2>2. CASE cover = Append(t, Period)
    <3>1. <<Period>> \in Seq(Char) /\ cover = t \o <<Period>>
      BY <2>2, Chars, One, AppendIs
    <3> QED BY <3>1, ConcatProperties, PrefixOfConcat, Zenon
  <2> QED BY <1>4, <2>1, <2>2 DEF ClosedSentence
<1>6. ASSUME NEW i \in 0..m PROVE IsPrefix(Before(i).text, cover)
  <2>1. CASE i = m
    BY <1>1, <1>3, <1>5, <2>1
  <2>2. CASE i # m
    <3>1. Extends(Before(i).text, t) /\ Before(i).text \in Seq(Char)
      BY <1>1, <1>2, <1>3, <2>2 DEF Encoded, Grows
    <3>2. IsPrefix(Before(i).text, t)
      BY <3>1 DEF Extends
    <3> QED BY <1>5, <3>1, <3>2, PrefixTransitive
  <2> QED BY <2>1, <2>2
<1>7. CASE m = 0
  <2>1. t = <<>>
    <3>1. enc.locals = FreshLocals("styled")
      BY <1>1, <1>7 DEF Encoded
    <3> QED BY <1>3, <3>1, FreshIs
  <2>2. cover = <<>>
    BY <1>4, <2>1 DEF ClosedSentence
  <2> QED BY <1>1, <1>4, <1>5, <1>6, <2>2
<1>8. CASE m # 0
  BY <1>1, <1>4, <1>5, <1>6, <1>8
<1> QED BY <1>7, <1>8

(* What the decoder, having made n steps, reads in the covertext: where it *)
(* is, the encoder's next phrase and behind it the place after n + 1.      *)
Reads(n, b, o, table, c) ==
  /\ table \in Tables /\ IsPlace(b, n) /\ n < MaxSteps /\ o \in Nat /\ c.consumed \in 0..Beta
  /\ Before(n + 1) = After(b, o, table) /\ Sent(n + 1) = o + c.consumed
  /\ asked[n + 1].prompt = AskedPrompt(b, enc.preamble) /\ asked[n + 1].maskAt = EncoderDraws(b).locals.pos
  /\ DecodeStep(table, c.chosen, MaskOf(b)) = SubSeq(WindowAt(Bits, o), 1, c.consumed)
  /\ \E i \in 1..Len(table), rest \in Seq(Char) :
       /\ c.chosen = table[i].text /\ RestOf(n) = Cat(c.chosen, rest)
       /\ RestAfter(rest, EncoderDraws(b).endClause) = RestOf(n + 1)

LEMMA NextPhrase ==
  ASSUME Given, Encoded, enc.status = "OK", NEW n \in Nat, n < Len(asked),
         NEW b, b = Before(n), NEW o, o = Sent(n), NEW table, table = asked[n + 1].table,
         NEW c, c = Choice(b, o, table)
  PROVE  Reads(n, b, o, table, c)
<1>1. PICK m \in Nat : m = Len(asked) /\ n \in 0..m /\ n + 1 \in 1..m /\ n + 1 \in 0..m /\ (n + 1) - 1 = n
  <2>1. PICK m \in Nat : m = Len(asked)
    BY Asked, Zenon
  <2> QED BY <2>1
<1>2. Follows(n + 1) /\ Placed(n) /\ n < MaxSteps
  <2>1. m <= MaxSteps
    BY <1>1 DEF Encoded
  <2>2. n < MaxSteps
    BY <1>1, <2>1, StepDrawsIs
  <2> QED BY <1>1, <2>2 DEF Encoded
<1>3. table \in Tables /\ IsPlace(b, n) /\ o \in Nat
  BY <1>2 DEF Follows, Placed
<1>4. /\ asked[n + 1].prompt = AskedPrompt(b, enc.preamble) /\ asked[n + 1].maskAt = EncoderDraws(b).locals.pos
      /\ asked[n + 1].offset = o + c.consumed /\ Before(n + 1) = After(b, o, table)
  BY <1>1, <1>2 DEF Follows
<1>5. Sent(n + 1) = o + c.consumed
  BY <1>4 DEF Sent
<1>6. PICK a : a = After(b, o, table)
  OBVIOUS
<1>8. /\ c.consumed \in 0..Beta
      /\ \E i \in 1..Len(table) : c.chosen = table[i].text
      /\ DecodeStep(table, c.chosen, MaskOf(b)) = SubSeq(WindowAt(Bits, o), 1, c.consumed)
      /\ a.text = Spoken(b.text, c.chosen, EncoderDraws(b).endClause)
  <2>1. Forward(n, b, o, table)
    BY <1>2, <1>3, StepForward
  <2> QED BY <1>6, <2>1 DEF Forward
<1>9. PICK i \in 1..Len(table) : c.chosen = table[i].text
  BY <1>8
<1>10. PICK p \in Seq(Char) : p = c.chosen /\ p # <<>> /\ p[1] # Space
  BY <1>3, <1>9, TableIs, Zenon
<1>11. PICK t \in Seq(Char) : t = b.text
  BY <1>3, Zenon DEF IsPlace
<1>12. PICK cover \in Seq(Char) : cover = enc.cover /\ IsPrefix(a.text, cover)
  <2>1. IsPrefix(Before(n + 1).text, enc.cover)
    BY <1>1, CoverIs
  <2> QED BY <1>4, <1>6, <2>1, CoverIs
<1>13. PICK ends : ends = EncoderDraws(b).endClause
  OBVIOUS
<1>14. PICK u : u = a.text /\ u = Spoken(t, p, ends)
  BY <1>8, <1>10, <1>11, <1>13
<1>15. PICK rest \in Seq(Char) : /\ SkipSpaces(Drop(cover, Len(t))) = p \o rest
                                 /\ RestAfter(rest, ends) = SkipSpaces(Drop(cover, Len(u)))
  <2>1. IsPrefix(Spoken(t, p, ends), cover) /\ p # <<>> /\ p[1] # Space
    BY <1>10, <1>12, <1>14
  <2>2. Continues(cover, t, p, ends)
    BY <2>1, PhraseInCovertext
  <2> QED BY <1>14, <2>2, Zenon DEF Continues
<1>16. RestOf(n) = Cat(p, rest)
  BY <1>11, <1>12, <1>15 DEF RestOf, Cat
<1>17. RestOf(n + 1) = RestAfter(rest, ends)
  BY <1>4, <1>6, <1>12, <1>14, <1>15, Zenon DEF RestOf
<1> QED BY <1>2, <1>3, <1>4, <1>5, <1>8, <1>9, <1>10, <1>13, <1>16, <1>17 DEF Reads

LEMMA OneAnswer ==
  ASSUME Encoded, NEW n \in Nat, n < Len(asked), NEW prompt, prompt = AskedPrompt(Before(n), enc.preamble)
  PROVE  Answers(prompt, Tables) = {asked[n + 1].table}
<1>1. PICK m \in Nat : m = Len(asked) /\ DOMAIN asked = 1..m
  BY Asked, Zenon
<1>2. ASSUME NEW k \in 0..m PROVE AskedPrompt(Before(k), enc.preamble).text = Before(k).text
  <2>1. PICK b : b = Before(k) /\ IsLocals(b)
    BY <1>1 DEF Encoded, Placed, IsPlace
  <2>2. EncoderDraws(b).locals.text = b.text
    BY <2>1, DrawsIs
  <2>3. AskedPrompt(b, enc.preamble).text = b.text
    BY <2>2 DEF AskedPrompt, PromptOf
  <2> QED BY <2>1, <2>3
<1>3. ASSUME NEW i \in 1..m, NEW j \in 1..m, i < j PROVE asked[i].prompt # asked[j].prompt
  <2>1. PICK k \in 0..m, l \in 0..m : k = i - 1 /\ l = j - 1 /\ k < l
    BY <1>3
  <2>2. asked[i].prompt = AskedPrompt(Before(k), enc.preamble) /\ asked[j].prompt = AskedPrompt(Before(l), enc.preamble)
    BY <1>1, <2>1 DEF Encoded, Follows
  <2>3. Extends(Before(k).text, Before(l).text)
    BY <1>1, <2>1 DEF Encoded, Grows
  <2>4. Before(k).text \in Seq(Char) /\ Before(l).text \in Seq(Char)
    BY <1>1, <2>1 DEF Encoded, Placed, IsPlace
  <2>5. Before(k).text # Before(l).text
    <3>1. Len(Before(k).text) \in Nat
      BY <2>4
    <3> QED BY <2>3, <3>1 DEF Extends
  <2> QED BY <1>2, <2>1, <2>2, <2>5, Zenon
<1>4. n + 1 \in 1..m /\ asked[n + 1].prompt = prompt
  <2>1. n + 1 \in 1..m /\ (n + 1) - 1 = n
    BY <1>1
  <2> QED BY <1>1, <2>1 DEF Encoded, Follows
<1> DEFINE known == {i \in DOMAIN asked : asked[i].prompt = prompt}
<1>5. known = {n + 1}
  <2> SUFFICES ASSUME NEW i \in 1..m, asked[i].prompt = prompt PROVE i = n + 1
    BY <1>1, <1>4
  <2>1. ~(i < n + 1) /\ ~(n + 1 < i)
    BY <1>3, <1>4
  <2> QED BY <2>1
<1> QED BY <1>5 DEF Answers

(***************************************************************************)
(* The steps of the decoder.                                               *)
(***************************************************************************)
LEMMA DecoderSide ==
  ASSUME UNCHANGED <<session, asked, enc>>
  PROVE  /\ \A n : Before(n)' = Before(n) /\ Sent(n)' = Sent(n) /\ RestOf(n)' = RestOf(n)
         /\ \A k : Buffered(k)' = Buffered(k)
         /\ Bits' = Bits
<1>0. UNCHANGED session /\ asked' = asked /\ enc' = enc
  OBVIOUS
<1>1. \A n : Before(n)' = Before(n) /\ Sent(n)' = Sent(n)
  BY <1>0 DEF Before, Sent
<1>2. \A n : RestOf(n)' = RestOf(n)
  BY <1>0, <1>1 DEF RestOf
<1>3. Bits' = Bits
  BY <1>0, Unchanging
<1>4. \A i : Padded(i)' = Padded(i)
  BY <1>3 DEF Padded
<1>5. \A k : Buffered(k)' = Buffered(k)
  BY <1>4 DEF Buffered
<1> QED BY <1>1, <1>2, <1>3, <1>5

LEMMA EncodedStays ==
  ASSUME Encoded, UNCHANGED <<session, asked, enc>>
  PROVE  Encoded'
<1>1. UNCHANGED <<session, asked>> /\ enc' = enc
  OBVIOUS
<1>2. IsEnc(enc)
  BY DEF Encoded
<1>3. /\ IsEnc(enc') /\ enc'.locals = enc.locals /\ enc'.offset = enc.offset
      /\ enc'.preamble = enc.preamble
  BY <1>1, <1>2
<1>3a. enc'.status = "idle" => asked = <<>>
  BY <1>1 DEF Encoded
<1>4. enc'.status = "OK" => /\ enc'.cover = ClosedSentence(enc.locals.text)
                            /\ Len(asked) >= MaxSteps \/ enc.offset >= Len(Bits)
  BY <1>1 DEF Encoded
<1> QED BY <1>1, <1>3, <1>3a, <1>4, EncoderRestKeeps

(* What an iteration does with an answer of the model, and with what it    *)
(* finds behind the phrase it recognised.                                  *)
Hears(table, rest) ==
  LET phrase == Recognised(table, dec.remaining)
      d      == dec.locals
      bits   == Recover(dec.bits, DecodeStep(table, phrase, MaskOf(d)))
  IN /\ \E e : /\ replayed' = Append(replayed, e)
               /\ e.prompt = AskedPrompt(d, dec.preamble) /\ e.maskAt = EncoderDraws(d).locals.pos
     /\ IsDec(dec') /\ dec'.bits = bits /\ dec'.skipped = dec.skipped /\ dec'.preamble = dec.preamble
     /\ Matching(table, dec.remaining) # {} /\ ~dec.unmatched => ~dec'.unmatched
     /\ dec'.status = IF NullTerminatorFound(bits) THEN "stopped" ELSE "running"
     /\ NullTerminatorFound(bits) => dec'.locals = [EncoderDraws(d).locals EXCEPT !.pos = @ + Beta]
     /\ ~NullTerminatorFound(bits) =>
          /\ dec'.locals = DecoderTakes([EncoderDraws(d).locals EXCEPT !.pos = @ + Beta],
                                        phrase, EncoderDraws(d).endClause)
          /\ dec'.remaining = RestAfter(rest, EncoderDraws(d).endClause)

LEMMA DecodePhraseIs ==
  ASSUME DecodePhrase, IsDec(dec)
  PROVE  \E table \in Answers(AskedPrompt(dec.locals, dec.preamble), Tables) :
           \E rest \in Behind(dec.remaining, Recognised(table, dec.remaining)) : Hears(table, rest)
<1>1. dec.status = "running"
  BY DEF DecodePhrase, DecoderRuns
<1>2. EncoderDraws(dec.locals) = DecoderDraws(dec.locals)
  BY SameDraws
<1> DEFINE Bitsof(table) ==
             Recover(dec.bits, DecodeStep(table, Recognised(table, dec.remaining), MaskOf(dec.locals)))
           Moved == [EncoderDraws(dec.locals).locals EXCEPT !.pos = @ + Beta]
           Readof(table) == [dec EXCEPT !.bits = Bitsof(table), !.locals = Moved,
                                        !.unmatched = @ \/ Matching(table, dec.remaining) = {}]
           Heard(table, rest) ==
             /\ replayed' = Append(replayed, [prompt |-> AskedPrompt(dec.locals, dec.preamble),
                                              maskAt |-> EncoderDraws(dec.locals).locals.pos])
             /\ dec' = IF NullTerminatorFound(Bitsof(table))
                       THEN [Readof(table) EXCEPT !.status = "stopped"]
                       ELSE [Readof(table) EXCEPT
                               !.locals    = DecoderTakes(Moved, Recognised(table, dec.remaining),
                                                          EncoderDraws(dec.locals).endClause),
                               !.remaining = RestAfter(rest, EncoderDraws(dec.locals).endClause)]
<1>3. \E table \in Answers(AskedPrompt(dec.locals, dec.preamble), Tables) :
       \E rest \in Behind(dec.remaining, Recognised(table, dec.remaining)) : Heard(table, rest)
  BY Zenon, <1>2, Zenon DEF DecodePhrase, MaskOf, AskedPrompt
<1>4. PICK table \in Answers(AskedPrompt(dec.locals, dec.preamble), Tables) :
        \E rest \in Behind(dec.remaining, Recognised(table, dec.remaining)) : Heard(table, rest)
  BY <1>3, Zenon
<1>5. PICK rest \in Behind(dec.remaining, Recognised(table, dec.remaining)) : Heard(table, rest)
  BY <1>4, Zenon
<1>6. PICK phrase, d, bits, moved, ends, read :
        /\ phrase = Recognised(table, dec.remaining) /\ d = dec.locals
        /\ read = [dec EXCEPT !.bits = bits, !.locals = moved,
                              !.unmatched = @ \/ Matching(table, dec.remaining) = {}]
        /\ bits = Recover(dec.bits, DecodeStep(table, phrase, MaskOf(d)))
        /\ moved = [EncoderDraws(d).locals EXCEPT !.pos = @ + Beta]
        /\ ends = EncoderDraws(d).endClause
  BY Zenon
<1>7. dec' = IF NullTerminatorFound(bits)
             THEN [read EXCEPT !.status = "stopped"]
             ELSE [read EXCEPT !.locals = DecoderTakes(moved, phrase, ends),
                               !.remaining = RestAfter(rest, ends)]
  BY Zenon, <1>5, <1>6, Zenon
<1>7a. PICK u : u = (dec.unmatched \/ Matching(table, dec.remaining) = {})
  OBVIOUS
<1>7b. Matching(table, dec.remaining) # {} /\ ~dec.unmatched => ~u
  BY <1>7a, Zenon
<1>7c. read = [status |-> "running", preamble |-> dec.preamble, locals |-> moved, remaining |-> dec.remaining,
               todo |-> dec.todo, bits |-> bits, unmatched |-> u, skipped |-> dec.skipped,
               wordless |-> dec.wordless, result |-> dec.result]
  BY <1>1, <1>6, <1>7a, Zenon DEF IsDec
<1>8. /\ IsDec(dec') /\ dec'.bits = bits /\ dec'.skipped = dec.skipped /\ dec'.preamble = dec.preamble
      /\ Matching(table, dec.remaining) # {} /\ ~dec.unmatched => ~dec'.unmatched
      /\ dec'.status = IF NullTerminatorFound(bits) THEN "stopped" ELSE "running"
      /\ NullTerminatorFound(bits) => dec'.locals = moved
      /\ ~NullTerminatorFound(bits) => /\ dec'.locals = DecoderTakes(moved, phrase, ends)
                                       /\ dec'.remaining = RestAfter(rest, ends)
  <2> HIDE DEF Heard
  <2>1. CASE NullTerminatorFound(bits)
    <3>1. dec' = [status |-> "stopped", preamble |-> dec.preamble, locals |-> moved,
                  remaining |-> dec.remaining, todo |-> dec.todo, bits |-> bits, unmatched |-> u,
                  skipped |-> dec.skipped, wordless |-> dec.wordless, result |-> dec.result]
      BY <1>7, <1>7c, <2>1, Zenon
    <3> QED BY <1>7b, <2>1, <3>1 DEF IsDec
  <2>2. CASE ~NullTerminatorFound(bits)
    <3>1. dec' = [status |-> "running", preamble |-> dec.preamble, locals |-> DecoderTakes(moved, phrase, ends),
                  remaining |-> RestAfter(rest, ends), todo |-> dec.todo, bits |-> bits, unmatched |-> u,
                  skipped |-> dec.skipped, wordless |-> dec.wordless, result |-> dec.result]
      BY <1>7, <1>7c, <2>2, Zenon
    <3> QED BY <1>7b, <2>2, <3>1 DEF IsDec
  <2> QED BY <2>1, <2>2
<1>9. \E e : /\ replayed' = Append(replayed, e)
             /\ e.prompt = AskedPrompt(d, dec.preamble) /\ e.maskAt = EncoderDraws(d).locals.pos
  <2>1. PICK e : e = [prompt |-> AskedPrompt(d, dec.preamble), maskAt |-> EncoderDraws(d).locals.pos]
    BY Zenon
  <2>2. replayed' = Append(replayed, e)
    BY Zenon, <1>5, <1>6, <2>1, Zenon
  <2> QED BY <2>1, <2>2
<1> HIDE DEF Heard, Bitsof, Moved
<1>10. Hears(table, rest)
  BY <1>6, <1>8, <1>9 DEF Hears
<1> QED BY <1>4, <1>5, <1>10

(* While the decoder follows the encoder it reads the phrase the encoder   *)
(* wrote, and gets out of it the bits the encoder put into it.             *)
LEMMA DecoderFollows ==
  ASSUME Given, style = "styled", Encoded, Decoded, enc.status = "OK", dec.status = "running",
         NEW n \in Nat, n = Len(replayed), InStep(n), n < Len(asked), DecodePhrase,
         UNCHANGED <<session, asked, enc>>
  PROVE  /\ InStep(n + 1)' /\ IsDec(dec') /\ dec'.skipped = dec.skipped /\ dec'.status \in {"stopped", "running"}
         /\ dec'.preamble = dec.preamble
         /\ \E e : /\ replayed' = Append(replayed, e)
                   /\ e.prompt = asked[n + 1].prompt /\ e.maskAt = asked[n + 1].maskAt
<1>1. PICK b, o, table, c : b = Before(n) /\ o = Sent(n) /\ table = asked[n + 1].table
                            /\ c = Choice(b, o, table)
  OBVIOUS
<1>2. Reads(n, b, o, table, c)
  BY <1>1, NextPhrase
<1>3. PICK i \in 1..Len(table), rest \in Seq(Char) :
        /\ c.chosen = table[i].text /\ RestOf(n) = Cat(c.chosen, rest)
        /\ RestAfter(rest, EncoderDraws(b).endClause) = RestOf(n + 1)
  BY <1>2 DEF Reads
<1>4. dec.locals = b /\ dec.remaining = RestOf(n) /\ dec.bits = Buffered(o) /\ ~dec.unmatched
  BY <1>1 DEF InStep
<1>5. PICK r : r = RestOf(n) /\ r = Cat(c.chosen, rest)
  BY <1>3
<1>6. Matching(table, r) = {i} /\ Recognised(table, r) = c.chosen /\ Behind(r, c.chosen) = {rest}
  <2>1. table \in Tables
    BY <1>2 DEF Reads
  <2>2. Found(table, i, rest)
    BY <1>3, <2>1, Recognition
  <2> QED BY <1>3, <1>5, <2>2 DEF Found
<1>7. dec.preamble = enc.preamble /\ Answers(AskedPrompt(b, enc.preamble), Tables) = {table}
  BY <1>1, OneAnswer DEF Decoded
<1>8. Hears(table, rest)
  <2>1. IsDec(dec)
    BY DEF Decoded
  <2>2. PICK t \in Answers(AskedPrompt(dec.locals, dec.preamble), Tables) :
          \E x \in Behind(dec.remaining, Recognised(t, dec.remaining)) : Hears(t, x)
    BY <2>1, DecodePhraseIs
  <2>3. t = table
    BY <1>4, <1>7, <2>2
  <2>4. PICK x \in Behind(dec.remaining, Recognised(table, dec.remaining)) : Hears(table, x)
    BY <2>2, <2>3
  <2>5. x = rest
    BY <1>4, <1>5, <1>6, <2>4
  <2> QED BY <2>4, <2>5
<1>9. PICK bits : bits = Buffered(o + c.consumed) /\ bits = Recover(Buffered(o), DecodeStep(table, c.chosen, MaskOf(b)))
  <2>1. Bits \in Seq(Bit)
    BY MessageBits DEF Given
  <2>2. Recover(Buffered(o), SubSeq(WindowAt(Bits, o), 1, c.consumed)) = Buffered(o + c.consumed)
    BY <1>2, <2>1, RecoverStep, Zenon DEF Reads
  <2> QED BY <1>2, <2>2 DEF Reads
<1>10. /\ \E e : /\ replayed' = Append(replayed, e)
                 /\ e.prompt = AskedPrompt(b, enc.preamble) /\ e.maskAt = EncoderDraws(b).locals.pos
       /\ IsDec(dec') /\ dec'.bits = bits /\ dec'.skipped = dec.skipped /\ ~dec'.unmatched
       /\ dec'.preamble = dec.preamble
       /\ dec'.status = IF NullTerminatorFound(bits) THEN "stopped" ELSE "running"
       /\ ~NullTerminatorFound(bits) =>
            /\ dec'.locals = DecoderTakes([EncoderDraws(b).locals EXCEPT !.pos = @ + Beta],
                                          c.chosen, EncoderDraws(b).endClause)
            /\ dec'.remaining = RestOf(n + 1)
  <2>1. Matching(table, dec.remaining) # {} /\ Recognised(table, dec.remaining) = c.chosen
    BY <1>4, <1>5, <1>6
  <2> QED BY <1>3, <1>4, <1>7, <1>8, <1>9, <2>1 DEF Hears
<1>11. ~NullTerminatorFound(bits) => dec'.locals = Before(n + 1)
  <2>1. IsLocals(EncoderDraws(b).locals)
    BY <1>2, DrawsIs, Zenon DEF IsPlace, Reads
  <2>2. DecoderTakes([EncoderDraws(b).locals EXCEPT !.pos = @ + Beta], c.chosen, EncoderDraws(b).endClause)
          = EncoderTakes(Advanced(EncoderDraws(b).locals), c.chosen, EncoderDraws(b).endClause)
    BY <2>1, TakesSame
  <2>3. After(b, o, table)
          = EncoderTakes(Advanced(EncoderDraws(b).locals), c.chosen, EncoderDraws(b).endClause)
    BY <1>1 DEF After
  <2> QED BY <1>2, <1>10, <2>2, <2>3 DEF Reads
<1>12. InStep(n + 1)'
  <2>0. PICK m \in Nat : m = Len(asked)
    BY Asked, Zenon
  <2>1. n + 1 <= Len(asked') /\ n + 1 > 0
    BY <2>0
  <2>2. Buffered(Sent(n + 1))' = bits /\ Before(n + 1)' = Before(n + 1) /\ RestOf(n + 1)' = RestOf(n + 1)
    <3>1. Sent(n + 1)' = o + c.consumed
      BY <1>2, DecoderSide DEF Reads
    <3>2. \A k : Buffered(k)' = Buffered(k)
      BY DecoderSide
    <3>3. Buffered(Sent(n + 1))' = Buffered(o + c.consumed)
      BY <3>1, <3>2
    <3> QED BY <1>9, <3>3, DecoderSide
  <2>3. ~dec'.unmatched /\ dec'.bits = bits
    BY <1>10
  <2>4. dec'.status = "running" => /\ dec'.locals = Before(n + 1) /\ dec'.remaining = RestOf(n + 1)
                                   /\ ~NullTerminatorFound(bits)
    BY <1>10, <1>11
  <2>5. dec'.status \in {"stopped", "OK"} => NullTerminatorFound(bits)
    BY <1>10
  <2>6. (NullTerminatorFound(dec.bits))' <=> NullTerminatorFound(bits)
    BY <2>3 DEF NullTerminatorFound
  <2> QED BY <2>1, <2>2, <2>3, <2>4, <2>5, <2>6 DEF InStep
<1> QED BY <1>2, <1>10, <1>12, Zenon DEF Reads

(* A decoder that has come to the end of what the encoder did goes on only *)
(* if the message's zero byte is not in its buffer.                        *)
LEMMA DecoderGoesOn ==
  ASSUME Given, style = "styled", Encoded, Decoded, enc.status = "OK", dec.status = "running",
         NEW n \in Nat, n = Len(replayed), n >= Len(asked), InStep(n) \/ OffTheEnd(n), DecodePhrase,
         UNCHANGED <<session, asked, enc>>
  PROVE  /\ OffTheEnd(n + 1)' /\ IsDec(dec') /\ dec'.skipped = dec.skipped /\ dec'.status \in {"stopped", "running"}
         /\ dec'.preamble = dec.preamble
         /\ \E e : replayed' = Append(replayed, e)
<1>1. PICK m \in Nat : m = Len(asked) /\ Before(m) = enc.locals /\ m <= n /\ DOMAIN asked = 1..m
  BY Asked, Zenon
<1>2. PICK k \in Nat : k = Sent(m) /\ k = enc.offset
  BY <1>1 DEF Encoded, Placed
<1>3. Bits \in Seq(Bit) /\ Len(Bits) \in Nat
  BY MessageBits DEF Given
<1>4. dec.bits = Buffered(k) /\ k >= MaxRecoveredBits /\ Len(Bits) > MaxRecoveredBits
  <2>1. CASE OffTheEnd(n)
    BY <1>1, <1>2, <2>1, Zenon DEF OffTheEnd
  <2>2. CASE InStep(n)
    <3>1. n = m
      BY <1>1, <2>2 DEF InStep
    <3>2. dec.bits = Buffered(k) /\ dec.locals = Before(n) /\ dec.remaining = RestOf(n)
          /\ (n > 0 => ~NullTerminatorFound(dec.bits))
      BY <1>1, <1>2, <2>2, <3>1, Zenon DEF InStep
    <3>3. dec.remaining # <<>> /\ dec.locals.steps < MaxSteps
      BY DEF DecodePhrase, DecoderRuns, Styled
    <3>4. n > 0
      <4> SUFFICES ASSUME n = 0 PROVE FALSE
        OBVIOUS
      <4>1. enc.cover = <<>>
        BY <1>1, CoverIs
      <4>2. RestOf(0) = <<>>
        <5>1. PICK f : f = FreshLocals("styled") /\ Before(0) = f
          BY DEF Encoded
        <5>2. Before(0).text = <<>>
          BY <5>1, FreshIs
        <5>3. PICK e \in Seq(Char) : e = <<>> /\ Len(e) = 0
          <6>1. <<>> \in Seq(Char) /\ Len(<<>>) = 0
            OBVIOUS
          <6> QED BY <6>1, Zenon
        <5>4. RestOf(0) = SkipSpaces(Drop(e, 0))
          BY <4>1, <5>2, <5>3 DEF RestOf
        <5>5. Drop(e, 0) = e
          BY DropNone
        <5>6. SkipSpaces(e) = e
          BY <5>3, SkipNone, Zenon
        <5> QED BY <5>3, <5>4, <5>5, <5>6
      <4> QED BY <3>2, <3>3, <4>2
    <3>5. k >= Len(Bits)
      <4>1. Placed(n)
        BY <1>1, <3>1 DEF Encoded
      <4>2. dec.locals.steps = n
        BY <3>2, <4>1 DEF Placed, IsPlace
      <4>3. ~(m >= MaxSteps)
        BY <3>1, <3>3, <4>2, StepDrawsIs
      <4> QED BY <1>1, <1>2, <4>3 DEF Encoded
    <3>6. ~(Len(Bits) <= MaxRecoveredBits)
      BY <1>2, <3>2, <3>4, <3>5, EndsInZeros DEF Given
    <3>7. MaxRecoveredBits \in Nat
      BY SessionAssumption
    <3> QED BY <1>3, <3>2, <3>5, <3>6, <3>7
  <2> QED BY <2>1, <2>2
<1>5. PICK table, rest : table \in Tables /\ Hears(table, rest)
  <2>1. IsDec(dec)
    BY DEF Decoded
  <2>2. PICK t \in Answers(AskedPrompt(dec.locals, dec.preamble), Tables) :
          \E x \in Behind(dec.remaining, Recognised(t, dec.remaining)) : Hears(t, x)
    BY <2>1, DecodePhraseIs
  <2>3. \A i \in 1..m : asked[i].table \in Tables
    BY <1>1 DEF Encoded, Follows
  <2>4. t \in Tables
    <3> DEFINE known == {i \in DOMAIN asked : asked[i].prompt = AskedPrompt(dec.locals, dec.preamble)}
    <3>1. CASE known = {}
      <4>1. Answers(AskedPrompt(dec.locals, dec.preamble), Tables) = Tables
        BY <3>1 DEF Answers
      <4> QED BY <2>2, <4>1
    <3>2. CASE known # {}
      <4>1. Answers(AskedPrompt(dec.locals, dec.preamble), Tables) = {asked[i].table : i \in known}
        BY <3>2 DEF Answers
      <4>2. PICK i \in known : t = asked[i].table
        BY <2>2, <4>1
      <4> QED BY <1>1, <2>3, <4>2
    <3> QED BY <3>1, <3>2
  <2> QED BY <2>2, <2>4
<1>6. PICK more : more = DecodeStep(table, Recognised(table, dec.remaining), MaskOf(dec.locals))
                  /\ \E S : more \in Seq(S)
  BY <1>5, SomeBits
<1>7. Recover(Buffered(k), more) = Buffered(k)
  BY <1>3, <1>4, <1>6, RecoverFull
<1>8. /\ \E e : replayed' = Append(replayed, e)
      /\ IsDec(dec') /\ dec'.bits = Buffered(k) /\ dec'.skipped = dec.skipped /\ dec'.preamble = dec.preamble
      /\ dec'.status \in {"stopped", "running"}
  <2>1. Recover(dec.bits, DecodeStep(table, Recognised(table, dec.remaining), MaskOf(dec.locals))) = Buffered(k)
    BY <1>4, <1>6, <1>7
  <2>2. (IF NullTerminatorFound(Buffered(k)) THEN "stopped" ELSE "running") \in {"stopped", "running"}
    OBVIOUS
  <2> QED BY <1>5, <2>1, <2>2 DEF Hears
<1>9. OffTheEnd(n + 1)'
  <2>1. Len(asked') = m /\ n + 1 > m
    BY <1>1
  <2>2. Sent(Len(asked))' = k
    BY <1>1, <1>2 DEF Sent
  <2>3. Buffered(Sent(Len(asked)))' = Buffered(k)
    <3>1. \A x : Buffered(x)' = Buffered(x)
      BY DecoderSide
    <3> QED BY <2>2, <3>1
  <2>4. Bits' = Bits
    BY DecoderSide
  <2> QED BY <1>4, <1>8, <2>1, <2>2, <2>3, <2>4 DEF OffTheEnd
<1> QED BY <1>8, <1>9

LEMMA NothingBuffered == Buffered(0) = <<>>
<1>1. PICK M \in Nat : M = MaxRecoveredBits
  BY SessionAssumption
<1>2. (IF 0 < M THEN 0 ELSE M) = 0
  OBVIOUS
<1> QED BY <1>1, <1>2 DEF Buffered

LEMMA Replayed ==
  ASSUME Decoded
  PROVE  /\ Len(replayed) \in Nat /\ IsDec(dec) /\ ~dec.skipped
         /\ InStep(Len(replayed)) \/ OffTheEnd(Len(replayed))
         /\ dec.status # "idle" => enc.status = "OK"
<1>1. IsSeq(replayed)
  BY DEF Decoded
<1>2. Len(replayed) \in Nat
  BY <1>1, AppendAny
<1> QED BY <1>2 DEF Decoded

(* A step that leaves replayed as it is, or is another prompt like the     *)
(* encoder's.                                                              *)
LEMMA StillRetraced ==
  ASSUME Decoded, UNCHANGED <<session, asked, enc>>, replayed' = replayed
  PROVE  IsSeq(replayed') /\ Retraced(Len(replayed))' /\ Len(replayed') = Len(replayed)
<1>1. asked' = asked
  OBVIOUS
<1> QED BY <1>1 DEF Decoded, Retraced

LEMMA NextRetraced ==
  ASSUME Decoded, UNCHANGED <<session, asked, enc>>, NEW e, replayed' = Append(replayed, e),
         Len(replayed) + 1 <= Len(asked) =>
           /\ e.prompt = asked[Len(replayed) + 1].prompt /\ e.maskAt = asked[Len(replayed) + 1].maskAt
  PROVE  IsSeq(replayed') /\ Retraced(Len(replayed))' /\ Len(replayed') = Len(replayed) + 1
<1>0. asked' = asked /\ IsSeq(replayed) /\ Retraced(Len(replayed))
  BY DEF Decoded
<1>1. PICK n \in Nat : n = Len(replayed)
  BY Replayed
<1>2. /\ IsSeq(replayed') /\ Len(replayed') = n + 1 /\ \A i \in 1..n : replayed'[i] = replayed[i]
      /\ replayed'[n + 1] = e
  BY <1>0, <1>1, AppendAny
<1>3. ASSUME NEW i \in 1..(n + 1), i <= Len(asked)
      PROVE  replayed'[i].prompt = asked[i].prompt /\ replayed'[i].maskAt = asked[i].maskAt
  <2>1. CASE i \in 1..n
    BY <1>0, <1>1, <1>2, <1>3, <2>1 DEF Retraced
  <2>2. CASE i = n + 1
    BY <1>1, <1>2, <1>3, <2>2
  <2>3. i \in 1..n \/ i = n + 1
    OBVIOUS
  <2> QED BY <2>1, <2>2, <2>3, Zenon
<1> QED BY <1>0, <1>1, <1>2, <1>3 DEF Retraced

(* A decoder that stops short of the encoder's last step does so only      *)
(* behind a zero byte.                                                     *)
LEMMA DecoderStopsLate ==
  ASSUME Given, style = "styled", Encoded, Decoded, enc.status = "OK", DecodeReturns,
         NEW n \in Nat, n = Len(replayed), InStep(n)
  PROVE  n = Len(asked) \/ (n > 0 /\ NullTerminatorFound(dec.bits))
<1>1. CASE dec.status = "stopped"
  BY <1>1 DEF InStep
<1>2. CASE dec.status = "running" /\ ~DecoderRuns
  <2>1. dec.remaining = <<>> \/ ~(dec.locals.steps < MaxSteps)
    BY <1>2 DEF DecoderRuns, Styled
  <2>2. dec.locals = Before(n) /\ dec.remaining = RestOf(n)
    BY <1>2 DEF InStep
  <2>3. ~(n < Len(asked))
    <3> SUFFICES ASSUME n < Len(asked) PROVE FALSE
      OBVIOUS
    <3>1. PICK b, o, table, c : b = Before(n) /\ o = Sent(n) /\ table = asked[n + 1].table
                                /\ c = Choice(b, o, table)
      OBVIOUS
    <3>2. Reads(n, b, o, table, c)
      BY <3>1, NextPhrase
    <3>3. PICK i \in 1..Len(table), rest \in Seq(Char) :
            c.chosen = table[i].text /\ RestOf(n) = Cat(c.chosen, rest)
      BY <3>2 DEF Reads
    <3>4. table[i].text \in Seq(Char) /\ table[i].text # <<>>
      BY <3>2, <3>3, TableIs, Zenon DEF Reads
    <3>5. Cat(c.chosen, rest) # <<>>
      BY <3>3, <3>4, ConcatLonger DEF Cat
    <3>6. b.steps = n /\ n < MaxSteps
      BY <3>2 DEF Reads, IsPlace
    <3> QED BY <2>1, <2>2, <3>1, <3>3, <3>5, <3>6
  <2>4. PICK m \in Nat : m = Len(asked)
    BY Asked, Zenon
  <2> QED BY <2>3, <2>4 DEF InStep
<1> QED BY <1>1, <1>2 DEF DecodeReturns

LEMMA DecodedIs ==
  ASSUME NEW n, Len(replayed') = n, InStep(n)' \/ OffTheEnd(n)',
         IsSeq(replayed'), Retraced(Len(replayed))', IsDec(dec'), ~dec'.skipped,
         enc'.status = "OK", dec'.status # "idle", dec'.preamble = enc'.preamble,
         dec'.status = "OK" => dec'.result = BitsToBytes(dec.bits)'
  PROVE  Decoded'
<1>1. (InStep(Len(replayed)) \/ OffTheEnd(Len(replayed)))'
  <2>1. CASE InStep(n)'
    BY <2>1 DEF InStep
  <2>2. CASE OffTheEnd(n)'
    BY <2>2 DEF OffTheEnd
  <2> QED BY <2>1, <2>2
<1> QED BY <1>1 DEF Decoded

LEMMA DecoderKeeps ==
  ASSUME Given, style = "styled", Encoded, Decoded, NEW A,
         A = (DecodePhrase \/ DecodeFails \/ DecodeReturns), A
  PROVE  UNCHANGED <<session, asked, enc>> /\ Decoded'
<1>0. UNCHANGED <<session, asked, enc>>
  BY Zenon DEF DecodePhrase, DecodeFails, DecodeReturns
<1>1. PICK n \in Nat : n = Len(replayed) /\ (InStep(n) \/ OffTheEnd(n))
  BY Replayed
<1>2. /\ enc.status = "OK" /\ enc'.status = "OK" /\ IsDec(dec) /\ ~dec.skipped
      /\ dec.preamble = enc.preamble /\ enc' = enc
  <2>1. enc.status = "OK" /\ dec.status # "idle"
    BY Replayed, Zenon DEF DecodePhrase, DecodeFails, DecodeReturns, DecoderRuns
  <2>2. dec.preamble = enc.preamble
    BY <2>1 DEF Decoded
  <2> QED BY <1>0, <2>1, <2>2, Replayed
<1>3. /\ \A k : Before(k)' = Before(k) /\ Sent(k)' = Sent(k) /\ RestOf(k)' = RestOf(k)
      /\ \A k : Buffered(k)' = Buffered(k)
      /\ Bits' = Bits /\ asked' = asked
  BY <1>0, DecoderSide
<1>5. CASE DecodePhrase
  <2>1. dec.status = "running"
    BY <1>5, Zenon DEF DecodePhrase, DecoderRuns
  <2>2. CASE InStep(n) /\ n < Len(asked)
    <3>1. /\ InStep(n + 1)' /\ IsDec(dec') /\ dec'.skipped = dec.skipped /\ dec'.preamble = dec.preamble
          /\ dec'.status \in {"stopped", "running"}
          /\ \E e : /\ replayed' = Append(replayed, e)
                    /\ e.prompt = asked[n + 1].prompt /\ e.maskAt = asked[n + 1].maskAt
      BY <1>0, <1>1, <1>2, <1>5, <2>1, <2>2, DecoderFollows
    <3>2. IsSeq(replayed') /\ Retraced(Len(replayed))' /\ Len(replayed') = n + 1
      BY <1>0, <1>1, <3>1, NextRetraced
    <3>3. ~dec'.skipped /\ dec'.status # "idle" /\ dec'.status # "OK" /\ dec'.preamble = enc'.preamble
      BY <1>2, <3>1
    <3>4. PICK k : k = n + 1
      OBVIOUS
    <3>5. Len(replayed') = k /\ InStep(k)'
      BY <3>1, <3>2, <3>4
    <3> QED BY <1>0, <1>2, <3>1, <3>2, <3>3, <3>5, DecodedIs
  <2>3. CASE ~(n < Len(asked))
    <3>1. /\ OffTheEnd(n + 1)' /\ IsDec(dec') /\ dec'.skipped = dec.skipped /\ dec'.preamble = dec.preamble
          /\ dec'.status \in {"stopped", "running"} /\ \E e : replayed' = Append(replayed, e)
      <4>1. n >= Len(asked)
        BY <2>3, Asked
      <4> QED BY <1>0, <1>1, <1>2, <1>5, <2>1, <4>1, DecoderGoesOn
    <3>2. IsSeq(replayed') /\ Retraced(Len(replayed))' /\ Len(replayed') = n + 1
      <4>1. ~(Len(replayed) + 1 <= Len(asked))
        BY <1>1, <2>3, Asked
      <4> QED BY <1>0, <1>1, <3>1, <4>1, NextRetraced
    <3>3. ~dec'.skipped /\ dec'.status # "idle" /\ dec'.status # "OK" /\ dec'.preamble = enc'.preamble
      BY <1>2, <3>1
    <3>4. PICK k : k = n + 1
      OBVIOUS
    <3>5. Len(replayed') = k /\ OffTheEnd(k)'
      BY <3>1, <3>2, <3>4
    <3> QED BY <1>0, <1>2, <3>1, <3>2, <3>3, <3>5, DecodedIs
  <2>4. InStep(n) \/ ~(n < Len(asked))
    <3>1. OffTheEnd(n) => ~(n < Len(asked))
      BY Asked DEF OffTheEnd
    <3> QED BY <1>1, <3>1
  <2> QED BY <2>2, <2>3, <2>4
<1>6. ASSUME replayed' = replayed, NEW st \in {"failed", "NULL", "OK"}, NEW res,
             dec' = [dec EXCEPT !.status = st, !.result = res],
             st = "OK" => res = BitsToBytes(dec.bits),
             st = "OK" /\ InStep(n) => n = Len(asked) \/ (n > 0 /\ NullTerminatorFound(dec.bits))
      PROVE  Decoded'
  <2>1. dec' = [status |-> st, preamble |-> dec.preamble, locals |-> dec.locals, remaining |-> dec.remaining,
                todo |-> dec.todo, bits |-> dec.bits, unmatched |-> dec.unmatched, skipped |-> dec.skipped,
                wordless |-> dec.wordless, result |-> res]
    BY <1>2, <1>6 DEF IsDec
  <2>2. /\ IsDec(dec') /\ dec'.status = st /\ dec'.bits = dec.bits /\ dec'.unmatched = dec.unmatched
        /\ ~dec'.skipped /\ dec'.preamble = dec.preamble /\ dec'.result = res
    BY <1>2, <2>1 DEF IsDec
  <2>3. IsSeq(replayed') /\ Retraced(Len(replayed))' /\ Len(replayed') = n
    BY <1>0, <1>1, <1>6, StillRetraced
  <2>4. InStep(n)' \/ OffTheEnd(n)'
    <3>1. NullTerminatorFound(dec.bits)' <=> NullTerminatorFound(dec.bits)
      BY <2>2 DEF NullTerminatorFound
    <3> QED BY <1>1, <1>3, <1>6, <2>2, <3>1 DEF InStep, OffTheEnd
  <2>5. dec'.status = "OK" => dec'.result = BitsToBytes(dec.bits)'
    BY <1>6, <2>2 DEF BitsToBytes
  <2>6. dec'.status # "idle" /\ dec'.preamble = enc'.preamble
    BY <1>2, <2>2
  <2> QED BY <1>2, <2>2, <2>3, <2>4, <2>5, <2>6, DecodedIs
<1>7. CASE DecodeFails
  <2>1. dec' = [dec EXCEPT !.status = "failed", !.result = dec.result]
    BY <1>2, <1>7 DEF DecodeFails, IsDec
  <2>2. replayed' = replayed /\ "failed" \in {"failed", "NULL", "OK"} /\ "failed" # "OK"
    BY <1>7 DEF DecodeFails
  <2> QED BY <1>0, <1>6, <2>1, <2>2, Zenon
<1>8. CASE DecodeReturns
  <2>0. replayed' = replayed /\ {"NULL", "OK"} \subseteq {"failed", "NULL", "OK"} /\ "NULL" # "OK"
    BY <1>8, Zenon DEF DecodeReturns
  <2>1. CASE dec' = [dec EXCEPT !.status = "OK", !.result = BitsToBytes(dec.bits)]
    <3>1. InStep(n) => n = Len(asked) \/ (n > 0 /\ NullTerminatorFound(dec.bits))
      BY <1>1, <1>2, <1>8, DecoderStopsLate
    <3> QED BY <1>0, <1>6, <2>0, <2>1, <3>1, Zenon
  <2>2. CASE dec' = [dec EXCEPT !.status = "NULL"]
    <3>1. dec' = [dec EXCEPT !.status = "NULL", !.result = dec.result]
      BY <1>2, <2>2 DEF IsDec
    <3> QED BY <1>0, <1>6, <2>0, <3>1, Zenon
  <2> QED BY <1>8, <2>1, <2>2 DEF DecodeReturns
<1> QED BY <1>0, <1>5, <1>7, <1>8, Zenon

(***************************************************************************)
(* The decoder that has gone astray.                                       *)
(***************************************************************************)
LEMMA AlikeDraws ==
  ASSUME NEW s, IsLocals(s), NEW t, IsLocals(t), DrawsAlike(s, t)
  PROVE  /\ DrawsAlike(EncoderDraws(s).locals, EncoderDraws(t).locals)
         /\ EncoderDraws(s).endClause = EncoderDraws(t).endClause
<1> DEFINE q(x) == DrawUnlikeRecent(stream, x.pos, x.question)
           e(x) == DrawClauseEnd(stream, q(x).pos, x.phrases)
           d(x) == DrawDigressMode(stream, e(x).pos, x.topics, x.lastDig)
           a(x) == DrawUnlikeRecent(stream, d(x).pos, x.axis)
           v(x) == DrawVariant(stream, a(x).pos)
<1>1. q(s) = q(t) /\ e(s) = e(t) /\ d(s) = d(t) /\ a(s) = a(t) /\ v(s) = v(t)
  BY DEF DrawsAlike
<1>2. ASSUME NEW x, IsLocals(x)
      PROVE  /\ EncoderDraws(x).locals.pos = v(x).pos /\ EncoderDraws(x).locals.question = {q(x).value}
             /\ EncoderDraws(x).locals.axis = {a(x).value} /\ EncoderDraws(x).endClause = e(x).value
             /\ EncoderDraws(x).locals.phrases = x.phrases /\ EncoderDraws(x).locals.topics = x.topics
             /\ EncoderDraws(x).locals.lastDig = x.lastDig /\ EncoderDraws(x).locals.anchor = x.anchor
             /\ EncoderDraws(x).locals.dig = IF x.anchor = NoPhrase THEN d(x).value ELSE x.dig
  BY <1>2, Zenon DEF EncoderDraws, IsLocals
<1> HIDE DEF q, e, d, a, v
<1>3. PICK x, y : x = EncoderDraws(s).locals /\ y = EncoderDraws(t).locals
  OBVIOUS
<1>4. /\ x.pos = v(s).pos /\ x.question = {q(s).value} /\ x.axis = {a(s).value} /\ x.phrases = s.phrases
      /\ x.topics = s.topics /\ x.lastDig = s.lastDig /\ x.anchor = s.anchor
      /\ x.dig = IF s.anchor = NoPhrase THEN d(s).value ELSE s.dig
  BY <1>2, <1>3, Zenon
<1>5. /\ y.pos = v(t).pos /\ y.question = {q(t).value} /\ y.axis = {a(t).value} /\ y.phrases = t.phrases
      /\ y.topics = t.topics /\ y.lastDig = t.lastDig /\ y.anchor = t.anchor
      /\ y.dig = IF t.anchor = NoPhrase THEN d(t).value ELSE t.dig
  BY <1>2, <1>3, Zenon
<1>6. s.anchor = NoPhrase <=> t.anchor = NoPhrase
  BY DEF DrawsAlike
<1>7. DrawsAlike(x, y)
  BY <1>1, <1>4, <1>5, <1>6 DEF DrawsAlike
<1>8. EncoderDraws(s).endClause = e(s).value /\ EncoderDraws(t).endClause = e(t).value
  BY <1>2, Zenon
<1> QED BY <1>1, <1>3, <1>7, <1>8

LEMMA AlikeTakes ==
  ASSUME NEW s, IsLocals(s), NEW t, IsLocals(t), DrawsAlike(s, t),
         NEW p, p # <<>>, NEW q, q # <<>>, NEW ends
  PROVE  DrawsAlike(EncoderTakes(Advanced(s), p, ends), EncoderTakes(Advanced(t), q, ends))
<1>1. ASSUME NEW x, IsLocals(x), NEW o, NEW a, a = EncoderTakes(Advanced(x), o, ends)
      PROVE  /\ a.pos = x.pos + Beta /\ a.question = x.question /\ a.axis = x.axis /\ a.dig = x.dig
             /\ a.phrases = IF ends THEN 0 ELSE x.phrases + 1
             /\ a.topics  = IF ends /\ ~x.dig THEN x.topics + 1 ELSE x.topics
             /\ a.lastDig = IF ends THEN x.dig ELSE x.lastDig
             /\ a.anchor  = IF ends THEN NoPhrase ELSE IF x.anchor = NoPhrase THEN o ELSE x.anchor
  BY <1>1, Zenon DEF EncoderTakes, Advanced, IsLocals
<1>2. PICK a, b : a = EncoderTakes(Advanced(s), p, ends) /\ b = EncoderTakes(Advanced(t), q, ends)
  OBVIOUS
<1>3. /\ a.pos = b.pos /\ a.question = b.question /\ a.axis = b.axis /\ a.dig = b.dig
      /\ a.phrases = b.phrases /\ a.topics = b.topics /\ a.lastDig = b.lastDig
  BY <1>1, <1>2 DEF DrawsAlike
<1>4. a.anchor = NoPhrase <=> b.anchor = NoPhrase
  BY <1>1, <1>2 DEF DrawsAlike, NoPhrase
<1> QED BY <1>2, <1>3, <1>4 DEF DrawsAlike

LEMMA AnswersAreTables ==
  ASSUME Encoded, NEW prompt
  PROVE  Answers(prompt, Tables) \subseteq Tables
<1>1. PICK m \in Nat : m = Len(asked) /\ DOMAIN asked = 1..m
  BY Asked, Zenon
<1>2. \A i \in 1..m : asked[i].table \in Tables
  BY <1>1 DEF Encoded, Follows
<1> QED BY <1>1, <1>2 DEF Answers

LEMMA StillMasked ==
  ASSUME IsSeq(replayed), Masked(Len(replayed)), asked' = asked, replayed' = replayed
  PROVE  IsSeq(replayed') /\ Masked(Len(replayed))' /\ Len(replayed') = Len(replayed)
BY DEF Masked

LEMMA NextMasked ==
  ASSUME IsSeq(replayed), Masked(Len(replayed)), asked' = asked, NEW e, replayed' = Append(replayed, e),
         Len(replayed) + 1 <= Len(asked) => e.maskAt = asked[Len(replayed) + 1].maskAt
  PROVE  IsSeq(replayed') /\ Masked(Len(replayed))' /\ Len(replayed') = Len(replayed) + 1
<1>1. PICK n \in Nat : n = Len(replayed)
  BY AppendAny
<1>2. /\ IsSeq(replayed') /\ Len(replayed') = n + 1 /\ \A i \in 1..n : replayed'[i] = replayed[i]
      /\ replayed'[n + 1] = e
  BY <1>1, AppendAny
<1>3. ASSUME NEW i \in 1..(n + 1), i <= Len(asked)
      PROVE  replayed'[i].maskAt = asked[i].maskAt
  <2>1. CASE i \in 1..n
    BY <1>1, <1>2, <1>3, <2>1 DEF Masked
  <2>2. CASE i = n + 1
    BY <1>1, <1>2, <1>3, <2>2
  <2>3. i \in 1..n \/ i = n + 1
    OBVIOUS
  <2> QED BY <2>1, <2>2, <2>3, Zenon
<1> QED BY <1>1, <1>2, <1>3 DEF Masked

LEMMA AstrayPhrase ==
  ASSUME Given, style = "styled", Encoded, Astray, DecodePhrase, UNCHANGED <<session, asked, enc>>
  PROVE  Astray'
<1>1. PICK n \in Nat, m \in Nat : n = Len(replayed) /\ m = Len(asked)
  <2>1. Len(replayed) \in Nat
    BY AppendAny DEF Astray
  <2> QED BY <2>1, Asked, Zenon
<1>2. PICK d, b : d = dec.locals /\ b = Before(n)
  OBVIOUS
<1>3. dec.status = "running" /\ IsDec(dec) /\ IsLocals(d)
  BY <1>2 DEF DecodePhrase, DecoderRuns, Astray
<1>4. PICK table, rest : table \in Tables /\ Hears(table, rest)
  BY <1>3, DecodePhraseIs, AnswersAreTables
<1>5. PICK s, phrase, ends, bits :
        /\ s = EncoderDraws(d).locals /\ phrase = Recognised(table, dec.remaining)
        /\ ends = EncoderDraws(d).endClause
        /\ bits = Recover(dec.bits, DecodeStep(table, phrase, MaskOf(d)))
  OBVIOUS
<1>6. phrase \in Seq(Char) /\ phrase # <<>>
  BY <1>4, <1>5, RecognisedText
<1>7. IsLocals(s)
  BY <1>3, <1>5, DrawsIs
<1>8. /\ \E e : replayed' = Append(replayed, e) /\ e.maskAt = s.pos
      /\ IsDec(dec') /\ dec'.skipped = dec.skipped /\ dec'.preamble = dec.preamble
      /\ dec'.status = IF NullTerminatorFound(bits) THEN "stopped" ELSE "running"
      /\ NullTerminatorFound(bits) => dec'.locals = [s EXCEPT !.pos = @ + Beta]
      /\ ~NullTerminatorFound(bits) => dec'.locals = EncoderTakes(Advanced(s), phrase, ends)
  <2>1. DecoderTakes([s EXCEPT !.pos = @ + Beta], phrase, ends) = EncoderTakes(Advanced(s), phrase, ends)
    BY <1>7, TakesSame
  <2> QED BY <1>2, <1>4, <1>5, <2>1 DEF Hears
<1>9. IsLocals(dec'.locals)
  <2>1. CASE NullTerminatorFound(bits)
    BY <1>7, <1>8, <2>1 DEF IsLocals
  <2>2. CASE ~NullTerminatorFound(bits)
    <3>1. IsLocals(EncoderTakes(Advanced(s), phrase, ends))
      BY <1>7, TakesIs
    <3> QED BY <1>8, <2>2, <3>1
  <2> QED BY <2>1, <2>2
<1>10. ASSUME n < m
       PROVE  /\ asked[n + 1].maskAt = s.pos
              /\ ~NullTerminatorFound(bits) => DrawsAlike(dec'.locals, Before(n + 1))
  <2>1. n + 1 \in 1..m /\ (n + 1) - 1 = n /\ n \in 0..m /\ n <= m
    BY <1>1, <1>10
  <2>2. Follows(n + 1) /\ Placed(n)
    BY <1>1, <2>1 DEF Encoded
  <2>3. IsLocals(b) /\ DrawsAlike(d, b)
    BY <1>1, <1>2, <1>3, <2>1, <2>2 DEF Placed, IsPlace, Astray
  <2>4. PICK t, o, tab, chosen : /\ t = EncoderDraws(b).locals /\ o = Sent(n) /\ tab = asked[n + 1].table
                                 /\ chosen = Choice(b, o, tab).chosen
    OBVIOUS
  <2>5. IsLocals(t) /\ DrawsAlike(s, t) /\ EncoderDraws(b).endClause = ends
    BY <1>3, <1>5, <2>3, <2>4, AlikeDraws, DrawsIs
  <2>6. asked[n + 1].maskAt = t.pos /\ Before(n + 1) = EncoderTakes(Advanced(t), chosen, ends) /\ tab \in Tables
    BY <1>2, <2>1, <2>2, <2>4, <2>5 DEF Follows, After
  <2>7. chosen # <<>>
    <3>1. IsPlace(b, n) /\ o \in Nat /\ n < MaxSteps
      <4>1. m <= MaxSteps /\ MaxSteps \in Nat
        BY <1>1, StepDrawsIs DEF Encoded
      <4> QED BY <1>1, <1>2, <1>10, <2>2, <2>4, <4>1 DEF Placed
    <3>2. Forward(n, b, o, tab)
      BY <2>6, <3>1, StepForward
    <3>3. \E i \in 1..Len(tab) : chosen = tab[i].text
      BY <2>4, <3>2 DEF Forward
    <3> QED BY <2>6, <3>3, TableIs, Zenon
  <2>8. DrawsAlike(EncoderTakes(Advanced(s), phrase, ends), EncoderTakes(Advanced(t), chosen, ends))
    BY <1>6, <1>7, <2>5, <2>7, AlikeTakes
  <2> QED BY <1>8, <2>5, <2>6, <2>8 DEF DrawsAlike
<1>11. IsSeq(replayed') /\ Masked(Len(replayed))' /\ Len(replayed') = n + 1
  <2>1. PICK e : replayed' = Append(replayed, e) /\ e.maskAt = s.pos
    BY <1>8
  <2>2. n + 1 <= m => e.maskAt = asked[n + 1].maskAt
    BY <1>1, <1>10, <2>1
  <2> QED BY <1>1, <2>1, <2>2, NextMasked DEF Astray
<1>12. dec'.status = "running" /\ n + 1 <= m => DrawsAlike(dec'.locals, Before(n + 1)')
  <2>1. Before(n + 1)' = Before(n + 1)
    BY DecoderSide
  <2>2. n + 1 <= m => n < m
    BY <1>1
  <2> QED BY <1>8, <1>10, <2>1, <2>2
<1>13. dec'.status # "idle"
  BY <1>8
<1>14. Before(Len(replayed))' = Before(n + 1)'
  BY <1>11 DEF Before
<1> QED BY <1>1, <1>8, <1>9, <1>11, <1>12, <1>13, <1>14 DEF Astray, DrawsAlike

(* A step that reads nothing.                                              *)
LEMMA AstrayRests ==
  ASSUME IsSeq(replayed), Masked(Len(replayed)), UNCHANGED <<session, asked, enc, replayed>>,
         IsDec(dec'), IsLocals(dec'.locals), ~dec'.skipped, enc.status = "OK", dec'.status # "idle",
         dec'.preamble # enc.preamble,
         dec'.status = "running" /\ Len(replayed) <= Len(asked) =>
           DrawsAlike(dec'.locals, Before(Len(replayed)))
  PROVE  Astray'
<1>1. asked' = asked /\ enc' = enc /\ replayed' = replayed
  OBVIOUS
<1>2. IsSeq(replayed') /\ Masked(Len(replayed))' /\ Len(replayed') = Len(replayed)
  BY <1>1, StillMasked
<1>3. Before(Len(replayed))' = Before(Len(replayed))
  BY <1>1 DEF Before
<1> QED BY <1>1, <1>2, <1>3 DEF Astray, DrawsAlike

LEMMA AstrayKeeps ==
  ASSUME Given, style = "styled", Encoded, Astray, NEW A,
         A = (BeginDecode \/ DecodePhrase \/ DecodeFails \/ DecodeReturns), A
  PROVE  UNCHANGED <<session, asked, enc>> /\ Astray'
<1>0. UNCHANGED <<session, asked, enc>>
  BY Zenon DEF BeginDecode, DecodePhrase, DecodeFails, DecodeReturns
<1>1. /\ IsSeq(replayed) /\ IsDec(dec) /\ IsLocals(dec.locals) /\ ~dec.skipped /\ enc.status = "OK"
      /\ dec.status # "idle" /\ dec.preamble # enc.preamble /\ Masked(Len(replayed))
  BY DEF Astray
<1>2. ~BeginDecode
  BY <1>1, Zenon DEF BeginDecode
<1>3. CASE DecodePhrase
  BY <1>0, <1>3, AstrayPhrase
<1>4. ASSUME UNCHANGED replayed, NEW st \in {"failed", "OK", "NULL"}, NEW res,
             dec' = [dec EXCEPT !.status = st, !.result = res]
      PROVE  Astray'
  <2>1. dec' = [status |-> st, preamble |-> dec.preamble, locals |-> dec.locals, remaining |-> dec.remaining,
                todo |-> dec.todo, bits |-> dec.bits, unmatched |-> dec.unmatched, skipped |-> dec.skipped,
                wordless |-> dec.wordless, result |-> res]
    BY <1>1, <1>4 DEF IsDec
  <2>2. /\ IsDec(dec') /\ dec'.locals = dec.locals /\ ~dec'.skipped /\ dec'.preamble = dec.preamble
        /\ dec'.status # "idle" /\ dec'.status # "running"
    BY <1>1, <2>1 DEF IsDec
  <2> QED BY <1>0, <1>1, <1>4, <2>2, AstrayRests
<1>5. CASE DecodeFails
  <2>1. dec' = [dec EXCEPT !.status = "failed", !.result = dec.result]
    BY <1>1, <1>5 DEF DecodeFails, IsDec
  <2>2. UNCHANGED replayed /\ "failed" \in {"failed", "OK", "NULL"}
    BY <1>5 DEF DecodeFails
  <2> QED BY <1>0, <1>4, <2>1, <2>2, Zenon
<1>6. CASE DecodeReturns
  <2>0. UNCHANGED replayed /\ "OK" \in {"failed", "OK", "NULL"} /\ "NULL" \in {"failed", "OK", "NULL"}
    BY <1>6, Zenon DEF DecodeReturns
  <2>1. CASE dec' = [dec EXCEPT !.status = "OK", !.result = BitsToBytes(dec.bits)]
    BY <1>0, <1>4, <2>0, <2>1, Zenon
  <2>2. CASE dec' = [dec EXCEPT !.status = "NULL"]
    <3>1. dec' = [dec EXCEPT !.status = "NULL", !.result = dec.result]
      BY <1>1, <2>2 DEF IsDec
    <3> QED BY <1>0, <1>4, <2>0, <3>1, Zenon
  <2> QED BY <1>6, <2>1, <2>2 DEF DecodeReturns
<1> QED BY <1>0, <1>2, <1>3, <1>5, <1>6, Zenon

(***************************************************************************)
(* The decoder begins: in step with the encoder, or astray.                *)
(***************************************************************************)
LEMMA DecoderBegins ==
  ASSUME Given, style = "styled", Encoded, Decoded, BeginDecode
  PROVE  Decoded' \/ Astray'
<1>0. UNCHANGED <<session, asked, enc>> /\ enc.status = "OK" /\ dec.status = "idle" /\ replayed' = replayed
  BY Zenon DEF BeginDecode
<1>1. /\ replayed = <<>> /\ dec.bits = <<>> /\ dec.locals = FreshLocals("styled") /\ ~dec.unmatched
      /\ IsSeq(replayed) /\ IsDec(dec) /\ ~dec.skipped /\ Len(replayed) = 0
  BY <1>0 DEF Decoded
<1>2. IsLocals(dec.locals)
  BY <1>1, FreshIs
<1>3. Before(0) = dec.locals
  BY <1>1 DEF Encoded
<1>4. /\ IsDec(dec') /\ dec'.status \in {"running", "failed"} /\ dec'.locals = dec.locals
      /\ dec'.status = "running" => dec'.remaining = SkipSpaces(enc.cover)
      /\ dec'.bits = dec.bits /\ dec'.unmatched = dec.unmatched /\ dec'.skipped = dec.skipped
  <2>1. CASE dec' = [dec EXCEPT !.status = "failed"]
    <3>1. dec' = [status |-> "failed", preamble |-> dec.preamble, locals |-> dec.locals,
                  remaining |-> dec.remaining, todo |-> dec.todo, bits |-> dec.bits,
                  unmatched |-> dec.unmatched, skipped |-> dec.skipped, wordless |-> dec.wordless,
                  result |-> dec.result]
      BY <1>1, <2>1 DEF IsDec
    <3> QED BY <3>1 DEF IsDec
  <2>2. ASSUME NEW built \in Preambles, NEW todo \in WordsFound,
               dec' = [dec EXCEPT
                 !.status    = "running",
                 !.preamble  = built,
                 !.todo      = todo,
                 !.wordless  = ~Styled /\ todo # ExtractWords(enc.cover),
                 !.remaining = IF Styled THEN SkipSpaces(enc.cover)
                               ELSE IF todo = <<>> THEN <<>> ELSE Head(todo)]
        PROVE  /\ IsDec(dec') /\ dec'.status = "running" /\ dec'.locals = dec.locals
               /\ dec'.remaining = SkipSpaces(enc.cover)
               /\ dec'.bits = dec.bits /\ dec'.unmatched = dec.unmatched /\ dec'.skipped = dec.skipped
    <3>1. PICK w : w = (~Styled /\ todo # ExtractWords(enc.cover))
      OBVIOUS
    <3>2. PICK rest : /\ rest = SkipSpaces(enc.cover)
                      /\ rest = IF Styled THEN SkipSpaces(enc.cover)
                                ELSE IF todo = <<>> THEN <<>> ELSE Head(todo)
      BY DEF Styled
    <3>3. dec' = [dec EXCEPT !.status = "running", !.preamble = built, !.todo = todo, !.wordless = w,
                            !.remaining = rest]
      BY <2>2, <3>1, <3>2, Zenon
    <3>4. dec' = [status |-> "running", preamble |-> built, locals |-> dec.locals, remaining |-> rest,
                  todo |-> todo, bits |-> dec.bits, unmatched |-> dec.unmatched, skipped |-> dec.skipped,
                  wordless |-> w, result |-> dec.result]
      BY <1>1, <3>3 DEF IsDec
    <3> QED BY <3>2, <3>4 DEF IsDec
  <2>3. \/ dec' = [dec EXCEPT !.status = "failed"]
        \/ \E built \in Preambles, todo \in WordsFound :
              dec' = [dec EXCEPT
                !.status    = "running",
                !.preamble  = built,
                !.todo      = todo,
                !.wordless  = ~Styled /\ todo # ExtractWords(enc.cover),
                !.remaining = IF Styled THEN SkipSpaces(enc.cover)
                              ELSE IF todo = <<>> THEN <<>> ELSE Head(todo)]
    BY Zenon DEF BeginDecode
  <2>4. CASE \E built \in Preambles, todo \in WordsFound :
               dec' = [dec EXCEPT
                 !.status    = "running",
                 !.preamble  = built,
                 !.todo      = todo,
                 !.wordless  = ~Styled /\ todo # ExtractWords(enc.cover),
                 !.remaining = IF Styled THEN SkipSpaces(enc.cover)
                               ELSE IF todo = <<>> THEN <<>> ELSE Head(todo)]
    <3>1. /\ IsDec(dec') /\ dec'.status = "running" /\ dec'.locals = dec.locals
          /\ dec'.remaining = SkipSpaces(enc.cover)
          /\ dec'.bits = dec.bits /\ dec'.unmatched = dec.unmatched /\ dec'.skipped = dec.skipped
      BY <2>2, <2>4, Zenon
    <3> QED BY <3>1
  <2> QED BY <2>1, <2>3, <2>4, Zenon
<1>5. dec'.bits = <<>> /\ ~dec'.unmatched /\ ~dec'.skipped
  BY <1>1, <1>4
<1>6. CASE dec'.preamble = enc.preamble
  <2>1. /\ \A k : Before(k)' = Before(k) /\ Sent(k)' = Sent(k) /\ RestOf(k)' = RestOf(k)
        /\ \A k : Buffered(k)' = Buffered(k)
        /\ Bits' = Bits /\ asked' = asked /\ enc' = enc
    BY <1>0, DecoderSide
  <2>2. dec'.status = "running" => RestOf(0) = dec'.remaining
    <3>1. Before(0).text = <<>>
      BY <1>1, <1>3, FreshIs
    <3>2. enc.cover \in Seq(Char)
      BY <1>0, CoverIs
    <3>3. Drop(enc.cover, 0) = enc.cover
      BY <3>2, DropNone
    <3>4. Len(<<>>) = 0
      OBVIOUS
    <3> QED BY <1>4, <1>5, <3>1, <3>3, <3>4 DEF RestOf
  <2>3. InStep(0)'
    <3>1. Buffered(Sent(0))' = <<>>
      <4>1. Sent(0)' = 0
        BY DEF Sent
      <4> QED BY <2>1, <4>1, NothingBuffered
    <3>2. 0 <= Len(asked')
      BY <2>1, Asked
    <3> QED BY <1>3, <1>4, <1>5, <2>1, <2>2, <3>1, <3>2 DEF InStep
  <2>4. IsSeq(replayed') /\ Retraced(Len(replayed))' /\ Len(replayed') = 0
    BY <1>0, <1>1, StillRetraced
  <2>5. dec'.status # "idle" /\ dec'.status # "OK" /\ dec'.preamble = enc'.preamble /\ enc'.status = "OK"
    BY <1>0, <1>4, <1>5, <1>6, <2>1
  <2>6. PICK k : k = 0
    OBVIOUS
  <2> QED BY <1>4, <1>5, <2>3, <2>4, <2>5, <2>6, DecodedIs
<1>7. CASE dec'.preamble # enc.preamble
  <2>1. Masked(Len(replayed))
    BY <1>1 DEF Masked
  <2>2. DrawsAlike(dec'.locals, Before(Len(replayed)))
    BY <1>1, <1>3, <1>4 DEF DrawsAlike
  <2>3. dec'.status # "idle"
    BY <1>4, <1>5
  <2> QED BY <1>0, <1>1, <1>2, <1>4, <1>5, <1>7, <2>1, <2>2, <2>3, AstrayRests
<1> QED BY <1>6, <1>7

LEMMA InitSInv == Init => SInv
<1> SUFFICES ASSUME Init PROVE SInv
  OBVIOUS
<1>1. Given
  BY DEF Init, Given
<1> SUFFICES ASSUME style = "styled" PROVE Encoded /\ Decoded
  BY <1>1 DEF SInv
<1>2. PICK f : f = FreshLocals("styled")
  OBVIOUS
<1>3. asked = <<>> /\ replayed = <<>> /\ Len(asked) = 0 /\ Len(replayed) = 0
  BY DEF Init
<1>4. enc = [status |-> "idle", preamble |-> FALSE, locals |-> f, offset |-> 0, cut |-> FALSE, cover |-> <<>>]
  BY <1>2 DEF Init
<1>5. dec = [status |-> "idle", preamble |-> FALSE, locals |-> f, remaining |-> <<>>, todo |-> <<>>,
             bits |-> <<>>, unmatched |-> FALSE, skipped |-> FALSE, wordless |-> FALSE, result |-> <<>>]
  BY <1>2 DEF Init
<1>6. Before(0) = f /\ Sent(0) = 0
  BY <1>3, <1>4 DEF Before, Sent
<1>7. IsSeq(<<>>)
  <2>1. <<>> \in Seq({})
    OBVIOUS
  <2> QED BY <2>1 DEF IsSeq
<1>8. Encoded
  <2>1. Placed(0)
    <3>1. Limit(0) = 0
      BY StepDrawsIs DEF Limit
    <3>2. <<>> \in Seq(Char)
      OBVIOUS
    <3>3. /\ IsLocals(f) /\ f.pos = 0 /\ f.text = <<>> /\ f.steps = 0 /\ f.partial = <<>>
      BY <1>2, FreshIs
    <3>4. IsPlace(f, 0)
      BY <3>1, <3>2, <3>3 DEF IsPlace
    <3> QED BY <1>6, <3>4 DEF Placed
  <2>2. Grows
    BY <1>3 DEF Grows
  <2>3. IsEnc(enc) /\ enc.status # "OK" /\ enc.offset = 0
    BY <1>4 DEF IsEnc
  <2>4. 0 <= MaxSteps
    BY SessionAssumption
  <2> QED BY <1>2, <1>3, <1>6, <1>7, <2>1, <2>2, <2>3, <2>4 DEF Encoded
<1>9. Decoded
  <2>1. IsDec(dec) /\ dec.status = "idle" /\ dec.locals = f /\ dec.bits = <<>> /\ ~dec.unmatched /\ ~dec.skipped
    BY <1>5 DEF IsDec
  <2>2. InStep(0)
    BY <1>3, <1>6, <2>1, NothingBuffered DEF InStep
  <2>3. Retraced(0)
    BY DEF Retraced
  <2> QED BY <1>2, <1>3, <1>7, <2>1, <2>2, <2>3 DEF Decoded
<1> QED BY <1>8, <1>9

LEMMA NextSInv == SInv /\ [Next]_vars => SInv'
<1> SUFFICES ASSUME SInv, [Next]_vars PROVE SInv'
  OBVIOUS
<1>0. UNCHANGED session
  BY Zenon DEF Next, vars, session, BeginEncode, EncodePhrase, EncodeSyllable, EncodeFails, EncodeReturns,
         BeginDecode, DecodePhrase, DecodeSyllable, DecodeEndOfWord, SkipEndOfWord, DecodeFails, DecodeReturns
<1>1. Given /\ Given' /\ style' = style
  BY <1>0 DEF SInv, Given, session
<1> SUFFICES ASSUME style = "styled" PROVE Encoded' /\ (Decoded \/ Astray)'
  BY <1>1 DEF SInv
<1>2. Given /\ Encoded /\ (Decoded \/ Astray)
  BY DEF SInv
<1>3. CASE BeginEncode \/ EncodePhrase \/ EncodeFails \/ EncodeReturns
  <2>1. Encoded' /\ UNCHANGED <<session, replayed, dec>> /\ enc.status # "OK"
    BY <1>2, <1>3, EncoderKeeps, Zenon
  <2>2. Decoded /\ dec.status = "idle"
    BY <1>2, <2>1 DEF Decoded, Astray
  <2> QED BY <1>1, <2>1, <2>2, DecoderWaits
<1>4. CASE BeginDecode \/ DecodePhrase \/ DecodeFails \/ DecodeReturns
  <2>1. UNCHANGED <<session, asked, enc>>
    BY <1>4, Zenon DEF BeginDecode, DecodePhrase, DecodeFails, DecodeReturns
  <2>4. Encoded'
    BY <1>2, <2>1, EncodedStays
  <2>2. CASE Decoded
    <3>1. CASE BeginDecode
      BY <1>2, <2>2, <2>4, <3>1, DecoderBegins
    <3>2. CASE DecodePhrase \/ DecodeFails \/ DecodeReturns
      <4>1. Decoded'
        BY <1>2, <2>2, <3>2, DecoderKeeps, Zenon
      <4> QED BY <2>4, <4>1
    <3> QED BY <1>4, <3>1, <3>2
  <2>3. CASE Astray
    <3>1. Astray'
      BY <1>2, <1>4, <2>3, AstrayKeeps, Zenon
    <3> QED BY <2>4, <3>1
  <2> QED BY <1>2, <2>2, <2>3
<1>5. ~EncodeSyllable /\ ~DecodeSyllable /\ ~DecodeEndOfWord /\ ~SkipEndOfWord
  BY DEF EncodeSyllable, DecodeSyllable, DecodeEndOfWord, SkipEndOfWord, WordIsSpelled, Styled
<1>6. CASE UNCHANGED vars
  <2>1. UNCHANGED <<session, asked, enc>> /\ replayed' = replayed /\ dec' = dec
    BY <1>6 DEF vars, session
  <2>2. Encoded'
    BY <1>2, <2>1, EncodedStays
  <2>3. CASE dec.status = "idle"
    <3>1. Decoded
      BY <1>2, <2>3 DEF Astray
    <3> QED BY <1>2, <2>1, <2>2, <2>3, <3>1, DecoderWaits
  <2>4. CASE Astray
    <3>1. /\ IsDec(dec') /\ IsLocals(dec'.locals) /\ ~dec'.skipped /\ enc.status = "OK" /\ dec'.status # "idle"
          /\ dec'.preamble # enc.preamble /\ IsSeq(replayed) /\ Masked(Len(replayed))
          /\ dec'.status = "running" /\ Len(replayed) <= Len(asked) =>
               DrawsAlike(dec'.locals, Before(Len(replayed)))
      BY <2>1, <2>4 DEF Astray
    <3> QED BY <2>1, <2>2, <3>1, AstrayRests
  <2>5. CASE Decoded /\ dec.status # "idle"
    <3>1. IsSeq(replayed') /\ Retraced(Len(replayed))' /\ Len(replayed') = Len(replayed)
      BY <2>1, <2>5, StillRetraced
    <3>2. PICK n \in Nat : n = Len(replayed) /\ (InStep(n) \/ OffTheEnd(n)) /\ enc.status = "OK"
      BY <2>5, Replayed
    <3>3. /\ \A k : Before(k)' = Before(k) /\ Sent(k)' = Sent(k) /\ RestOf(k)' = RestOf(k)
          /\ \A k : Buffered(k)' = Buffered(k)
          /\ Bits' = Bits /\ asked' = asked
      BY <2>1, DecoderSide
    <3>4. NullTerminatorFound(dec.bits)' <=> NullTerminatorFound(dec.bits)
      BY <2>1 DEF NullTerminatorFound
    <3>5. InStep(n)' \/ OffTheEnd(n)'
      BY <2>1, <3>2, <3>3, <3>4 DEF InStep, OffTheEnd
    <3>6. IsDec(dec') /\ ~dec'.skipped /\ enc'.status = "OK" /\ dec'.status # "idle" /\ Len(replayed') = n
          /\ dec'.preamble = enc'.preamble
      BY <2>1, <2>5, <3>1, <3>2 DEF Decoded
    <3>7. dec'.status = "OK" => dec'.result = BitsToBytes(dec.bits)'
      BY <2>1, <2>5 DEF Decoded, BitsToBytes
    <3> QED BY <2>2, <3>1, <3>5, <3>6, <3>7, DecodedIs
  <2> QED BY <1>2, <2>2, <2>3, <2>4, <2>5
<1> QED BY <1>3, <1>4, <1>5, <1>6 DEF Next

LEMMA StyledSound == Spec => []SInv
<1>1. Init => SInv
  BY InitSInv
<1>2. SInv /\ [Next]_vars => SInv'
  BY NextSInv
<1> QED BY <1>1, <1>2, PTL DEF Spec

(* What the invariant says of the two loops.                               *)
LEMMA LoopsAgree ==
  ASSUME SInv, style = "styled"
  PROVE  /\ Encoded /\ (Decoded \/ Astray)
         /\ DOMAIN replayed = 1..Len(replayed) /\ DOMAIN asked = 1..Len(asked)
         /\ Len(replayed) \in Nat /\ Len(asked) \in Nat
         /\ Astray => Misled
         /\ Decoded => /\ Len(replayed) > Len(asked) => PastTheEnd
                       /\ dec.unmatched => PastTheEnd
                       /\ \E k \in Nat : dec.bits = Buffered(k)
<1>0. Encoded /\ (Decoded \/ Astray)
  BY DEF SInv
<1>2. Len(asked) \in Nat /\ DOMAIN asked = 1..Len(asked)
  BY <1>0, Asked
<1>3. PICK S : replayed \in Seq(S)
  BY <1>0 DEF Decoded, Astray, IsSeq
<1>4. Len(replayed) \in Nat /\ DOMAIN replayed = 1..Len(replayed)
  BY <1>3, LenProperties
<1>a. Astray => Misled
  BY DEF Astray, Misled, Parted
<1> SUFFICES ASSUME Decoded PROVE /\ Len(replayed) > Len(asked) => PastTheEnd
                                  /\ dec.unmatched => PastTheEnd
                                  /\ \E k \in Nat : dec.bits = Buffered(k)
  BY Zenon, <1>0, <1>2, <1>4, <1>a
<1>1. Encoded /\ Decoded
  BY <1>0
<1>5. PICK n \in Nat : n = Len(replayed) /\ (InStep(n) \/ OffTheEnd(n))
  BY <1>1, Replayed
<1>6. OffTheEnd(n) => PastTheEnd
  BY <1>5 DEF OffTheEnd, PastTheEnd, Styled
<1>7. InStep(n) => n <= Len(asked) /\ ~dec.unmatched
  BY DEF InStep
<1>8. \A i \in 0..Len(asked) : Sent(i) \in Nat
  BY <1>1 DEF Encoded, Placed
<1>9. \E k \in Nat : dec.bits = Buffered(k)
  <2>1. CASE InStep(n)
    <3>1. n \in 0..Len(asked) /\ dec.bits = Buffered(Sent(n))
      <4>1. n <= Len(asked) /\ dec.bits = Buffered(Sent(n))
        BY <2>1 DEF InStep
      <4> QED BY <1>2, <1>5, <4>1
    <3> QED BY <1>8, <3>1
  <2>2. CASE OffTheEnd(n)
    <3>1. Len(asked) \in 0..Len(asked) /\ dec.bits = Buffered(Sent(Len(asked)))
      BY <1>2, <2>2 DEF OffTheEnd
    <3> QED BY <1>8, <3>1
  <2> QED BY <1>5, <2>1, <2>2
<1> QED BY <1>1, <1>2, <1>4, <1>5, <1>6, <1>7, <1>9

(* With a style the decoder sends the prompts the encoder sent, in its     *)
(* order, unless the message is longer than its buffer and it has gone     *)
(* past the encoder's last phrase, or only one side has the preamble,      *)
(* whose allocation neither checks (decode.c:105, 174-341, encode.c:40).   *)
THEOREM PromptsInStep == Spec => [](Styled => PromptLockstep)
<1>1. SInv => (Styled => PromptLockstep)
  <2> SUFFICES ASSUME SInv, style = "styled", NEW i \in DOMAIN replayed
               PROVE  \/ i \in DOMAIN asked /\ replayed[i].prompt = asked[i].prompt
                      \/ PastTheEnd /\ i > Len(asked)
                      \/ Misled
    BY DEF PromptLockstep, Styled
  <2>1. /\ DOMAIN replayed = 1..Len(replayed) /\ DOMAIN asked = 1..Len(asked)
        /\ Len(replayed) \in Nat /\ Len(asked) \in Nat
        /\ Decoded \/ Misled
        /\ Decoded => (Len(replayed) > Len(asked) => PastTheEnd)
    BY LoopsAgree
  <2>2. CASE Decoded /\ i <= Len(asked)
    BY <2>1, <2>2 DEF Decoded, Retraced
  <2>3. CASE Decoded /\ i > Len(asked)
    BY <2>1, <2>3
  <2> QED BY <2>1, <2>2, <2>3
<1> QED BY <1>1, StyledSound, PTL

(* With a style both loops draw each step's mask at the same place of the  *)
(* keystream, however many bits the draws before it took (decode.c:175-191 *)
(* against encode.c:91-111), also where their prompts have parted.         *)
THEOREM MasksInStep == Spec => [](Styled => KeystreamLockstep)
<1>1. SInv => (Styled => KeystreamLockstep)
  <2> SUFFICES ASSUME SInv, style = "styled", NEW i \in DOMAIN replayed, i \in DOMAIN asked
               PROVE  replayed[i].maskAt = asked[i].maskAt
    BY DEF KeystreamLockstep, Styled
  <2>1. /\ Decoded \/ Astray
        /\ DOMAIN replayed = 1..Len(replayed) /\ DOMAIN asked = 1..Len(asked)
        /\ Len(asked) \in Nat
    BY LoopsAgree
  <2>2. i <= Len(asked)
    BY <2>1
  <2> QED BY <2>1, <2>2 DEF Decoded, Retraced, Astray, Masked
<1> QED BY <1>1, StyledSound, PTL

(* With a style the decoder finds in the covertext, at every step, the     *)
(* candidate the encoder wrote, and falls back on the first of the list    *)
(* only past the encoder's last phrase or without one side's preamble      *)
(* (decode.c:251-266).                                                     *)
THEOREM PhrasesRecognised == Spec => [](Styled => AlwaysRecognised)
<1>1. SInv => (Styled => AlwaysRecognised)
  BY LoopsAgree DEF AlwaysRecognised, Styled
<1> QED BY <1>1, StyledSound, PTL

(* With a style what the decoder has in its buffer is at any time the      *)
(* first bits of the message and of its zeros, as far as the buffer goes,  *)
(* if both sides have the preamble or neither.                             *)
THEOREM PrefixRecovered == Spec => [](Styled => RecoveredIsPrefix)
<1>1. SInv => (Styled => RecoveredIsPrefix)
  <2> SUFFICES ASSUME SInv, style = "styled", ~Misled, NEW i \in DOMAIN dec.bits
               PROVE  dec.bits[i] = IF i <= Len(Bits) THEN Bits[i] ELSE 0
    BY DEF RecoveredIsPrefix, Styled
  <2>1. PICK k \in Nat : dec.bits = Buffered(k)
    BY LoopsAgree
  <2>2. Bits \in Seq(Bit)
    BY MessageBits DEF SInv, Given
  <2>3. PICK b \in Seq(Bit) : b = dec.bits /\ \A j \in 1..Len(b) : b[j] = Padded(j)
    BY <2>1, <2>2, BufferedIs
  <2>4. i \in 1..Len(b)
    BY <2>3
  <2> QED BY <2>3, <2>4 DEF Padded
<1> QED BY <1>1, StyledSound, PTL

(***************************************************************************)
(* The bytes of a message.                                                 *)
(***************************************************************************)
LEMMA PowerPositive ==
  ASSUME NEW n \in Nat
  PROVE  PowerOfTwo(n) \in Int /\ PowerOfTwo(n) > 0
<1> DEFINE T == {j \in 0..n : PowerOfTwo(j) > 0}
<1>1. 0 \in T
  BY PowerRec
<1>2. ASSUME NEW j \in 1..n, j - 1 \in T PROVE j \in T
  <2>1. PICK i \in Nat : i = j - 1 /\ i + 1 = j
    OBVIOUS
  <2>2. PowerOfTwo(i) \in Int /\ PowerOfTwo(i + 1) = 2 * PowerOfTwo(i)
    BY PowerRec
  <2> QED BY <1>2, <2>1, <2>2
<1>3. n \in T
  <2> HIDE DEF T
  <2>1. \A j \in 0..n : j \in T
    BY <1>1, <1>2, UpTo
  <2> QED BY <2>1
<1> QED BY <1>3, PowerRec

LEMMA ZeroWord ==
  ASSUME NEW n \in Nat
  PROVE  ValueOf([i \in 1..n |-> 0]) = 0
<1>1. 0 < PowerOfTwo(n) /\ 0 \in Int
  BY PowerPositive
<1>2. BitsOf(0, n) \in [1..n -> Bit] /\ ValueOf(BitsOf(0, n)) = 0
  BY <1>1, ValueOfBits
<1>3. ASSUME NEW i \in 1..n PROVE BitsOf(0, n)[i] = 0
  <2>1. n - i \in Nat
    OBVIOUS
  <2>2. Shifted(0, n - i) = 0
    BY <2>1, ShiftedAway
  <2>3. BitsOf(0, n)[i] = Shifted(0, n - i) % 2
    BY BitOf
  <2> QED BY <2>2, <2>3
<1>4. BitsOf(0, n) = [i \in 1..n |-> 0]
  BY <1>2, <1>3
<1> QED BY <1>2, <1>4

(* The j-th byte of a string of bits.                                      *)
ByteAt(bits, j) == ValueOf(SubSeq(bits, (j - 1) * ByteBits + 1, j * ByteBits))

LEMMA BytePlace ==
  ASSUME NEW j \in Nat \ {0}
  PROVE  \E x \in Nat : /\ x = ByteBits * (j - 1) /\ (j - 1) * ByteBits + 1 = x + 1
                        /\ j * ByteBits = x + ByteBits /\ ByteBits * j = x + ByteBits
<1>1. PICK B \in Nat : B = ByteBits
  BY CoreAssumption
<1>2. PICK i \in Nat : i = j - 1 /\ j = i + 1
  OBVIOUS
<1>3. B * i \in Nat /\ i * B = B * i /\ (i + 1) * B = B * i + B /\ B * (i + 1) = B * i + B
  OBVIOUS
<1> QED BY <1>1, <1>2, <1>3

LEMMA ByteIs ==
  ASSUME NEW bits \in Seq(Bit), NEW j \in Nat \ {0}, ByteBits * j <= Len(bits)
  PROVE  /\ ByteAt(bits, j) = ValueOf([i \in 1..ByteBits |-> bits[ByteBits * (j - 1) + i]])
         /\ \A i \in 1..ByteBits : ByteBits * (j - 1) + i \in 1..Len(bits)
<1>1. PICK B \in Nat : B = ByteBits
  BY CoreAssumption
<1>2. PICK x \in Nat : /\ x = ByteBits * (j - 1) /\ (j - 1) * ByteBits + 1 = x + 1
                       /\ j * ByteBits = x + ByteBits /\ ByteBits * j = x + ByteBits
  BY BytePlace
<1>3. PICK n \in Nat : n = Len(bits) /\ x + B <= n
  BY <1>1, <1>2
<1>4. PICK a \in Int, z \in Int : a = x + 1 /\ z = x + B /\ a <= z + 1
  BY <1>1
<1>5. \A i \in a..z : bits[i] \in Bit
  <2> SUFFICES ASSUME NEW i \in a..z PROVE bits[i] \in Bit
    OBVIOUS
  <2>1. i \in 1..Len(bits)
    BY <1>3, <1>4
  <2> QED BY <2>1
<1>6. /\ SubSeq(bits, a, z) \in Seq(Bit)
      /\ Len(SubSeq(bits, a, z)) = IF a <= z THEN z - a + 1 ELSE 0
      /\ \A i \in 1 .. z - a + 1 : SubSeq(bits, a, z)[i] = bits[a + i - 1]
  BY <1>5, SubSeqProperties
<1>7. PICK w \in Seq(Bit) : w = SubSeq(bits, a, z) /\ Len(w) = B /\ \A i \in 1..B : w[i] = bits[x + i]
  <2>1. (IF a <= z THEN z - a + 1 ELSE 0) = B
    BY <1>1, <1>4
  <2>2. ASSUME NEW i \in 1..B PROVE SubSeq(bits, a, z)[i] = bits[x + i]
    <3>1. i \in 1..(z - a + 1) /\ a + i - 1 = x + i
      BY <1>4
    <3> QED BY <1>6, <3>1, Zenon
  <2> QED BY <1>6, <2>1, <2>2, Zenon
<1>8. w = [i \in 1..B |-> bits[x + i]]
  <2>0. w \in [1..B -> Bit]
    <3>1. w \in [1..Len(w) -> Bit]
      BY LenProperties
    <3> QED BY <1>7, <3>1
  <2>1. w = [i \in 1..B |-> w[i]]
    BY <2>0
  <2> QED BY <1>7, <2>1, Zenon
<1>9. ByteAt(bits, j) = ValueOf(w)
  BY <1>1, <1>2, <1>4, <1>7 DEF ByteAt
<1>10. \A i \in 1..B : x + i \in 1..n
  BY <1>3
<1> QED BY <1>1, <1>2, <1>3, <1>8, <1>9, <1>10

(* A buffer that holds the message's bytes, with nothing but zeros behind  *)
(* them, is read back as the message.                                      *)
LEMMA BytesBack ==
  ASSUME message \in Messages, NEW k \in Nat, k >= ByteBits * Len(message), Len(Bits) <= MaxRecoveredBits
  PROVE  BitsToBytes(Buffered(k)) = message
<1>1. PICK B \in Nat \ {0}, L \in Nat : B = ByteBits /\ L = Len(message)
  BY CoreAssumption, MessageBits, Zenon
<1>2. PICK M \in Nat : M = B * L
  OBVIOUS
<1>3. /\ Bits \in Seq(Bit) /\ Len(Bits) = M + B
      /\ \A i \in 1..(M + B) : i > M => Bits[i] = 0
      /\ \A j \in 1..L :
           /\ message[j] \in 1..(PowerOfTwo(B) - 1)
           /\ \A i \in 1..B : Bits[B * (j - 1) + i] = BitsOf(message[j], B)[i]
  BY <1>1, <1>2, MessageBits
<1>4. PICK b \in Seq(Bit), n \in Nat : b = Buffered(k) /\ n = Len(b) /\ n >= M /\ \A i \in 1..n : b[i] = Padded(i)
  <2>1. PICK X \in Nat : X = MaxRecoveredBits /\ X >= M
    BY <1>3, SessionAssumption
  <2>2. PICK b \in Seq(Bit) : b = Buffered(k) /\ Len(b) = (IF k < X THEN k ELSE X)
                              /\ \A i \in 1..Len(b) : b[i] = Padded(i)
    BY <1>3, <2>1, BufferedIs, Zenon
  <2>3. (IF k < X THEN k ELSE X) \in Nat /\ (IF k < X THEN k ELSE X) >= M
    BY <1>1, <1>2, <2>1
  <2> QED BY <2>2, <2>3
<1>5. ASSUME NEW j \in 1..L PROVE ByteAt(b, j) = message[j] /\ message[j] # 0
  <2>1. PICK x \in Nat : x = B * (j - 1) /\ B * j = x + B
    BY <1>1, BytePlace
  <2>2. x + B <= M
    <3>1. B * j <= B * L
      BY Monotone
    <3> QED BY <1>2, <2>1, <3>1
  <2>3. ByteAt(b, j) = ValueOf([i \in 1..B |-> b[x + i]]) /\ \A i \in 1..B : x + i \in 1..n
    <3>1. ByteBits * j <= Len(b) /\ j \in Nat \ {0}
      BY <1>1, <1>4, <2>1, <2>2
    <3> QED BY <1>1, <1>4, <2>1, <3>1, ByteIs, Zenon
  <2>4. ASSUME NEW i \in 1..B PROVE b[x + i] = BitsOf(message[j], B)[i]
    <3>1. x + i \in 1..n /\ x + i <= M + B
      <4>1. x \in Nat /\ M \in Nat /\ B \in Nat /\ i \in 1..B
        BY <1>1, <1>2, <2>1
      <4>2. x + i <= M + B
        BY <2>2, <4>1
      <4> QED BY <2>3, <4>2, Zenon
    <3> QED BY <1>3, <1>4, <2>1, <3>1 DEF Padded
  <2>5. PICK v \in Int : v = message[j] /\ 0 < v /\ v < PowerOfTwo(B)
    <3>1. PICK X \in Int : X = PowerOfTwo(B)
      BY <1>1, PowerPositive, Zenon
    <3>2. message[j] \in 1..(X - 1)
      BY <1>3, <3>1
    <3> QED BY <3>1, <3>2
  <2>6. BitsOf(v, B) \in [1..B -> Bit] /\ ValueOf(BitsOf(v, B)) = v
    BY <2>5, ValueOfBits
  <2>7. [i \in 1..B |-> b[x + i]] = BitsOf(v, B)
    BY <2>4, <2>5, <2>6, Zenon
  <2> QED BY <2>3, <2>5, <2>6, <2>7
<1>6. ASSUME ByteBits * (L + 1) <= n PROVE ByteAt(b, L + 1) = 0
  <2>1. ByteAt(b, L + 1) = ValueOf([i \in 1..B |-> b[M + i]]) /\ \A i \in 1..B : M + i \in 1..n
    <3>1. PICK j \in Nat \ {0} : j = L + 1 /\ j - 1 = L
      OBVIOUS
    <3>2. ByteBits * j <= Len(b)
      BY <1>4, <1>6, <3>1
    <3> QED BY <1>1, <1>2, <1>4, <3>1, <3>2, ByteIs, Zenon
  <2>2. ASSUME NEW i \in 1..B PROVE b[M + i] = 0
    <3>1. M + i \in 1..(M + B) /\ M + i > M /\ M + i <= M + B
      OBVIOUS
    <3> QED BY <1>3, <1>4, <2>1, <3>1, Zenon DEF Padded
  <2>3. [i \in 1..B |-> b[M + i]] = [i \in 1..B |-> 0]
    BY <2>2, Zenon
  <2> QED BY <2>1, <2>3, ZeroWord, Zenon
<1>7. PICK d \in Nat, m \in 0..(B - 1) : d = n \div B /\ n = B * d + m
  BY Division
<1>8. L <= d
  <2> SUFFICES ASSUME d < L PROVE FALSE
    OBVIOUS
  <2>1. PICK y \in Nat : y = B * d
    OBVIOUS
  <2>2. y + B <= M
    BY <1>2, <2>1, NextMultiple
  <2> QED BY <1>4, <1>7, <2>1, <2>2
<1>9. ASSUME NEW j \in 1..d PROVE ByteBits * j <= n
  <2>1. B * j <= B * d /\ B * j \in Nat /\ B * d \in Nat
    BY Monotone
  <2>2. PICK y \in Nat, z \in Nat : y = B * d /\ z = B * j
    BY <2>1
  <2> QED BY <1>1, <1>7, <2>1, <2>2
<1> DEFINE whole == 1..d
           Ends(q) == (\A j \in 1..q : ByteAt(b, j) # 0) /\ (q + 1 \in whole => ByteAt(b, q + 1) = 0)
<1>10. Ends(L) /\ L \in {0} \cup whole
  BY <1>5, <1>6, <1>8, <1>9
<1>11. ASSUME NEW q \in {0} \cup whole, Ends(q) PROVE q = L
  <2>1. q \in Nat /\ q <= d
    OBVIOUS
  <2>2. ~(q < L)
    <3> SUFFICES ASSUME q < L PROVE FALSE
      OBVIOUS
    <3>1. q + 1 \in 1..L /\ q + 1 \in whole
      BY <1>8, <2>1
    <3> QED BY <1>5, <1>11, <3>1
  <2>3. ~(L < q)
    <3> SUFFICES ASSUME L < q PROVE FALSE
      OBVIOUS
    <3>1. L + 1 \in 1..q /\ L + 1 \in 1..d
      BY <2>1
    <3> QED BY <1>6, <1>9, <1>11, <3>1
  <2> QED BY <2>1, <2>2, <2>3
<1>12. PICK l : l = CHOOSE q \in {0} \cup whole : Ends(q)
  BY Zenon
<1>13. l = L
  <2> HIDE DEF Ends, whole
  <2> QED BY <1>10, <1>11, <1>12
<1>14. BitsToBytes(b) = [j \in 1..l |-> ByteAt(b, j)]
  BY <1>1, <1>4, <1>7, <1>12, Zenon DEF BitsToBytes, ByteAt
<1>15. [j \in 1..L |-> ByteAt(b, j)] = [j \in 1..L |-> message[j]]
  BY <1>5
<1>16. message = [j \in 1..L |-> message[j]]
  <2>1. message \in Seq(1..(PowerOfTwo(ByteBits) - 1))
    BY SessionAssumption
  <2> QED BY <1>1, <2>1
<1> QED BY <1>4, <1>13, <1>14, <1>15, <1>16

LEMMA NothingFound ==
  ASSUME message \in Messages
  PROVE  ~NullTerminatorFound(SubSeq(Bits, 1, 0))
<1>1. PICK B \in Nat : B = ByteBits /\ B > 0
  BY CoreAssumption
<1>2. Bits \in Seq(Bit)
  BY MessageBits
<1>3. 0 \in 0..Len(Bits)
  BY <1>2
<1>4. Len(SubSeq(Bits, 1, 0)) = 0
  BY <1>2, <1>3, SubSeqFirst
<1> QED BY <1>1, <1>4 DEF NullTerminatorFound

(* What the decoder has read is the message, if it has read it to its end  *)
(* or up to a run of zeros that does not lie inside it.                    *)
LEMMA WholeMessage ==
  ASSUME message \in Messages, NEW k \in Nat, Len(Bits) <= MaxRecoveredBits,
         k >= Len(Bits) \/ NullTerminatorFound(Buffered(k)),
         k < ByteBits * Len(message) => ~NullTerminatorFound(SubSeq(Bits, 1, k))
  PROVE  BitsToBytes(Buffered(k)) = message
<1>1. PICK M \in Nat, B \in Nat : M = ByteBits * Len(message) /\ Len(Bits) = M + B /\ Bits \in Seq(Bit)
  <2>1. ByteBits \in Nat
    BY CoreAssumption
  <2>2. ByteBits * Len(message) \in Nat
    BY <2>1, MessageBits
  <2> QED BY <2>1, <2>2, MessageBits
<1>2. k >= M
  <2> SUFFICES ASSUME k < M PROVE FALSE
    BY <1>1
  <2>1. NullTerminatorFound(Buffered(k))
    BY <1>1
  <2>2. k \in 0..Len(Bits)
    BY <1>1
  <2>3. PICK s \in Seq(Bit) : s = SubSeq(Bits, 1, k) /\ Len(s) = k /\ \A i \in 1..k : s[i] = Bits[i]
    <3>1. /\ SubSeq(Bits, 1, k) \in Seq(Bit) /\ Len(SubSeq(Bits, 1, k)) = k
          /\ \A i \in 1..k : SubSeq(Bits, 1, k)[i] = Bits[i]
      BY <1>1, <2>2, SubSeqFirst
    <3> QED BY <3>1, Zenon
  <2>4. PICK b \in Seq(Bit) : b = Buffered(k) /\ Len(b) = k /\ \A i \in 1..k : b[i] = Bits[i]
    <3>1. PICK X \in Nat : X = MaxRecoveredBits /\ k < X
      BY <1>1, SessionAssumption
    <3>2. Buffered(k) \in Seq(Bit) /\ Len(Buffered(k)) = k /\ \A i \in 1..k : Buffered(k)[i] = Padded(i)
      BY <1>1, <3>1, BufferedIs, Zenon
    <3>3. \A i \in 1..k : Padded(i) = Bits[i]
      BY <1>1 DEF Padded
    <3> QED BY <3>2, <3>3
  <2>5. s = b
    BY <2>3, <2>4, SeqEqual
  <2>6. ~NullTerminatorFound(SubSeq(Bits, 1, k))
    BY <1>1
  <2> QED BY <2>1, <2>3, <2>4, <2>5, <2>6, Zenon
<1> QED BY <1>1, <1>2, BytesBack

(* With a style a message embedded to its last bit is decoded to itself,   *)
(* unless a step ended behind a run of zeros inside it, the buffer is too  *)
(* short for it, or only one side has the preamble (decode.c:276-279,      *)
(* bits.c:22-48).                                                          *)
THEOREM MessagesComeBack == Spec => [](Styled => RoundTrip)
<1>1. SInv => (Styled => RoundTrip)
  <2> SUFFICES ASSUME SInv, style = "styled", dec.status = "OK", enc.offset >= Len(Bits),
                      ~Misled, ~StopsInsideMessage, Len(Bits) <= MaxRecoveredBits
               PROVE  dec.result = message
    BY DEF RoundTrip, Styled
  <2>1. Encoded /\ Decoded /\ message \in Messages
    BY LoopsAgree DEF SInv, Given
  <2>2. PICK n \in Nat : n = Len(replayed) /\ (InStep(n) \/ OffTheEnd(n))
    BY <2>1, Replayed
  <2>3. PICK m \in Nat : m = Len(asked) /\ DOMAIN asked = 1..m
    BY <2>1, Asked, Zenon
  <2>4. Len(Bits) \in Nat
    BY <2>1, MessageBits
  <2>5. InStep(n)
    <3>1. ~OffTheEnd(n)
      BY <2>4, SessionAssumption DEF OffTheEnd
    <3> QED BY <2>2, <3>1
  <2>6. n <= m /\ dec.bits = Buffered(Sent(n)) /\ (n = m \/ (n > 0 /\ NullTerminatorFound(dec.bits)))
    BY <2>3, <2>5 DEF InStep
  <2>7. PICK k \in Nat : k = Sent(n) /\ dec.bits = Buffered(k)
    <3>1. n \in 0..m
      BY <2>2, <2>6
    <3>2. Sent(n) \in Nat
      BY <2>1, <2>3, <3>1 DEF Encoded, Placed
    <3> QED BY <2>6, <3>2
  <2>8. k >= Len(Bits) \/ NullTerminatorFound(Buffered(k))
    <3>1. CASE n = m
      <4>1. k = enc.offset
        BY <2>1, <2>3, <2>7, <3>1 DEF Encoded
      <4> QED BY <4>1
    <3>2. CASE NullTerminatorFound(dec.bits)
      BY <2>7, <3>2
    <3> QED BY <2>6, <3>1, <3>2
  <2>9. k < ByteBits * Len(message) => ~NullTerminatorFound(SubSeq(Bits, 1, k))
    <3>1. CASE n = 0
      <4>1. k = 0
        BY <2>7, <3>1 DEF Sent
      <4>2. ~NullTerminatorFound(SubSeq(Bits, 1, 0))
        BY <2>1, NothingFound
      <4> QED BY <4>1, <4>2
    <3>2. CASE n # 0
      <4>1. n \in DOMAIN asked /\ asked[n].offset = k
        BY <2>2, <2>3, <2>6, <2>7, <3>2 DEF Sent
      <4> QED BY <4>1 DEF StopsInsideMessage
    <3> QED BY <3>1, <3>2
  <2>11. BitsToBytes(Buffered(k)) = message
    BY <2>1, <2>7, <2>8, <2>9, WholeMessage
  <2>10. dec.result = BitsToBytes(dec.bits)
    BY <2>1 DEF Decoded
  <2> QED BY <2>7, <2>10, <2>11
<1> QED BY <1>1, StyledSound, PTL

(***************************************************************************)
(* Digressions.  What the encoder remembers of the newest sentence is what *)
(* it opened it with.                                                      *)
(***************************************************************************)
Newest(j) == asked[j].opening /\ \A k \in (j + 1)..Len(asked) : ~asked[k].opening

NoSentence == \A i \in 1..Len(asked) : ~asked[i].opening

Remembers(s) ==
  \/ NoSentence /\ s.anchor = NoPhrase /\ s.topics = 0
  \/ \E j \in 1..Len(asked) :
       /\ Newest(j)
       /\ s.anchor = NoPhrase => asked[j].digression = s.lastDig
       /\ s.anchor # NoPhrase => asked[j].digression = s.dig

Isolated(i) ==
  asked[i].opening /\ asked[i].digression =>
    \E j \in 1..(i - 1) : /\ asked[j].opening /\ ~asked[j].digression
                          /\ \A k \in (j + 1)..(i - 1) : ~asked[k].opening

DInv ==
  /\ IsSeq(asked)
  /\ \A i \in 1..Len(asked) : Isolated(i)
  /\ style = "styled" => Remembers(enc.locals)
  /\ style # "styled" => NoSentence

LEMMA SentenceDrawn ==
  ASSUME NEW b, IsLocals(b), NEW s, s = EncoderDraws(b).locals
  PROVE  /\ IsLocals(s) /\ s.anchor = b.anchor
         /\ b.anchor = NoPhrase /\ s.dig => b.topics >= 1 /\ ~b.lastDig
         /\ b.anchor # NoPhrase => s.dig = b.dig
<1>1. IsLocals(s) /\ s.anchor = b.anchor
  BY DrawsIs
<1>2. b.anchor # NoPhrase => s.dig = b.dig
  BY Zenon DEF EncoderDraws, IsLocals
<1>3. ASSUME b.anchor = NoPhrase, s.dig PROVE b.topics >= 1 /\ ~b.lastDig
  <2> DEFINE q == DrawUnlikeRecent(stream, b.pos, b.question)
             e == DrawClauseEnd(stream, q.pos, b.phrases)
  <2>1. PICK d : d = DrawDigressMode(stream, e.pos, b.topics, b.lastDig)
    OBVIOUS
  <2>2. s.dig = d.value
    BY <1>3, <2>1, Zenon DEF EncoderDraws, IsLocals
  <2>3. d.value
    BY <1>3, <2>2
  <2> QED BY <2>1, <2>3, Zenon DEF DrawDigressMode, MinTopicSentences
<1> QED BY <1>1, <1>2, <1>3

LEMMA SentenceTaken ==
  ASSUME NEW s, IsLocals(s), NEW phrase, phrase # NoPhrase, NEW ends,
         NEW a, a = EncoderTakes(Advanced(s), phrase, ends)
  PROVE  /\ a.anchor = NoPhrase => a.lastDig = s.dig
         /\ a.anchor # NoPhrase => a.dig = s.dig
<1>1. CASE ends
  BY <1>1 DEF EncoderTakes, Advanced, IsLocals
<1>2. CASE ~ends
  BY <1>2 DEF EncoderTakes, Advanced, IsLocals
<1> QED BY <1>1, <1>2

LEMMA PhraseOpens ==
  ASSUME SInv, style = "styled", DInv, EncodePhrase
  PROVE  (\A i \in 1..Len(asked) : Isolated(i))' /\ Remembers(enc.locals)' /\ IsSeq(asked')
<1>0. Given /\ Encoded
  BY DEF SInv
<1>1. PICK n \in Nat : n = Len(asked) /\ Before(n) = enc.locals
  BY <1>0, Asked, Zenon
<1>2. PICK b, o : b = enc.locals /\ o = enc.offset
  OBVIOUS
<1>3. IsPlace(b, n) /\ o \in Nat /\ IsLocals(b)
  BY <1>0, <1>1, <1>2 DEF Encoded, Placed, IsPlace
<1>4. n < MaxSteps
  BY <1>2, <1>3 DEF EncodePhrase, EncoderRuns, IsPlace
<1>5. PICK table \in Tables : \E e : Asks(table, e)
  BY EncodePhraseIs
<1>6. PICK e : Asks(table, e)
  BY <1>5
<1>7. PICK s, c, a, ends :
        /\ s = EncoderDraws(b).locals /\ c = Choice(b, o, table) /\ a = After(b, o, table)
        /\ ends = EncoderDraws(b).endClause
  OBVIOUS
<1>8. /\ asked' = Append(asked, e) /\ e.digression = s.dig /\ (e.opening <=> s.anchor = NoPhrase)
      /\ enc'.locals = a
  <2>1. IsEnc(enc) /\ enc' = [enc EXCEPT !.locals = a, !.offset = @ + c.consumed]
    BY <1>0, <1>2, <1>6, <1>7 DEF Asks, Encoded
  <2>2. enc' = [status |-> enc.status, preamble |-> enc.preamble, locals |-> a,
                offset |-> enc.offset + c.consumed, cut |-> enc.cut, cover |-> enc.cover]
    BY <2>1, Zenon DEF IsEnc
  <2> QED BY <1>2, <1>6, <1>7, <2>2 DEF Asks
<1>9. /\ s.anchor = b.anchor /\ IsLocals(s)
      /\ b.anchor = NoPhrase /\ s.dig => b.topics >= 1 /\ ~b.lastDig
      /\ b.anchor # NoPhrase => s.dig = b.dig
  BY <1>3, <1>7, SentenceDrawn
<1>10. (a.anchor = NoPhrase => a.lastDig = s.dig) /\ (a.anchor # NoPhrase => a.dig = s.dig)
  <2>1. Forward(n, b, o, table)
    BY <1>0, <1>3, <1>4, StepForward
  <2>2. PICK i \in 1..Len(table) : c.chosen = table[i].text
    BY <1>7, <2>1 DEF Forward
  <2>3. c.chosen # NoPhrase
    BY <2>2, TableIs, Zenon DEF NoPhrase
  <2>4. a = EncoderTakes(Advanced(s), c.chosen, ends)
    BY <1>7 DEF After
  <2> QED BY <1>9, <2>3, <2>4, SentenceTaken
<1>11. /\ IsSeq(asked') /\ Len(asked') = n + 1 /\ \A i \in 1..n : asked'[i] = asked[i]
       /\ asked'[n + 1] = e
  BY <1>0, <1>1, <1>8, AppendAny DEF Encoded
<1>12. Remembers(b)
  BY <1>2 DEF DInv
<1>13. ASSUME NEW i \in 1..n PROVE Isolated(i)'
  <2>1. Isolated(i)
    BY <1>1 DEF DInv
  <2>2. asked'[i] = asked[i]
    BY <1>11
  <2> SUFFICES ASSUME asked[i].opening, asked[i].digression
               PROVE  \E j \in 1..(i - 1) : /\ asked'[j].opening /\ ~asked'[j].digression
                                            /\ \A k \in (j + 1)..(i - 1) : ~asked'[k].opening
    BY <2>2 DEF Isolated
  <2>3. PICK j \in 1..(i - 1) : /\ asked[j].opening /\ ~asked[j].digression
                                /\ \A k \in (j + 1)..(i - 1) : ~asked[k].opening
    BY <2>1 DEF Isolated
  <2>4. asked'[j] = asked[j] /\ \A k \in (j + 1)..(i - 1) : asked'[k] = asked[k]
    <3>1. j \in 1..n /\ \A k \in (j + 1)..(i - 1) : k \in 1..n
      BY <2>3
    <3> QED BY <1>11, <3>1
  <2> QED BY <2>3, <2>4
<1>14. Isolated(n + 1)'
  <2>0. (n + 1) - 1 = n
    OBVIOUS
  <2> SUFFICES ASSUME e.opening, e.digression
               PROVE  \E j \in 1..n : /\ asked'[j].opening /\ ~asked'[j].digression
                                      /\ \A k \in (j + 1)..n : ~asked'[k].opening
    BY <1>11, <2>0 DEF Isolated
  <2>1. b.anchor = NoPhrase /\ s.dig
    BY <1>8, <1>9
  <2>2. b.topics >= 1 /\ ~b.lastDig
    BY <1>9, <2>1
  <2>3. b.topics # 0
    BY <2>2
  <2>4. PICK j \in 1..n : Newest(j) /\ asked[j].digression = b.lastDig
    BY <1>1, <1>12, <2>1, <2>3 DEF Remembers
  <2>5. asked'[j] = asked[j] /\ \A k \in (j + 1)..n : asked'[k] = asked[k] /\ ~asked[k].opening
    <3>1. \A k \in (j + 1)..n : k \in 1..n
      BY <2>4
    <3>2. \A k \in (j + 1)..n : ~asked[k].opening
      BY <1>1, <2>4 DEF Newest
    <3> QED BY <1>11, <3>1, <3>2
  <2>6. asked[j].opening /\ ~asked[j].digression
    BY <2>2, <2>4 DEF Newest
  <2> QED BY <2>5, <2>6
<1>15. \E j \in 1..(n + 1) : Newest(j)' /\ asked'[j].digression = s.dig
  <2>1. CASE b.anchor = NoPhrase
    <3>1. e.opening /\ n + 1 \in 1..(n + 1) /\ \A k \in ((n + 1) + 1)..(n + 1) : FALSE
      BY <1>8, <1>9, <2>1
    <3>2. Newest(n + 1)'
      BY <1>11, <3>1 DEF Newest
    <3> QED BY <1>8, <1>11, <3>1, <3>2
  <2>2. CASE b.anchor # NoPhrase
    <3>1. PICK j \in 1..n : Newest(j) /\ asked[j].digression = b.dig
      BY <1>1, <1>12, <2>2 DEF Remembers
    <3>2. ~e.opening
      BY <1>8, <1>9, <2>2
    <3>3. ASSUME NEW k \in (j + 1)..(n + 1) PROVE ~asked'[k].opening
      <4>1. CASE k = n + 1
        BY <1>11, <3>2, <4>1
      <4>2. CASE k # n + 1
        <5>1. k \in 1..n /\ k \in (j + 1)..n
          BY <3>1, <4>2
        <5> QED BY <1>1, <1>11, <3>1, <5>1 DEF Newest
      <4> QED BY <4>1, <4>2
    <3>4. asked'[j] = asked[j] /\ j \in 1..(n + 1)
      BY <1>11, <3>1
    <3>5. Newest(j)'
      BY <1>11, <3>1, <3>3, <3>4 DEF Newest
    <3>6. asked'[j].digression = s.dig
      BY <1>9, <2>2, <3>1, <3>4
    <3> QED BY <3>4, <3>5, <3>6
  <2> QED BY <2>1, <2>2
<1>16. Remembers(enc.locals)'
  BY <1>8, <1>10, <1>11, <1>15 DEF Remembers
<1>17. ASSUME NEW i \in 1..(n + 1) PROVE Isolated(i)'
  <2>1. i \in 1..n \/ i = n + 1
    OBVIOUS
  <2> QED BY <1>13, <1>14, <2>1
<1>18. Len(asked)' = n + 1
  BY <1>11
<1> QED BY <1>11, <1>16, <1>17, <1>18

LEMMA InitDInv == Init => DInv
<1> SUFFICES ASSUME Init PROVE DInv
  OBVIOUS
<1>1. asked = <<>> /\ Len(asked) = 0 /\ enc.locals = FreshLocals(style)
  BY DEF Init
<1>2. IsSeq(<<>>)
  <2>1. <<>> \in Seq({})
    OBVIOUS
  <2> QED BY <2>1 DEF IsSeq
<1>3. NoSentence
  BY <1>1 DEF NoSentence
<1>4. ASSUME style = "styled" PROVE Remembers(enc.locals)
  BY <1>1, <1>3, <1>4, FreshIs DEF Remembers
<1> QED BY <1>1, <1>2, <1>3, <1>4 DEF DInv

LEMMA NextDInv == SInv /\ DInv /\ [Next]_vars => DInv'
<1> SUFFICES ASSUME SInv, DInv, [Next]_vars PROVE DInv'
  OBVIOUS
<1>0. style' = style
  BY Zenon DEF Next, vars, session, BeginEncode, EncodePhrase, EncodeSyllable, EncodeFails, EncodeReturns,
         BeginDecode, DecodePhrase, DecodeSyllable, DecodeEndOfWord, SkipEndOfWord, DecodeFails, DecodeReturns
<1>1. CASE EncodePhrase
  <2>1. style = "styled"
    BY <1>1 DEF EncodePhrase, Styled
  <2> QED BY <1>0, <1>1, <2>1, PhraseOpens DEF DInv
<1>2. CASE EncodeSyllable
  <2>1. style # "styled"
    BY <1>2 DEF EncodeSyllable, Styled
  <2>2. PICK e : asked' = Append(asked, e) /\ ~e.opening
    BY <1>2 DEF EncodeSyllable
  <2>3. PICK n \in Nat : n = Len(asked) /\ IsSeq(asked') /\ Len(asked') = n + 1
                         /\ (\A i \in 1..n : asked'[i] = asked[i]) /\ asked'[n + 1] = e
    BY <2>2, AppendAny DEF DInv
  <2>4. ASSUME NEW i \in 1..(n + 1) PROVE ~asked'[i].opening
    <3>1. i \in 1..n \/ i = n + 1
      OBVIOUS
    <3> QED BY <2>1, <2>2, <2>3, <3>1 DEF DInv, NoSentence
  <2> QED BY <1>0, <2>1, <2>3, <2>4 DEF DInv, NoSentence, Isolated
<1>3. CASE ~EncodePhrase /\ ~EncodeSyllable
  <2>1. asked' = asked
    BY <1>3, Zenon DEF Next, vars, BeginEncode, EncodeFails, EncodeReturns,
         BeginDecode, DecodePhrase, DecodeSyllable, DecodeEndOfWord, SkipEndOfWord, DecodeFails, DecodeReturns
  <2>2. style = "styled" => enc'.locals = enc.locals
    <3> SUFFICES ASSUME style = "styled" PROVE enc'.locals = enc.locals
      OBVIOUS
    <3>1. IsEnc(enc)
      BY DEF SInv, Encoded
    <3>2. CASE UNCHANGED enc
      BY <3>2
    <3>3. CASE BeginEncode \/ EncodeFails \/ EncodeReturns
      BY <3>1, <3>3, EncoderBegins, EncoderReturns, Zenon
    <3> QED BY <1>3, <3>2, <3>3, Zenon DEF Next, vars, BeginDecode, DecodePhrase, DecodeSyllable, DecodeEndOfWord,
                                    SkipEndOfWord, DecodeFails, DecodeReturns
  <2>3. Remembers(enc.locals) /\ style = "styled" => Remembers(enc.locals)'
    BY <2>1, <2>2 DEF Remembers, NoSentence, Newest
  <2> QED BY <1>0, <2>1, <2>3 DEF DInv, NoSentence, Isolated
<1> QED BY <1>1, <1>2, <1>3

(* The model is asked to digress only when a sentence opens that comes     *)
(* right behind one on the topic (encode.c:113-123, meteor_core.c:359-366).*)
THEOREM DigressionsApart == Spec => []DigressionsAreIsolated
<1>1. Init => DInv
  BY InitDInv
<1>2. SInv /\ DInv /\ [Next]_vars => DInv'
  BY NextDInv
<1>3. DInv => DigressionsAreIsolated
  <2> SUFFICES ASSUME DInv, NEW i \in DOMAIN asked PROVE Isolated(i)
    BY DEF DigressionsAreIsolated, Isolated
  <2>1. PICK S : asked \in Seq(S)
    BY DEF DInv, IsSeq
  <2>2. i \in 1..Len(asked)
    BY <2>1, LenProperties
  <2> QED BY <2>2 DEF DInv
<1> QED BY <1>1, <1>2, <1>3, StyledSound, PTL DEF Spec


(***************************************************************************)
(* The syllable mode.  The decoder has only the words of the covertext,    *)
(* and stands at each step where the encoder stood.                        *)
(***************************************************************************)
-----------------------------------------------------------------------------
(***************************************************************************)
(* The words of a text: the runs of its letters, position by position.     *)
(***************************************************************************)
Letters == {c \in Char : IsAlpha(c)}

Texts == Seq(Char)

RunStep(text, k, r) ==
  IF ~IsAlpha(text[k]) THEN r
  ELSE IF k > 1 /\ IsAlpha(text[k - 1]) THEN Prolonged(r, text[k])
  ELSE Append(r, <<text[k]>>)

LEMMA AppendOf ==
  ASSUME NEW S, NEW s \in Seq(S), NEW e \in S, NEW n, n = Len(s)
  PROVE  /\ n \in Nat /\ Append(s, e) \in Seq(S) /\ Len(Append(s, e)) = n + 1
         /\ \A i \in 1..n : Append(s, e)[i] = s[i]
         /\ Append(s, e)[n + 1] = e
BY AppendProperties, LenProperties

LEMMA ProlongedIs ==
  ASSUME NEW S, NEW r \in Seq(Seq(S)), NEW c \in S
  PROVE  /\ Prolonged(r, c) \in Seq(Seq(S))
         /\ \A x \in Seq(S) : Prolonged(Append(r, x), c) = Append(r, Append(x, c))
<1>1. PICK U : U = Seq(S)
  OBVIOUS
<1>2. \A x \in U : Append(x, c) \in U
  BY <1>1
<1>3. ASSUME NEW q \in Seq(U) PROVE Prolonged(q, c) \in Seq(U) /\ Len(Prolonged(q, c)) = Len(q)
  <2>1. PICK n \in Nat : n = Len(q) /\ q \in [1..n -> U]
    OBVIOUS
  <2>2. PICK p : p = [i \in 1..n |-> IF i = n THEN Append(q[n], c) ELSE q[i]]
    BY Zenon
  <2>3. p \in [1..n -> U]
    BY <1>2, <2>1, <2>2, Zenon
  <2>4. Prolonged(q, c) = p
    BY <2>1, <2>2, Zenon DEF Prolonged
  <2>5. p \in Seq(U) /\ Len(p) = n
    BY <2>3
  <2> QED BY <2>1, <2>4, <2>5
<1>4. ASSUME NEW x \in U PROVE Prolonged(Append(r, x), c) = Append(r, Append(x, c))
  <2>1. PICK n \in Nat : n = Len(r) /\ r \in Seq(U)
    BY <1>1
  <2>2. PICK q \in Seq(U) : /\ q = Append(r, x) /\ Len(q) = n + 1 /\ q[n + 1] = x
                            /\ \A i \in 1..n : q[i] = r[i]
    <3>1. /\ Append(r, x) \in Seq(U) /\ Len(Append(r, x)) = n + 1 /\ Append(r, x)[n + 1] = x
          /\ \A i \in 1..n : Append(r, x)[i] = r[i]
      BY <2>1, AppendOf
    <3> QED BY <3>1, Zenon
  <2>3. PICK y \in U : y = Append(x, c)
    BY <1>2, Zenon
  <2>4. PICK z \in Seq(U) : /\ z = Append(r, y) /\ Len(z) = n + 1 /\ z[n + 1] = y
                            /\ \A i \in 1..n : z[i] = r[i]
    <3>1. /\ Append(r, y) \in Seq(U) /\ Len(Append(r, y)) = n + 1 /\ Append(r, y)[n + 1] = y
          /\ \A i \in 1..n : Append(r, y)[i] = r[i]
      BY <2>1, AppendOf
    <3> QED BY <3>1, Zenon
  <2>5. PICK p \in Seq(U) : p = Prolonged(q, c) /\ Len(p) = n + 1
    BY <1>3, <2>2, Zenon
  <2>6. \A i \in 1..(n + 1) : p[i] = z[i]
    <3>1. DOMAIN q = 1..(n + 1)
      BY <2>2
    <3>2. p = [q EXCEPT ![n + 1] = Append(@, c)]
      BY <2>2, <2>5, Zenon DEF Prolonged
    <3>3. \A i \in 1..(n + 1) : p[i] = IF i = n + 1 THEN Append(q[i], c) ELSE q[i]
      BY <3>1, <3>2
    <3>4. ASSUME NEW i \in 1..(n + 1) PROVE p[i] = z[i]
      <4>1. CASE i = n + 1
        BY <2>2, <2>3, <2>4, <3>3, <4>1
      <4>2. CASE i # n + 1
        <5>1. i \in 1..n
          BY <4>2
        <5> QED BY <2>2, <2>4, <3>3, <4>2, <5>1
      <4> QED BY <4>1, <4>2
    <3> QED BY <3>4
  <2>7. p = z
    BY <2>4, <2>5, <2>6, SeqEqual
  <2> QED BY <2>2, <2>3, <2>4, <2>5, <2>7
<1> QED BY <1>1, <1>3, <1>4

LEMMA RunStepType ==
  ASSUME NEW text \in Texts, NEW k \in 1..Len(text), NEW r \in Seq(Texts)
  PROVE  RunStep(text, k, r) \in Seq(Texts)
<1>1. PICK c \in Char : c = text[k]
  BY DEF Texts
<1>2. <<c>> \in Texts
  BY One DEF Texts
<1>3. Prolonged(r, c) \in Seq(Texts)
  BY ProlongedIs DEF Texts
<1>4. Append(r, <<c>>) \in Seq(Texts)
  BY <1>2, AppendProperties
<1> QED BY <1>1, <1>3, <1>4 DEF RunStep

(* The recursive function of Runs, by its equations.                       *)
Traces(g, text) ==
  /\ g \in [0..Len(text) -> Seq(Texts)] /\ g[0] = <<>>
  /\ \A k \in 1..Len(text) : g[k] = RunStep(text, k, g[k - 1])

LEMMA TraceExists ==
  ASSUME NEW text \in Texts
  PROVE  \E g : Traces(g, text)
<1>0. PICK n \in Nat : n = Len(text)
  BY DEF Texts
<1> DEFINE Solves(g, m) == /\ g \in [0..m -> Seq(Texts)] /\ g[0] = <<>>
                           /\ \A k \in 1..m : g[k] = RunStep(text, k, g[k - 1])
           T == {m \in 0..n : \E g : Solves(g, m)}
<1>1. 0 \in T
  <2>1. PICK e \in Seq(Texts) : e = <<>>
    <3>1. <<>> \in Seq(Texts)
      OBVIOUS
    <3> QED BY <3>1, Zenon
  <2>2. Solves([j \in 0..0 |-> e], 0)
    BY <2>1
  <2> HIDE DEF Solves
  <2> QED BY <2>2
<1>2. ASSUME NEW m \in 1..n, m - 1 \in T PROVE m \in T
  <2>1. PICK g : Solves(g, m - 1)
    BY <1>2, Zenon
  <2>2. PICK next : next = RunStep(text, m, g[m - 1])
    OBVIOUS
  <2>3. next \in Seq(Texts)
    <3>1. g[m - 1] \in Seq(Texts)
      BY <2>1
    <3> QED BY <1>0, <2>2, <3>1, RunStepType
  <2>4. PICK h : h = [j \in 0..m |-> IF j = m THEN next ELSE g[j]]
    BY Zenon
  <2>5. ASSUME NEW j \in 0..m, j # m PROVE h[j] = g[j] /\ h[j] \in Seq(Texts)
    <3>1. j \in 0..(m - 1)
      BY <2>5
    <3> QED BY <2>1, <2>4, <2>5, <3>1
  <2>6. h[m] = next
    BY <2>4
  <2>7. h \in [0..m -> Seq(Texts)] /\ h[0] = <<>>
    <3>1. \A j \in 0..m : h[j] \in Seq(Texts)
      BY <2>3, <2>5, <2>6
    <3>2. 0 # m /\ h[0] = g[0]
      BY <2>5
    <3> QED BY <2>1, <2>4, <3>1, <3>2, Zenon
  <2>8. ASSUME NEW j \in 1..m PROVE h[j] = RunStep(text, j, h[j - 1])
    <3>1. h[j - 1] = g[j - 1]
      BY <2>5
    <3>2. CASE j = m
      BY <2>2, <2>6, <3>1, <3>2
    <3>3. CASE j # m
      <4>1. j \in 1..(m - 1) /\ h[j] = g[j]
        BY <2>5, <3>3
      <4> QED BY <2>1, <3>1, <4>1
    <3> QED BY <3>2, <3>3
  <2>9. Solves(h, m)
    BY <2>7, <2>8, Zenon
  <2> HIDE DEF Solves
  <2> QED BY <2>9
<1>3. n \in T
  <2> HIDE DEF T
  <2>1. \A j \in 0..n : j \in T
    BY <1>1, <1>2, UpTo
  <2> QED BY <2>1
<1> QED BY <1>0, <1>3 DEF Traces

LEMMA TracesAgree ==
  ASSUME NEW text \in Texts, NEW other \in Texts, NEW g, NEW h, Traces(g, text), Traces(h, other),
         NEW n \in Nat, n <= Len(text), n <= Len(other), \A k \in 1..n : text[k] = other[k]
  PROVE  \A k \in 0..n : g[k] = h[k]
<1>1. Len(text) \in Nat /\ Len(other) \in Nat
  BY DEF Texts
<1> DEFINE T == {k \in 0..n : g[k] = h[k]}
<1>2. 0 \in T
  BY DEF Traces
<1>3. ASSUME NEW k \in 1..n, k - 1 \in T PROVE k \in T
  <2>1. g[k] = RunStep(text, k, g[k - 1]) /\ h[k] = RunStep(other, k, h[k - 1])
    BY <1>1 DEF Traces
  <2>2. text[k] = other[k] /\ g[k - 1] = h[k - 1]
    BY <1>3
  <2>3. k > 1 => text[k - 1] = other[k - 1]
    <3>1. k > 1 => k - 1 \in 1..n
      OBVIOUS
    <3> QED BY <3>1
  <2>4. RunStep(text, k, g[k - 1]) = RunStep(other, k, h[k - 1])
    BY <2>2, <2>3 DEF RunStep
  <2> QED BY <2>1, <2>4
<1>4. \A k \in 0..n : k \in T
  <2> HIDE DEF T
  <2> QED BY <1>2, <1>3, UpTo, Zenon
<1> QED BY <1>4

LEMMA RunsIs ==
  ASSUME NEW text \in Texts, NEW g, Traces(g, text)
  PROVE  Runs(text, IsAlpha) = g[Len(text)] /\ Runs(text, IsAlpha) \in Seq(Texts)
<1> DEFINE P(f) == f = [k \in 0..Len(text) |->
                          IF k = 0 THEN <<>>
                          ELSE IF ~IsAlpha(text[k]) THEN f[k - 1]
                          ELSE IF k > 1 /\ IsAlpha(text[k - 1]) THEN Prolonged(f[k - 1], text[k])
                          ELSE Append(f[k - 1], <<text[k]>>)]
           H == CHOOSE f : P(f)
<1>0. PICK n \in Nat : n = Len(text)
  BY DEF Texts
<1>1. P(g)
  <2>1. PICK p : p = [k \in 0..Len(text) |->
                        IF k = 0 THEN <<>>
                        ELSE IF ~IsAlpha(text[k]) THEN g[k - 1]
                        ELSE IF k > 1 /\ IsAlpha(text[k - 1]) THEN Prolonged(g[k - 1], text[k])
                        ELSE Append(g[k - 1], <<text[k]>>)]
    BY Zenon
  <2>2. g = [k \in 0..n |-> g[k]]
    BY <1>0 DEF Traces
  <2>3. ASSUME NEW k \in 0..n PROVE p[k] = g[k]
    <3>1. CASE k = 0
      BY <1>0, <2>1, <3>1 DEF Traces
    <3>2. CASE k # 0
      <4>1. k \in 1..n
        BY <3>2
      <4>2. g[k] = RunStep(text, k, g[k - 1])
        BY <1>0, <4>1 DEF Traces
      <4> QED BY <1>0, <2>1, <3>2, <4>2 DEF RunStep
    <3> QED BY <3>1, <3>2
  <2>4. g = p
    BY <1>0, <2>1, <2>2, <2>3, Zenon
  <2> QED BY <2>1, <2>4, Zenon
<1>2. P(H)
  <2> HIDE DEF P
  <2> QED BY <1>1
<1>3. PICK h : h = H
  OBVIOUS
<1>4. Traces(h, text)
  <2>1. h = [k \in 0..n |->
               IF k = 0 THEN <<>>
               ELSE IF ~IsAlpha(text[k]) THEN h[k - 1]
               ELSE IF k > 1 /\ IsAlpha(text[k - 1]) THEN Prolonged(h[k - 1], text[k])
               ELSE Append(h[k - 1], <<text[k]>>)]
    BY <1>0, <1>2, <1>3, Zenon
  <2>2. h[0] = <<>> /\ \A k \in 1..n : h[k] = RunStep(text, k, h[k - 1])
    <3>1. h[0] = <<>>
      BY <2>1
    <3>2. ASSUME NEW k \in 1..n PROVE h[k] = RunStep(text, k, h[k - 1])
      <4>1. k \in 0..n /\ k # 0
        OBVIOUS
      <4>2. PICK r, c : r = h[k - 1] /\ c = text[k]
        OBVIOUS
      <4>3. h[k] = IF ~IsAlpha(text[k]) THEN h[k - 1]
                   ELSE IF k > 1 /\ IsAlpha(text[k - 1]) THEN Prolonged(h[k - 1], text[k])
                   ELSE Append(h[k - 1], <<text[k]>>)
        BY <2>1, <4>1, Zenon
      <4> QED BY <4>3 DEF RunStep
    <3> QED BY <3>1, <3>2
  <2> DEFINE T == {k \in 0..n : h[k] \in Seq(Texts)}
  <2>3. 0 \in T
    <3>1. <<>> \in Seq(Texts)
      OBVIOUS
    <3>2. h[0] = <<>> /\ 0 \in 0..n
      BY <2>2
    <3> QED BY <3>1, <3>2, Zenon
  <2>4. ASSUME NEW k \in 1..n, k - 1 \in T PROVE k \in T
    <3>1. RunStep(text, k, h[k - 1]) \in Seq(Texts)
      BY <1>0, <2>4, RunStepType
    <3> QED BY <2>2, <3>1
  <2>5. \A k \in 0..n : k \in T
    <3> HIDE DEF T
    <3> QED BY <2>3, <2>4, UpTo
  <2>6. h = [k \in 0..n |-> h[k]]
    BY <2>1
  <2>7. h \in [0..n -> Seq(Texts)]
    BY <2>5, <2>6
  <2> QED BY <1>0, <2>2, <2>7 DEF Traces
<1>5. h[n] = g[n]
  <2>1. n <= Len(text) /\ \A k \in 1..n : text[k] = text[k]
    BY <1>0
  <2>2. \A k \in 0..n : h[k] = g[k]
    BY <1>4, <2>1, TracesAgree
  <2> QED BY <2>2
<1>6. Runs(text, IsAlpha) = h[n]
  BY <1>0, <1>3 DEF Runs
<1>7. g[n] \in Seq(Texts)
  BY <1>0 DEF Traces
<1> QED BY <1>0, <1>5, <1>6, <1>7

(* Letters behind something else, or at the start of a text, are a run of  *)
(* their own.                                                              *)
LEMMA LastRun ==
  ASSUME NEW text \in Texts, NEW g, Traces(g, text), NEW w \in Seq(Letters), w # <<>>,
         NEW a \in Nat, Len(text) = a + Len(w), a > 0 => ~IsAlpha(text[a]),
         \A j \in 1..Len(w) : text[a + j] = w[j]
  PROVE  g[Len(text)] = Append(g[a], w)
<1>1. PICK n \in Nat : n = Len(w) /\ n >= 1 /\ Len(text) = a + n /\ w \in [1..n -> Letters]
  <2>1. PICK n \in Nat : n = Len(w)
    OBVIOUS
  <2>2. w \in [1..n -> Letters] /\ n # 0
    BY <2>1
  <2> QED BY <2>1, <2>2
<1>2. \A j \in 1..n : w[j] \in Char /\ IsAlpha(w[j])
  BY <1>1 DEF Letters
<1>3. PICK r \in Seq(Texts) : r = g[a]
  <2>1. a \in 0..Len(text)
    BY <1>1
  <2> QED BY <2>1 DEF Traces
<1>4. PICK f : f = [j \in 0..n |-> SubSeq(w, 1, j)]
  BY Zenon
<1>5. ASSUME NEW j \in 0..n
      PROVE  f[j] \in Texts /\ Len(f[j]) = j /\ \A i \in 1..j : f[j][i] = w[i]
  <2>1. j \in 0..Len(w) /\ w \in Seq(Char)
    <3>1. w \in [1..n -> Char]
      BY <1>1, <1>2
    <3> QED BY <1>1, <3>1
  <2>2. /\ SubSeq(w, 1, j) \in Seq(Char) /\ Len(SubSeq(w, 1, j)) = j
        /\ \A i \in 1..j : SubSeq(w, 1, j)[i] = w[i]
    BY <2>1, SubSeqFirst
  <2> QED BY <1>4, <2>2 DEF Texts
<1>6. f[0] = <<>>
  BY <1>5 DEF Texts
<1>7. ASSUME NEW j \in 1..n PROVE f[j] = Append(f[j - 1], w[j])
  <2>1. PICK p, c : p = f[j - 1] /\ c = w[j] /\ p \in Seq(Char) /\ c \in Char /\ Len(p) = j - 1
                    /\ \A i \in 1..(j - 1) : p[i] = w[i]
    BY <1>2, <1>5 DEF Texts
  <2>2. /\ Append(p, c) \in Seq(Char) /\ Len(Append(p, c)) = (j - 1) + 1
        /\ \A i \in 1..(j - 1) : Append(p, c)[i] = p[i] /\ Append(p, c)[(j - 1) + 1] = c
    BY <2>1, AppendOf
  <2>3. PICK q : q = f[j] /\ q \in Seq(Char) /\ Len(q) = j /\ \A i \in 1..j : q[i] = w[i]
    BY <1>5 DEF Texts
  <2>4. PICK s : s = Append(p, c)
    BY Zenon
  <2>5. ASSUME NEW i \in 1..j PROVE q[i] = s[i]
    <3>1. s[j] = c
      <4>1. /\ Append(p, c)[(j - 1) + 1] = c
        BY <2>1, AppendOf
      <4>2. (j - 1) + 1 = j
        OBVIOUS
      <4> QED BY <2>4, <4>1, <4>2, Zenon
    <3>2. CASE i = j
      BY <2>1, <2>3, <3>1, <3>2
    <3>3. CASE i # j
      <4>1. i \in 1..(j - 1)
        BY <3>3
      <4> QED BY <2>1, <2>2, <2>3, <2>4, <4>1
    <3> QED BY <3>2, <3>3
  <2>6. s \in Seq(Char) /\ Len(s) = j
    BY <2>2, <2>4
  <2>7. q = s
    BY <2>3, <2>5, <2>6, SeqEqual
  <2> QED BY <2>1, <2>3, <2>4, <2>7
<1> DEFINE T == {j \in 0..n : j >= 1 => g[a + j] = Append(r, f[j])}
<1>8. 0 \in T
  OBVIOUS
<1>9. ASSUME NEW j \in 1..n, j - 1 \in T PROVE j \in T
  <2>1. PICK k \in 1..Len(text) : k = a + j /\ k - 1 = a + (j - 1)
    BY <1>1
  <2>2. g[k] = RunStep(text, k, g[k - 1]) /\ text[k] = w[j] /\ IsAlpha(text[k])
    BY <1>1, <1>2, <2>1 DEF Traces
  <2>3. CASE j = 1
    <3>1. k - 1 = a /\ (k > 1 => a > 0)
      BY <2>1, <2>3
    <3>2. ~(k > 1 /\ IsAlpha(text[k - 1]))
      BY <3>1
    <3>3. g[k] = Append(r, <<text[k]>>)
      BY <1>3, <2>2, <3>1, <3>2, Zenon DEF RunStep
    <3>4. f[1] = <<w[1]>>
      <4>1. f[1] = Append(f[0], w[1])
        <5>1. 1 \in 1..n /\ 1 - 1 = 0
          BY <1>1
        <5> QED BY <1>7, <5>1
      <4>2. Append(<<>>, w[1]) = <<w[1]>>
        OBVIOUS
      <4> QED BY <1>6, <4>1, <4>2
    <3>5. g[a + j] = Append(r, f[j])
      BY <2>1, <2>2, <2>3, <3>3, <3>4
    <3> HIDE DEF T
    <3>6. T = {i \in 0..n : i >= 1 => g[a + i] = Append(r, f[i])}
      BY DEF T
    <3> QED BY <3>5, <3>6
  <2>4. CASE j # 1
    <3>1. j - 1 \in 1..n
      BY <2>4
    <3>2. IsAlpha(text[k - 1]) /\ k > 1
      <4>1. text[a + (j - 1)] = w[j - 1] /\ IsAlpha(w[j - 1])
        BY <1>1, <1>2, <3>1, Zenon
      <4>2. k > 1
        BY <2>1, <2>4
      <4> QED BY <2>1, <4>1, <4>2
    <3>3. g[k - 1] = Append(r, f[j - 1])
      BY <1>9, <2>1, <3>1
    <3>4. g[k] = Prolonged(Append(r, f[j - 1]), w[j])
      BY <2>2, <3>2, <3>3 DEF RunStep
    <3>5. f[j - 1] \in Seq(Char) /\ w[j] \in Char /\ r \in Seq(Seq(Char))
      BY <1>2, <1>3, <1>5, <3>1 DEF Texts
    <3>6. Prolonged(Append(r, f[j - 1]), w[j]) = Append(r, Append(f[j - 1], w[j]))
      <4>1. PICK x \in Seq(Char), c \in Char, q \in Seq(Seq(Char)) : x = f[j - 1] /\ c = w[j] /\ q = r
        BY <3>5, Zenon
      <4>2. \A y \in Seq(Char) : Prolonged(Append(q, y), c) = Append(q, Append(y, c))
        BY ProlongedIs, Zenon
      <4>3. Prolonged(Append(q, x), c) = Append(q, Append(x, c))
        BY <4>2
      <4> QED BY <4>1, <4>3
    <3>7. g[a + j] = Append(r, f[j])
      BY <1>7, <2>1, <3>4, <3>6, Zenon
    <3> HIDE DEF T
    <3>8. T = {i \in 0..n : i >= 1 => g[a + i] = Append(r, f[i])}
      BY DEF T
    <3> QED BY <3>7, <3>8
  <2> QED BY <2>3, <2>4
<1>10. n \in T
  <2>1. \A j \in 0..n : j \in T
    <3> HIDE DEF T
    <3> QED BY <1>8, <1>9, UpTo, Zenon
  <2>2. n \in 0..n
    OBVIOUS
  <2> HIDE DEF T
  <2> QED BY <2>1, <2>2
<1>11. f[n] = w
  BY <1>1, <1>4, SubSeqFull
<1> QED BY <1>1, <1>3, <1>10, <1>11

LEMMA RunsJoined ==
  ASSUME NEW t \in Texts, NEW w \in Seq(Letters), w # <<>>
  PROVE  Joined(t, w) \in Texts /\ Runs(Joined(t, w), IsAlpha) = Append(Runs(t, IsAlpha), w)
<1>1. w \in Texts /\ \A j \in 1..Len(w) : IsAlpha(w[j])
  BY DEF Texts, Letters
<1>2. CASE t = <<>>
  <2>1. Joined(t, w) = w
    BY <1>2 DEF Joined
  <2>2. PICK g : Traces(g, w)
    BY <1>1, TraceExists
  <2>3. PICK h : Traces(h, t)
    BY TraceExists
  <2>4. Len(t) = 0 /\ h[0] = <<>> /\ g[0] = <<>>
    BY <1>2, <2>2, <2>3 DEF Traces
  <2>5. Runs(t, IsAlpha) = g[0]
    BY <2>3, <2>4, RunsIs
  <2>6. g[Len(w)] = Append(g[0], w)
    <3>1. PICK a \in Nat : a = 0
      OBVIOUS
    <3>2. Len(w) = a + Len(w) /\ (a > 0 => ~IsAlpha(w[a])) /\ \A j \in 1..Len(w) : w[a + j] = w[j]
      <4>1. Len(w) \in Nat
        OBVIOUS
      <4> QED BY <3>1, <4>1
    <3>3. g[Len(w)] = Append(g[a], w)
      BY <1>1, <2>2, <3>2, LastRun
    <3> QED BY <3>1, <3>3
  <2> QED BY <1>1, <2>1, <2>2, <2>5, <2>6, RunsIs
<1>3. CASE t # <<>>
  <2>1. PICK s \in Seq(Char) : s = <<Space>> /\ Len(s) = 1 /\ s[1] = Space
    BY Chars, One, Zenon
  <2>2. PICK v \in Texts : v = t \o s /\ Len(v) = Len(t) + 1
                           /\ \A k \in 1..(Len(t) + 1) : v[k] = IF k <= Len(t) THEN t[k] ELSE s[k - Len(t)]
    <3>1. /\ t \o s \in Seq(Char) /\ Len(t \o s) = Len(t) + Len(s)
          /\ \A k \in 1..(Len(t) + Len(s)) : (t \o s)[k] = IF k <= Len(t) THEN t[k] ELSE s[k - Len(t)]
      BY ConcatProperties DEF Texts
    <3> QED BY <2>1, <3>1, Zenon DEF Texts
  <2>3. PICK u \in Texts : u = v \o w /\ Len(u) = Len(v) + Len(w)
                           /\ \A k \in 1..(Len(v) + Len(w)) : u[k] = IF k <= Len(v) THEN v[k] ELSE w[k - Len(v)]
    <3>1. /\ v \o w \in Seq(Char) /\ Len(v \o w) = Len(v) + Len(w)
          /\ \A k \in 1..(Len(v) + Len(w)) : (v \o w)[k] = IF k <= Len(v) THEN v[k] ELSE w[k - Len(v)]
      BY <1>1, ConcatProperties DEF Texts
    <3> QED BY <3>1, Zenon DEF Texts
  <2>4. Joined(t, w) = u
    BY <1>3, <2>1, <2>2, <2>3 DEF Joined
  <2>5. PICK m \in Nat, n \in Nat, a \in Nat : m = Len(t) /\ n = Len(w) /\ a = m + 1 /\ Len(v) = a /\ Len(u) = a + n
    <3>1. Len(t) \in Nat /\ Len(w) \in Nat
      BY DEF Texts
    <3>2. PICK m \in Nat, n \in Nat : m = Len(t) /\ n = Len(w)
      BY <3>1
    <3>3. Len(v) = m + 1
      BY <2>2, <3>2
    <3>4. Len(u) = (m + 1) + n
      BY <2>3, <3>2, <3>3
    <3>5. PICK a \in Nat : a = m + 1
      OBVIOUS
    <3> QED BY <3>2, <3>3, <3>4, <3>5, Zenon
  <2>6. /\ \A k \in 1..m : u[k] = t[k]
        /\ u[a] = Space
        /\ \A j \in 1..n : u[a + j] = w[j]
    <3>1. ASSUME NEW k \in 1..m PROVE u[k] = t[k]
      <4>1. k \in 1..(a + n) /\ k <= a /\ k \in 1..(m + 1) /\ k <= m
        BY <2>5
      <4> QED BY <2>2, <2>3, <2>5, <4>1
    <3>2. u[a] = Space
      <4>1. a \in 1..(a + n) /\ a <= a /\ a \in 1..(m + 1) /\ ~(a <= m) /\ a - m = 1
        BY <2>5
      <4> QED BY <2>1, <2>2, <2>3, <2>5, <4>1
    <3>3. ASSUME NEW j \in 1..n PROVE u[a + j] = w[j]
      <4>1. a + j \in 1..(a + n) /\ ~(a + j <= a) /\ (a + j) - a = j
        OBVIOUS
      <4> QED BY <2>3, <2>5, <4>1, Zenon
    <3> QED BY <3>1, <3>2, <3>3
  <2>7. PICK g : Traces(g, u)
    BY TraceExists
  <2>8. PICK h : Traces(h, t)
    BY TraceExists
  <2>9. g[m] = h[m]
    <3>1. \A k \in 0..m : g[k] = h[k]
      <4>1. m <= Len(u) /\ m <= Len(t)
        BY <2>5
      <4> QED BY <2>6, <2>7, <2>8, <4>1, TracesAgree
    <3> QED BY <3>1
  <2>10. g[a] = g[m]
    <3>1. a \in 1..Len(u) /\ a - 1 = m
      BY <2>5
    <3>2. g[a] = RunStep(u, a, g[a - 1])
      BY <2>7, <3>1 DEF Traces
    <3>3. ~IsAlpha(u[a])
      BY <2>6 DEF IsAlpha
    <3> QED BY <3>1, <3>2, <3>3 DEF RunStep
  <2>11. g[Len(u)] = Append(g[a], w)
    <3>1. a > 0 => ~IsAlpha(u[a])
      BY <2>6 DEF IsAlpha
    <3>2. Len(u) = a + Len(w) /\ \A j \in 1..Len(w) : u[a + j] = w[j]
      BY <2>5, <2>6
    <3> QED BY <2>7, <3>1, <3>2, LastRun, Zenon
  <2> QED BY <2>4, <2>5, <2>7, <2>8, <2>9, <2>10, <2>11, RunsIs, Zenon
<1> QED BY <1>2, <1>3

(***************************************************************************)
(* What the decoder takes for the covertext's words.                       *)
(***************************************************************************)
ContextWords == Len(Runs(Context, IsAlpha))

(* A text that the context opens, as far as its words go.                  *)
Opened(t) == t \in Texts /\ ContextWords <= Len(Runs(t, IsAlpha))

LEMMA WordsJoined ==
  ASSUME NEW t, Opened(t), NEW w \in Seq(Letters), w # <<>>
  PROVE  /\ Opened(Joined(t, w)) /\ ExtractWords(t) \in Seq(Texts)
         /\ ExtractWords(Joined(t, w)) = Append(ExtractWords(t), w)
<1>1. t \in Texts /\ Context \in Texts /\ w \in Texts
  <2>1. t \in Texts /\ Context \in Texts
    BY SessionAssumption DEF Opened, Texts
  <2>2. w \in Seq(Char)
    <3>1. Letters \subseteq Char
      BY DEF Letters
    <3> QED BY <3>1, SeqMonotonic
  <2> QED BY <2>1, <2>2 DEF Texts
<1>2. PICK r \in Seq(Texts), q \in Seq(Texts) : r = Runs(t, IsAlpha) /\ q = Runs(Context, IsAlpha)
  BY <1>1, TraceExists, RunsIs
<1>3. PICK u \in Texts : u = Joined(t, w) /\ Runs(u, IsAlpha) = Append(r, w)
  BY <1>1, <1>2, RunsJoined, Zenon
<1>4. PICK m \in Nat, n \in Nat : m = Len(q) /\ n = Len(r) /\ m <= n /\ m = ContextWords
  BY <1>2 DEF Opened, ContextWords
<1>5. PICK s \in Seq(Texts) : /\ s = Append(r, w) /\ Len(s) = n + 1 /\ s[n + 1] = w
                              /\ \A i \in 1..n : s[i] = r[i]
  <2>1. /\ Append(r, w) \in Seq(Texts) /\ Len(Append(r, w)) = n + 1 /\ Append(r, w)[n + 1] = w
        /\ \A i \in 1..n : Append(r, w)[i] = r[i]
    BY <1>1, <1>4, AppendOf
  <2> QED BY <2>1, Zenon
<1>6. PICK x \in Seq(Texts) : x = Drop(r, m) /\ Len(x) = n - m /\ \A i \in 1..(n - m) : x[i] = r[m + i]
  <2>1. m \in 0..Len(r)
    BY <1>4
  <2>2. /\ Drop(r, m) \in Seq(Texts) /\ Len(Drop(r, m)) = Len(r) - m
        /\ \A i \in 1..(Len(r) - m) : Drop(r, m)[i] = r[m + i]
    BY <2>1, DropIs
  <2> QED BY <1>4, <2>2, Zenon
<1>7. PICK y \in Seq(Texts) : y = Drop(s, m) /\ Len(y) = n + 1 - m /\ \A i \in 1..(n + 1 - m) : y[i] = s[m + i]
  <2>1. m \in 0..Len(s)
    BY <1>4, <1>5
  <2>2. /\ Drop(s, m) \in Seq(Texts) /\ Len(Drop(s, m)) = Len(s) - m
        /\ \A i \in 1..(Len(s) - m) : Drop(s, m)[i] = s[m + i]
    BY <2>1, DropIs, Zenon
  <2>3. PICK d : d = Drop(s, m)
    OBVIOUS
  <2>4. PICK l \in Nat : l = Len(s) /\ l = n + 1
    BY <1>5
  <2>5. Len(d) = l - m /\ \A i \in 1..(l - m) : d[i] = s[m + i]
    BY <2>2, <2>3, <2>4
  <2>6. d \in Seq(Texts)
    BY <2>2, <2>3
  <2>7. Len(d) = n + 1 - m /\ \A i \in 1..(n + 1 - m) : d[i] = s[m + i]
    BY <2>4, <2>5
  <2> QED BY <2>3, <2>6, <2>7
<1>8. PICK k \in Nat : k = n - m /\ Len(x) = k /\ Len(y) = k + 1
  <2>1. n - m \in Nat /\ n + 1 - m = (n - m) + 1
    BY <1>4
  <2> QED BY <1>6, <1>7, <2>1
<1>9. PICK z \in Seq(Texts) : /\ z = Append(x, w) /\ Len(z) = k + 1 /\ z[k + 1] = w
                              /\ \A i \in 1..k : z[i] = x[i]
  <2>1. /\ Append(x, w) \in Seq(Texts) /\ Len(Append(x, w)) = k + 1 /\ Append(x, w)[k + 1] = w
        /\ \A i \in 1..k : Append(x, w)[i] = x[i]
    BY <1>1, <1>8, AppendOf
  <2> QED BY <2>1, Zenon
<1>10. ASSUME NEW i \in 1..(k + 1) PROVE y[i] = z[i]
  <2>1. CASE i = k + 1
    <3>1. m + i = n + 1 /\ i \in 1..(n + 1 - m)
      BY <1>8, <2>1
    <3> QED BY <1>5, <1>7, <1>9, <2>1, <3>1
  <2>2. CASE i # k + 1
    <3>1. i \in 1..k /\ i \in 1..(n - m) /\ i \in 1..(n + 1 - m) /\ m + i \in 1..n
      BY <1>8, <2>2
    <3> QED BY <1>5, <1>6, <1>7, <1>9, <3>1
  <2> QED BY <2>1, <2>2
<1>11. y = z
  BY <1>8, <1>9, <1>10, SeqEqual, Zenon
<1>12. ExtractWords(t) = x
  BY <1>2, <1>4, <1>6 DEF ExtractWords, Drop
<1>13. ExtractWords(u) = y
  BY <1>2, <1>3, <1>4, <1>5, <1>7 DEF ExtractWords, Drop
<1>14. Opened(u)
  BY <1>3, <1>4, <1>5 DEF Opened
<1> QED BY <1>3, <1>9, <1>11, <1>12, <1>13, <1>14

LEMMA NoWordsYet == Opened(Context) /\ ExtractWords(Context) = <<>>
<1>1. Context \in Texts
  BY SessionAssumption DEF Texts
<1>2. PICK q \in Seq(Texts) : q = Runs(Context, IsAlpha)
  BY <1>1, TraceExists, RunsIs
<1>3. PICK m \in Nat : m = Len(q)
  OBVIOUS
<1>4. Drop(q, m) \in Seq(Texts) /\ Len(Drop(q, m)) = 0
  <2>1. m \in 0..Len(q)
    BY <1>3
  <2>2. Drop(q, m) \in Seq(Texts) /\ Len(Drop(q, m)) = Len(q) - m
    BY <2>1, DropIs
  <2> QED BY <1>3, <2>2
<1>5. ExtractWords(Context) = Drop(q, m)
  BY <1>2, <1>3 DEF ExtractWords, Drop
<1>6. ExtractWords(Context) = <<>>
  BY <1>4, <1>5
<1> QED BY <1>1, <1>2, <1>3, <1>6 DEF Opened, ContextWords

(***************************************************************************)
(* The invariant of the syllable mode.  Before(n) and Sent(n) are those of *)
(* the style mode; a place of the loop is the text, whose words behind the *)
(* context's are finished, and the letters of the word that is not.        *)
(***************************************************************************)
Spelling(b, sent, table) == EncodeStep(table, Bits, sent, SyllableMask(b))

Spelt(b, sent, table) == EncoderSpells(Advanced(b), Spelling(b, sent, table).chosen)

Spells(n) ==
  /\ asked[n].table \in SyllableTables(Before(n - 1))
  /\ asked[n].prompt = SyllablePrompt(Before(n - 1))
  /\ asked[n].maskAt = Before(n - 1).pos
  /\ asked[n].offset = Sent(n - 1) + Spelling(Before(n - 1), Sent(n - 1), asked[n].table).consumed
  /\ Before(n) = Spelt(Before(n - 1), Sent(n - 1), asked[n].table)

(* The syllable does not fit into the buffer of the word; that of a step    *)
(* does.                                                                   *)
Loses(b, chosen) == chosen # EowText /\ Overflows(Cat(b.partial, chosen))

Fits(n) == ~Loses(Before(n - 1), Spelling(Before(n - 1), Sent(n - 1), asked[n].table).chosen)

IsWordPlace(b, n) ==
  /\ IsLocals(b) /\ Opened(b.text) /\ b.partial \in Seq(Letters) /\ b.steps = n
  /\ b.pos \in Nat /\ b.pos = n * Beta /\ b.pos <= Limit(n)

WordPlaced(n) == IsWordPlace(Before(n), n) /\ Sent(n) \in Nat

(* The words vs have those of us before them, and go on with what part     *)
(* starts.                                                                 *)
GoesOn(us, part, vs) ==
  /\ Len(us) < Len(vs) /\ \A k \in 1..Len(us) : vs[k] = us[k]
  /\ IsPrefix(part, vs[Len(us) + 1])

(* One place comes before another, and no two of them are the same.        *)
LeadsTo(us, part, vs, other) ==
  \/ us = vs /\ IsPrefix(part, other) /\ Len(part) < Len(other)
  \/ GoesOn(us, part, vs)

Leads(b, c) == LeadsTo(ExtractWords(b.text), b.partial, ExtractWords(c.text), c.partial)

Mounts == \A i, j \in 0..Len(asked) : i < j => Leads(Before(i), Before(j))

Written ==
  /\ IsSeq(asked) /\ IsEnc(enc)
  /\ Len(asked) <= MaxSteps
  /\ Before(0) = FreshLocals(style)
  /\ \A n \in 0..Len(asked) : WordPlaced(n)
  /\ \A n \in 1..Len(asked) : Spells(n)
  /\ ~enc.cut => Mounts /\ \A n \in 1..Len(asked) : Fits(n)
  /\ enc.offset = Sent(Len(asked))
  /\ enc.status = "OK" => enc.cover = ClosedWord(enc.locals.text, enc.locals.partial)

(* The words of the covertext that are left at a place, and what is left   *)
(* of the first of them.                                                   *)
TodoAt(b) == Drop(ExtractWords(enc.cover), Len(ExtractWords(b.text)))

LeftAt(b) == IF TodoAt(b) = <<>> THEN <<>> ELSE Drop(TodoAt(b)[1], Len(b.partial))

StandsAt(b) ==
  /\ IsLocals(dec.locals) /\ dec.locals.text = b.text /\ dec.locals.partial = b.partial
  /\ ~dec.skipped => dec.locals.pos = b.pos
  /\ dec.todo = TodoAt(b) /\ dec.remaining = LeftAt(b)

(* The decoder has made n steps, the same as the encoder's but for the     *)
(* draws it skipped.                                                       *)
Along(n) ==
  /\ n <= Len(asked) /\ ~dec.unmatched
  /\ ~dec.skipped => dec.bits = Buffered(Sent(n))
  /\ dec.status = "running" =>
       StandsAt(Before(n)) /\ (n > 0 /\ ~dec.skipped => ~NullTerminatorFound(dec.bits))
  /\ dec.status \in {"stopped", "OK"} =>
       n = Len(asked) \/ (n > 0 /\ NullTerminatorFound(dec.bits)) \/ dec.skipped

(* It has ended the word the encoder left open.                            *)
PastWord(n) ==
  /\ n = Len(asked) + 1 /\ Dangling /\ ~dec.unmatched
  /\ ~dec.skipped => /\ \A i \in DOMAIN dec.bits : i > enc.offset \/ dec.bits[i] = Padded(i)
                     /\ enc.offset < Len(Bits) \/ Len(Bits) > MaxRecoveredBits
  /\ dec.status = "running" => dec.todo = <<>>

Respelt(n) ==
  \A i \in 1..n : i <= Len(asked) =>
    replayed[i].prompt = asked[i].prompt /\ (~dec.skipped => replayed[i].maskAt = asked[i].maskAt)

ReadBack ==
  /\ IsSeq(replayed) /\ IsDec(dec)
  /\ enc.status # "OK" => dec.status = "idle"
  /\ dec.status # "idle" => ~enc.cut /\ ~dec.wordless
  /\ dec.status = "idle" =>
       /\ replayed = <<>> /\ dec.bits = <<>> /\ dec.locals = FreshLocals(style)
       /\ ~dec.unmatched /\ ~dec.skipped /\ ~dec.wordless
  /\ Respelt(Len(replayed))
  /\ Along(Len(replayed)) \/ PastWord(Len(replayed))
  /\ dec.status = "OK" => dec.result = BitsToBytes(dec.bits)

(* It reads a text that lacks letters, or lacks its words.  What it draws  *)
(* is still what the encoder drew.                                         *)
MasksAt(n) ==
  dec.locals.pos = n * Beta /\ \A i \in 1..n : replayed[i].maskAt = (i - 1) * Beta

Misread ==
  /\ IsSeq(replayed) /\ IsDec(dec) /\ IsLocals(dec.locals)
  /\ enc.status = "OK" /\ dec.status # "idle" /\ (enc.cut \/ dec.wordless)
  /\ ~dec.skipped => MasksAt(Len(replayed))
  /\ dec.wordless => dec.todo = <<>> /\ replayed = <<>> /\ dec.bits = <<>> /\ ~dec.unmatched

WInv == Given /\ (style # "styled" => Written /\ (ReadBack \/ Misread))

(***************************************************************************)
(* Places in order.                                                        *)
(***************************************************************************)
LEMMA GoesOnward ==
  ASSUME NEW us \in Seq(Texts), NEW vs \in Seq(Texts), NEW ws \in Seq(Texts), NEW p \in Texts,
         GoesOn(us, p, vs), Len(vs) <= Len(ws), \A k \in 1..Len(vs) : ws[k] = vs[k]
  PROVE  GoesOn(us, p, ws)
<1>1. PICK l \in Nat, m \in Nat, n \in Nat : l = Len(us) /\ m = Len(vs) /\ n = Len(ws)
  OBVIOUS
<1>2. l < m /\ m <= n /\ (\A k \in 1..l : vs[k] = us[k]) /\ IsPrefix(p, vs[l + 1])
  BY <1>1 DEF GoesOn
<1>3. l + 1 \in 1..m /\ \A k \in 1..l : k \in 1..m
  BY <1>2
<1>4. ws[l + 1] = vs[l + 1] /\ \A k \in 1..l : ws[k] = us[k]
  BY <1>1, <1>2, <1>3
<1>5. l < n
  BY <1>2
<1> QED BY <1>1, <1>2, <1>4, <1>5 DEF GoesOn

LEMMA PrefixedBy ==
  ASSUME NEW p \in Texts, NEW q \in Texts, NEW r \in Texts, IsPrefix(p, q), IsPrefix(q, r)
  PROVE  IsPrefix(p, r)
BY PrefixTransitive DEF Texts

LEMMA LeadsOn ==
  ASSUME NEW us \in Seq(Texts), NEW vs \in Seq(Texts), NEW ws \in Seq(Texts),
         NEW p \in Texts, NEW q \in Texts, NEW r \in Texts, LeadsTo(us, p, vs, q), LeadsTo(vs, q, ws, r)
  PROVE  LeadsTo(us, p, ws, r)
<1>0. Len(p) \in Nat /\ Len(q) \in Nat /\ Len(r) \in Nat /\ Len(us) \in Nat /\ Len(vs) \in Nat /\ Len(ws) \in Nat
  BY DEF Texts
<1>1. CASE us = vs /\ IsPrefix(p, q) /\ Len(p) < Len(q)
  <2>1. CASE vs = ws /\ IsPrefix(q, r) /\ Len(q) < Len(r)
    <3>1. IsPrefix(p, r)
      BY <1>1, <2>1, PrefixedBy
    <3>2. Len(p) < Len(r)
      BY <1>0, <1>1, <2>1
    <3> QED BY <1>1, <2>1, <3>1, <3>2 DEF LeadsTo
  <2>2. CASE GoesOn(vs, q, ws)
    <3>1. Len(vs) + 1 \in 1..Len(ws)
      BY <1>0, <2>2 DEF GoesOn
    <3>2. ws[Len(vs) + 1] \in Texts
      BY <3>1
    <3>3. IsPrefix(p, ws[Len(vs) + 1])
      BY <1>1, <2>2, <3>2, PrefixedBy DEF GoesOn
    <3> QED BY <1>1, <2>2, <3>3 DEF GoesOn, LeadsTo
  <2> QED BY <2>1, <2>2 DEF LeadsTo
<1>2. CASE GoesOn(us, p, vs)
  <2>1. Len(vs) <= Len(ws) /\ \A k \in 1..Len(vs) : ws[k] = vs[k]
    <3>1. CASE vs = ws
      BY <1>0, <3>1
    <3>2. CASE GoesOn(vs, q, ws)
      BY <1>0, <3>2 DEF GoesOn
    <3> QED BY <3>1, <3>2 DEF LeadsTo
  <2> QED BY <1>2, <2>1, GoesOnward DEF LeadsTo
<1> QED BY <1>1, <1>2 DEF LeadsTo

(* Where a place heads: the words of a covertext that ends a word there,   *)
(* or goes on with the one it is in.                                       *)
Heads(us, p, all) == GoesOn(us, p, all) \/ (us = all /\ p = <<>>)

LEMMA HeadsOn ==
  ASSUME NEW us \in Seq(Texts), NEW vs \in Seq(Texts), NEW all \in Seq(Texts),
         NEW p \in Texts, NEW q \in Texts, LeadsTo(us, p, vs, q), Heads(vs, q, all)
  PROVE  GoesOn(us, p, all)
<1>0. Len(p) \in Nat /\ Len(q) \in Nat /\ Len(us) \in Nat /\ Len(vs) \in Nat /\ Len(all) \in Nat
  BY DEF Texts
<1>1. CASE us = vs /\ IsPrefix(p, q) /\ Len(p) < Len(q)
  <2>1. q # <<>>
    <3> SUFFICES ASSUME q = <<>> PROVE FALSE
      OBVIOUS
    <3>1. Len(q) = 0
      OBVIOUS
    <3> QED BY <1>0, <1>1, <3>1
  <2>2. GoesOn(vs, q, all)
    BY <2>1 DEF Heads
  <2>3. Len(vs) + 1 \in 1..Len(all)
    BY <1>0, <2>2 DEF GoesOn
  <2>4. all[Len(vs) + 1] \in Texts
    BY <2>3
  <2>5. IsPrefix(p, all[Len(vs) + 1])
    BY <1>1, <2>2, <2>4, PrefixedBy DEF GoesOn
  <2> QED BY <1>1, <2>2, <2>5 DEF GoesOn
<1>2. CASE GoesOn(us, p, vs)
  <2>1. Len(vs) <= Len(all) /\ \A k \in 1..Len(vs) : all[k] = vs[k]
    <3>1. CASE vs = all
      BY <1>0, <3>1
    <3>2. CASE GoesOn(vs, q, all)
      BY <1>0, <3>2 DEF GoesOn
    <3> QED BY <3>1, <3>2 DEF Heads
  <2> QED BY <1>2, <2>1, GoesOnward
<1> QED BY <1>1, <1>2 DEF LeadsTo

(***************************************************************************)
(* The tables.                                                             *)
(***************************************************************************)
LEMMA LettersAreChars == \A w \in Seq(Letters) : w \in Texts
<1>1. Letters \subseteq Char
  BY DEF Letters
<1> QED BY <1>1, SeqMonotonic DEF Texts

LEMMA SyllablesIs ==
  ASSUME NEW table \in Openings \cup Continuations
  PROVE  /\ table \in Seq([text : Seq(Char), start : Int, end : Int]) /\ LaidOut(table)
         /\ Len(table) \in Nat \ {0} /\ DOMAIN table = 1..Len(table)
         /\ \A i \in 1..Len(table) :
              /\ table[i].text \in Seq(Char) /\ table[i].start \in Int /\ table[i].end \in Int
              /\ table[i].text # <<>>
              /\ table[i].text # EowText => table[i].text \in Seq(Letters)
         /\ \A i, j \in 1..Len(table) : IsPrefix(table[i].text, table[j].text) => i = j
<1>1. PICK R : R = [text : Seq(Char), start : Int, end : Int]
  BY Zenon
<1>2. table \in Seq(R) /\ LaidOut(table)
  BY <1>1, SyllableAssumption, Zenon
<1>3. Len(table) \in Nat /\ table # <<>> /\ DOMAIN table = 1..Len(table)
  BY <1>2, LenProperties DEF LaidOut
<1>4. Len(table) # 0
  BY <1>2, <1>3, EmptySeq
<1>5. ASSUME NEW i \in 1..Len(table)
      PROVE  /\ table[i].text \in Seq(Char) /\ table[i].start \in Int /\ table[i].end \in Int
             /\ table[i].text # <<>>
             /\ table[i].text # EowText => table[i].text \in Seq(Letters)
  <2>1. table[i] \in R
    BY <1>2, ElementOfSeq
  <2>2. /\ table[i].text # <<>>
        /\ table[i].text # EowText => \A k \in DOMAIN table[i].text : IsAlpha(table[i].text[k])
    BY <1>3, SyllableAssumption, Zenon
  <2>3. PICK t \in Seq(Char) : t = table[i].text
    BY <1>1, <2>1
  <2>4. ASSUME t # EowText PROVE t \in Seq(Letters)
    <3>1. PICK n \in Nat : n = Len(t) /\ t \in [1..n -> Char] /\ DOMAIN t = 1..n
      BY LenProperties
    <3>2. \A k \in 1..n : t[k] \in Letters
      BY <2>2, <2>3, <2>4, <3>1, Zenon DEF Letters
    <3>3. t \in [1..n -> Letters]
      BY <3>1, <3>2
    <3> QED BY <3>3
  <2> QED BY <1>1, <2>1, <2>2, <2>3, <2>4
<1>6. \A i, j \in 1..Len(table) : IsPrefix(table[i].text, table[j].text) => i = j
  BY <1>3, SyllableAssumption, Zenon
<1> QED BY <1>1, <1>2, <1>3, <1>4, <1>5, <1>6

LEMMA WordsOpen ==
  ASSUME NEW b, b.partial = <<>>, NEW table \in SyllableTables(b), NEW i \in 1..Len(table)
  PROVE  table[i].text # EowText
<1>1. table \in Openings
  BY DEF SyllableTables
<1>2. DOMAIN table = 1..Len(table)
  BY <1>1, SyllablesIs
<1> QED BY <1>1, <1>2, SyllableAssumption DEF OpensWord

LEMMA SomeTable == \A b : SyllableTables(b) \subseteq Openings \cup Continuations
BY DEF SyllableTables

(* The syllable a word goes on with is found, whatever comes behind it.    *)
Spotted(table, i, rest) ==
  LET p == table[i].text
      r == Cat(p, rest)
  IN /\ Matching(table, r) = {i} /\ Syllable(table, r) = [text |-> p, length |-> Len(p)]
     /\ r \in Texts /\ r # <<>> /\ Drop(r, Len(p)) = rest

LEMMA SyllableFound ==
  ASSUME NEW table \in Openings \cup Continuations, NEW i \in 1..Len(table), NEW rest \in Texts
  PROVE  Spotted(table, i, rest)
<1>a. PICK p, r : p = table[i].text /\ r = Cat(p, rest)
  OBVIOUS
<1>0. r = p \o rest /\ rest \in Seq(Char)
  BY <1>a DEF Cat, Texts
<1>1. /\ p \in Seq(Char) /\ p # <<>> /\ DOMAIN table = 1..Len(table)
      /\ \A j \in 1..Len(table) : table[j].text \in Seq(Char) /\ table[j].text # <<>>
  BY <1>a, SyllablesIs, Zenon
<1>2. r \in Seq(Char) /\ IsPrefix(p, r) /\ r # <<>>
  BY <1>0, <1>1, ConcatProperties, PrefixOfConcat, ConcatLonger
<1>3. ASSUME NEW j \in 1..Len(table), IsPrefix(table[j].text, r) PROVE j = i
  <2>1. IsPrefix(table[j].text, p) \/ IsPrefix(p, table[j].text)
    BY <1>1, <1>2, <1>3, PrefixesComparable
  <2> QED BY <1>a, <2>1, SyllablesIs
<1>4. Matching(table, r) = {i}
  BY <1>1, <1>2, <1>3, <1>a DEF Matching
<1>5. LongestMatch(table, r) = i
  <2> DEFINE Q(k) == \A j \in {i} : \/ Len(table[j].text) < Len(table[k].text)
                                    \/ Len(table[j].text) = Len(table[k].text) /\ k <= j
  <2>1. Q(i)
    OBVIOUS
  <2>2. LongestMatch(table, r) = CHOOSE k \in {i} : Q(k)
    BY <1>4 DEF LongestMatch
  <2> HIDE DEF Q
  <2> QED BY <2>1, <2>2
<1>6. Syllable(table, r) = [text |-> p, length |-> Len(p)]
  BY <1>4, <1>5, <1>a DEF Syllable
<1>7. Drop(r, Len(p)) = rest
  BY <1>0, <1>1, DropConcat
<1> QED BY <1>2, <1>4, <1>6, <1>7, <1>a DEF Spotted, Texts

(***************************************************************************)
(* A step of the encoder's.                                                *)
(***************************************************************************)
LEMMA DrawnWithin ==
  ASSUME key \in Keys, NEW b, NEW n \in Nat, n <= MaxSteps, b.pos \in Nat, b.pos <= Limit(n)
  PROVE  b.pos + Beta \in Nat /\ b.pos + Beta <= Limit(n + 1) /\ SyllableMask(b) \in [1..Beta -> Bit]
<1>1. PICK D \in Nat, M \in Nat, e \in Nat : D = StepDraws /\ M = MaxSteps + 1 /\ e = Beta /\ e <= D
  <2>1. StepDraws = 31 + Beta /\ Beta \in Nat
    BY BetaAssumption DEF StepDraws, MaxRedraws
  <2> QED BY <2>1, StepDrawsIs
<1>2. PICK p \in Nat : p = b.pos
  OBVIOUS
<1>3. PICK x \in Nat, y \in Nat : x = n * D /\ y = M * D
  OBVIOUS
<1>4. (n + 1) * D = x + D
  BY <1>3
<1>5. x + D <= y
  <2>1. n < M
    BY <1>1, StepDrawsIs
  <2>2. D * n + D <= D * M
    BY <1>1, <2>1, NextMultiple
  <2>3. D * n = n * D /\ D * M = M * D
    OBVIOUS
  <2> QED BY <1>3, <2>2, <2>3
<1>6. p <= x /\ Limit(n + 1) = x + D
  BY <1>1, <1>2, <1>3, <1>4 DEF Limit
<1>7. p + e <= x + D /\ p + e <= y
  BY <1>1, <1>5, <1>6
<1>8. stream \in Seq(Bit) /\ Len(stream) >= y
  BY <1>1, <1>3, SessionAssumption DEF stream
<1>9. PICK l \in Nat : l = Len(stream) /\ stream \in [1..l -> Bit] /\ y <= l
  BY <1>8
<1>10. ASSUME NEW i \in 1..e PROVE stream[p + i] \in Bit
  <2>1. p + i \in 1..l
    BY <1>7, <1>9
  <2> QED BY <1>9, <2>1
<1>11. SyllableMask(b) \in [1..Beta -> Bit]
  BY <1>1, <1>2, <1>10 DEF SyllableMask, NextBits
<1> QED BY <1>1, <1>2, <1>6, <1>7, <1>11

LEMMA CutIs ==
  ASSUME NEW S, NEW w \in Seq(S)
  PROVE  Cut(w) \in Seq(S) /\ (~Overflows(w) => Cut(w) = w)
<1>1. CASE ~Overflows(w)
  BY <1>1 DEF Cut
<1>2. CASE Overflows(w)
  <2>1. PICK m \in Nat : m = MaxPartial /\ m \in 0..Len(w)
    BY <1>2, SyllableAssumption DEF Overflows
  <2>2. SubSeq(w, 1, m) \in Seq(S)
    BY <2>1, SubSeqFirst
  <2> QED BY <1>2, <2>1, <2>2 DEF Cut
<1> QED BY <1>1, <1>2

LEMMA SpellsIs ==
  ASSUME NEW b, IsLocals(b), NEW syllable, NEW a, a = EncoderSpells(Advanced(b), syllable)
  PROVE  /\ IsLocals(a) /\ a.steps = b.steps + 1 /\ a.pos = b.pos + Beta
         /\ syllable = EowText => a.text = Joined(b.text, b.partial) /\ a.partial = <<>>
         /\ syllable # EowText => a.text = b.text /\ a.partial = Cut(Cat(b.partial, syllable))
<1>1. CASE syllable = EowText
  BY <1>1, Zenon DEF EncoderSpells, Advanced, IsLocals
<1>2. CASE syllable # EowText
  BY <1>2, Zenon DEF EncoderSpells, Advanced, IsLocals, Cat
<1> QED BY <1>1, <1>2

LEMMA WordEnds ==
  ASSUME NEW t, Opened(t), NEW p \in Seq(Letters), p # <<>>, NEW u, u = Joined(t, p)
  PROVE  Opened(u) /\ GoesOn(ExtractWords(t), p, ExtractWords(u)) /\ ExtractWords(u) = Append(ExtractWords(t), p)
<1>1. PICK us \in Seq(Texts) : us = ExtractWords(t) /\ Opened(u) /\ ExtractWords(u) = Append(us, p)
  BY WordsJoined
<1>2. p \in Texts
  BY LettersAreChars
<1>3. PICK vs \in Seq(Texts), l \in Nat : /\ vs = Append(us, p) /\ l = Len(us) /\ Len(vs) = l + 1 /\ vs[l + 1] = p
                           /\ \A k \in 1..l : vs[k] = us[k]
  <2>1. PICK l \in Nat : l = Len(us)
    OBVIOUS
  <2>2. /\ Append(us, p) \in Seq(Texts) /\ Len(Append(us, p)) = l + 1 /\ Append(us, p)[l + 1] = p
        /\ \A k \in 1..l : Append(us, p)[k] = us[k]
    BY <1>2, <2>1, AppendOf
  <2> QED BY <2>1, <2>2, Zenon
<1>4. IsPrefix(p, p)
  <2>1. p \in Seq(Char) /\ Len(p) <= Len(p) /\ \A k \in 1..Len(p) : p[k] = p[k]
    BY <1>2 DEF Texts
  <2> QED BY <2>1, PrefixIs
<1>5. GoesOn(us, p, vs)
  BY <1>3, <1>4 DEF GoesOn
<1> QED BY <1>1, <1>3, <1>5

(* What a step makes of a place of the loop.                               *)
Onward(n, b, o, table) ==
  LET a == Spelt(b, o, table)
      c == Spelling(b, o, table)
  IN /\ c.consumed \in 0..Beta
     /\ \E i \in 1..Len(table) : c.chosen = table[i].text
     /\ DecodeStep(table, c.chosen, SyllableMask(b)) = SubSeq(WindowAt(Bits, o), 1, c.consumed)
     /\ IsWordPlace(a, n + 1) /\ a.pos = b.pos + Beta
     /\ ~Loses(b, c.chosen) => Leads(b, a)
     /\ c.chosen = EowText =>
          /\ b.partial # <<>> /\ a.text = Joined(b.text, b.partial) /\ a.partial = <<>>
          /\ ExtractWords(a.text) = Append(ExtractWords(b.text), b.partial)
     /\ c.chosen # EowText /\ ~Loses(b, c.chosen) => a.text = b.text /\ a.partial = Cat(b.partial, c.chosen)

LEMMA StepOnward ==
  ASSUME Given, NEW n \in Nat, n < MaxSteps,
         NEW b, IsWordPlace(b, n), NEW o \in Nat, NEW table \in SyllableTables(b)
  PROVE  Onward(n, b, o, table)
<1>a. PICK a, c : a = Spelt(b, o, table) /\ c = Spelling(b, o, table)
  OBVIOUS
<1>0. /\ IsLocals(b) /\ Opened(b.text) /\ b.partial \in Seq(Letters) /\ b.steps = n
      /\ b.pos \in Nat /\ b.pos = n * Beta /\ b.pos <= Limit(n)
  BY DEF IsWordPlace
<1>1. b.pos + Beta \in Nat /\ b.pos + Beta <= Limit(n + 1) /\ SyllableMask(b) \in [1..Beta -> Bit]
  <2>1. n <= MaxSteps /\ key \in Keys
    BY StepDrawsIs DEF Given
  <2> QED BY <1>0, <2>1, DrawnWithin
<1>2. Bits \in Seq(Bit)
  BY MessageBits DEF Given
<1>3. table \in Openings \cup Continuations
  BY SomeTable
<1>4. table \in Seq([text : Seq(Char), start : Int, end : Int]) /\ LaidOut(table)
  BY <1>3, SyllablesIs, Zenon
<1>5. /\ \E i \in 1..Len(table) : c.chosen = table[i].text
      /\ c.consumed \in 0..Beta
      /\ DecodeStep(table, c.chosen, SyllableMask(b)) = SubSeq(WindowAt(Bits, o), 1, c.consumed)
  BY <1>1, <1>2, <1>4, <1>a, StepInverts, Zenon DEF Spelling
<1>6. a = EncoderSpells(Advanced(b), c.chosen)
  BY <1>a DEF Spelt
<1>7. /\ IsLocals(a) /\ a.steps = n + 1 /\ a.pos = b.pos + Beta
      /\ c.chosen = EowText => a.text = Joined(b.text, b.partial) /\ a.partial = <<>>
      /\ c.chosen # EowText => a.text = b.text /\ a.partial = Cut(Cat(b.partial, c.chosen))
  BY <1>0, <1>6, SpellsIs
<1>8. a.pos \in Nat /\ a.pos = (n + 1) * Beta /\ a.pos <= Limit(n + 1)
  <2>1. PICK e \in Nat : e = Beta
    BY StepDrawsIs
  <2>2. (n + 1) * e = n * e + e
    OBVIOUS
  <2> QED BY <1>0, <1>1, <1>7, <2>1, <2>2
<1>9. CASE c.chosen = EowText
  <2>1. b.partial # <<>>
    BY <1>5, <1>9, WordsOpen, Zenon
  <2>2. Opened(a.text) /\ GoesOn(ExtractWords(b.text), b.partial, ExtractWords(a.text))
        /\ ExtractWords(a.text) = Append(ExtractWords(b.text), b.partial)
    BY <1>0, <1>7, <1>9, <2>1, WordEnds, Zenon
  <2>3. a.partial \in Seq(Letters)
    <3>1. <<>> \in Seq(Letters)
      OBVIOUS
    <3> QED BY <1>7, <1>9, <3>1, Zenon
  <2>4. IsWordPlace(a, n + 1)
    BY <1>7, <1>8, <2>2, <2>3 DEF IsWordPlace
  <2>5. Leads(b, a)
    BY <2>2 DEF Leads, LeadsTo
  <2> QED BY <1>5, <1>7, <1>9, <1>a, <2>1, <2>2, <2>4, <2>5, Zenon DEF Onward
<1>10. CASE c.chosen # EowText
  <2>1. c.chosen \in Seq(Letters) /\ c.chosen # <<>>
    BY <1>3, <1>5, <1>10, SyllablesIs, Zenon
  <2>2. PICK p \in Seq(Letters), w \in Seq(Letters) : p = b.partial /\ w = c.chosen
    BY <1>0, <2>1
  <2>3. p \o w \in Seq(Letters) /\ Len(p \o w) = Len(p) + Len(w) /\ IsPrefix(p, p \o w)
    BY ConcatProperties, PrefixOfConcat
  <2>4. Len(p) < Len(p) + Len(w)
    <3>1. Len(w) \in Nat /\ Len(w) # 0 /\ Len(p) \in Nat
      BY <2>1, <2>2
    <3> QED BY <3>1
  <2>5. /\ a.partial = Cut(p \o w) /\ a.text = b.text /\ a.partial \in Seq(Letters)
        /\ ~Loses(b, c.chosen) => a.partial = p \o w
    BY <1>7, <1>10, <2>2, <2>3, CutIs, Zenon DEF Cat, Loses
  <2>6. IsWordPlace(a, n + 1)
    BY <1>0, <1>7, <1>8, <2>3, <2>5 DEF IsWordPlace
  <2>7. ~Loses(b, c.chosen) => Leads(b, a) /\ a.partial = Cat(b.partial, c.chosen)
    BY <2>2, <2>3, <2>4, <2>5, Zenon DEF Leads, LeadsTo, Cat
  <2> QED BY <1>5, <1>7, <1>10, <1>a, <2>5, <2>6, <2>7, Zenon DEF Onward
<1> QED BY <1>9, <1>10

LEMMA SpellingStays ==
  ASSUME UNCHANGED session
  PROVE  /\ Bits' = Bits /\ stream' = stream /\ FreshLocals(style)' = FreshLocals(style)
         /\ \A b : SyllableMask(b)' = SyllableMask(b)
         /\ \A b, o, t : Spelling(b, o, t)' = Spelling(b, o, t) /\ Spelt(b, o, t)' = Spelt(b, o, t)
<1>1. Bits' = Bits /\ stream' = stream /\ style' = style
  BY DEF session, stream, Bits
<1>2. \A b : SyllableMask(b)' = SyllableMask(b)
  BY <1>1 DEF SyllableMask
<1>3. \A b, o, t : Spelling(b, o, t)' = Spelling(b, o, t)
  BY <1>1, <1>2 DEF Spelling
<1>4. \A b, o, t : Spelt(b, o, t)' = Spelt(b, o, t)
  BY <1>3 DEF Spelt
<1>5. FreshLocals(style)' = FreshLocals(style)
  BY <1>1 DEF FreshLocals
<1> QED BY <1>1, <1>2, <1>3, <1>4, <1>5

LEMMA WordsOfPlace ==
  ASSUME NEW b, NEW n, IsWordPlace(b, n)
  PROVE  ExtractWords(b.text) \in Seq(Texts) /\ b.partial \in Texts
<1>1. Opened(b.text) /\ b.partial \in Seq(Letters)
  BY DEF IsWordPlace
<1>2. b.text \in Texts /\ Context \in Texts /\ ContextWords <= Len(Runs(b.text, IsAlpha))
  BY <1>1, SessionAssumption DEF Opened, Texts
<1>3. PICK r \in Seq(Texts), q \in Seq(Texts) : r = Runs(b.text, IsAlpha) /\ q = Runs(Context, IsAlpha)
  BY <1>2, TraceExists, RunsIs
<1>4. Len(q) \in 0..Len(r)
  BY <1>2, <1>3 DEF ContextWords
<1>5. Drop(r, Len(q)) \in Seq(Texts)
  BY <1>4, DropIs
<1>6. ExtractWords(b.text) = Drop(r, Len(q))
  BY <1>3 DEF ExtractWords, Drop
<1> QED BY <1>1, <1>5, <1>6, LettersAreChars

LEMMA PlacesLead ==
  ASSUME NEW b, NEW c, NEW d, NEW i, NEW j, NEW k,
         IsWordPlace(b, i), IsWordPlace(c, j), IsWordPlace(d, k), Leads(b, c), Leads(c, d)
  PROVE  Leads(b, d)
<1>1. PICK us \in Seq(Texts), p \in Texts : us = ExtractWords(b.text) /\ p = b.partial
  BY WordsOfPlace
<1>2. PICK vs \in Seq(Texts), q \in Texts : vs = ExtractWords(c.text) /\ q = c.partial
  BY WordsOfPlace
<1>3. PICK ws \in Seq(Texts), r \in Texts : ws = ExtractWords(d.text) /\ r = d.partial
  BY WordsOfPlace
<1>4. LeadsTo(us, p, vs, q) /\ LeadsTo(vs, q, ws, r)
  BY <1>1, <1>2, <1>3 DEF Leads
<1>5. LeadsTo(us, p, ws, r)
  BY <1>4, LeadsOn
<1> QED BY <1>1, <1>3, <1>5 DEF Leads

(* What an iteration of the encoder's loop does with the model's answer,   *)
(* and what it leaves in asked of it.                                      *)
AsksSyllable(table, e) ==
  LET b == enc.locals
      o == enc.offset
  IN /\ asked' = Append(asked, e)
     /\ enc' = [enc EXCEPT !.locals = Spelt(b, o, table), !.offset = @ + Spelling(b, o, table).consumed,
                           !.cut = @ \/ Loses(b, Spelling(b, o, table).chosen)]
     /\ e.before = b /\ e.table = table /\ e.prompt = SyllablePrompt(b) /\ e.maskAt = b.pos
     /\ e.offset = o + Spelling(b, o, table).consumed

LEMMA AnswersSpell ==
  ASSUME Written, NEW b
  PROVE  Answers(SyllablePrompt(b), SyllableTables(b)) \subseteq SyllableTables(b)
<1>1. PICK m \in Nat : m = Len(asked) /\ DOMAIN asked = 1..m
  <2>1. PICK S : asked \in Seq(S)
    BY DEF Written, IsSeq
  <2> QED BY <2>1, LenProperties
<1>2. ASSUME NEW i \in 1..m, asked[i].prompt = SyllablePrompt(b)
      PROVE  asked[i].table \in SyllableTables(b)
  <2>1. PICK c : c = Before(i - 1)
    OBVIOUS
  <2>2. asked[i].table \in SyllableTables(c) /\ SyllablePrompt(c) = SyllablePrompt(b)
    BY <1>1, <1>2, <2>1 DEF Written, Spells
  <2>3. c.partial = b.partial
    BY <2>2 DEF SyllablePrompt
  <2> QED BY <2>2, <2>3 DEF SyllableTables
<1> QED BY <1>1, <1>2, Zenon DEF Answers

LEMMA EncodeSyllableIs ==
  ASSUME Written, EncodeSyllable
  PROVE  \E table \in SyllableTables(enc.locals) : \E e : AsksSyllable(table, e)
<1>0. Answers(SyllablePrompt(enc.locals), SyllableTables(enc.locals)) \subseteq SyllableTables(enc.locals)
  BY AnswersSpell
<1>1. PICK table \in Answers(SyllablePrompt(enc.locals), SyllableTables(enc.locals)) :
        /\ asked' = Append(asked,
             [before |-> enc.locals, prompt |-> SyllablePrompt(enc.locals), maskAt |-> enc.locals.pos,
              table |-> table, opening |-> FALSE, digression |-> FALSE,
              offset |-> enc.offset + Spelling(enc.locals, enc.offset, table).consumed])
        /\ enc' = [enc EXCEPT !.locals = Spelt(enc.locals, enc.offset, table),
                             !.offset = @ + Spelling(enc.locals, enc.offset, table).consumed,
                             !.cut = @ \/ Loses(enc.locals, Spelling(enc.locals, enc.offset, table).chosen)]
  BY Zenon, Zenon DEF EncodeSyllable, Spelt, Spelling, Advanced, Loses, Cat
<1>2. PICK b, o : b = enc.locals /\ o = enc.offset
  OBVIOUS
<1>3. PICK e : e = [before |-> b, prompt |-> SyllablePrompt(b), maskAt |-> b.pos, table |-> table,
                    opening |-> FALSE, digression |-> FALSE,
                    offset |-> o + Spelling(b, o, table).consumed]
  BY Zenon
<1>4. asked' = Append(asked, e)
  BY Zenon, <1>1, <1>2, <1>3, Zenon
<1>5. /\ e.before = b /\ e.table = table /\ e.prompt = SyllablePrompt(b) /\ e.maskAt = b.pos
      /\ e.offset = o + Spelling(b, o, table).consumed
  BY <1>3
<1> QED BY <1>0, <1>1, <1>2, <1>4, <1>5, Zenon DEF AsksSyllable

LEMMA EncodeSyllableKeeps ==
  ASSUME Given, Written, EncodeSyllable
  PROVE  Written'
<1>1. PICK n \in Nat : n = Len(asked) /\ n \in 0..n
  <2>1. Len(asked) \in Nat
    BY AppendAny DEF Written
  <2> QED BY <2>1
<1>2. PICK b : b = enc.locals
  OBVIOUS
<1>3. Before(n) = b /\ IsWordPlace(b, n) /\ Sent(n) \in Nat /\ enc.offset = Sent(n)
  <2>1. Before(n) = b
    BY <1>1, <1>2 DEF Before
  <2>2. WordPlaced(n) /\ enc.offset = Sent(n)
    BY <1>1 DEF Written
  <2> QED BY <2>1, <2>2 DEF WordPlaced
<1>4. PICK o \in Nat : o = enc.offset /\ o = Sent(n)
  BY <1>3
<1>5. enc.status = "running" /\ n < MaxSteps /\ UNCHANGED session
  BY <1>2, <1>3 DEF EncodeSyllable, EncoderRuns, IsWordPlace
<1>5a. PICK table \in SyllableTables(b) : \E e : AsksSyllable(table, e)
  BY <1>2, EncodeSyllableIs
<1>6. PICK e :
        /\ asked' = Append(asked, e)
        /\ enc' = [enc EXCEPT !.locals = Spelt(b, o, table), !.offset = @ + Spelling(b, o, table).consumed,
                             !.cut = @ \/ Loses(b, Spelling(b, o, table).chosen)]
        /\ e.before = b /\ e.table = table /\ e.prompt = SyllablePrompt(b)
        /\ e.maskAt = b.pos /\ e.offset = o + Spelling(b, o, table).consumed
  BY <1>2, <1>4, <1>5a, Zenon DEF AsksSyllable
<1>7. PICK a, c : a = Spelt(b, o, table) /\ c = Spelling(b, o, table)
  OBVIOUS
<1>8. c.consumed \in 0..Beta /\ IsWordPlace(a, n + 1) /\ (~Loses(b, c.chosen) => Leads(b, a))
  <2>1. Onward(n, b, o, table)
    BY <1>3, <1>5, StepOnward
  <2> QED BY <1>7, <2>1 DEF Onward
<1>9. /\ IsSeq(asked') /\ Len(asked') = n + 1
      /\ \A i \in 1..n : asked'[i] = asked[i]
      /\ asked'[n + 1] = e
  BY <1>1, <1>6, AppendAny DEF Written
<1>10a. PICK lost : lost = (enc.cut \/ Loses(b, c.chosen))
  OBVIOUS
<1>10. enc' = [status |-> "running", preamble |-> enc.preamble, locals |-> a, offset |-> o + c.consumed,
               cut |-> lost, cover |-> enc.cover]
  <2>1. enc' = [enc EXCEPT !.locals = a, !.offset = o + c.consumed, !.cut = lost]
    BY <1>4, <1>6, <1>7, <1>10a, Zenon
  <2> QED BY <1>5, <2>1 DEF Written, IsEnc
<1>11. \A i \in 0..n : Before(i)' = Before(i)
  <2> SUFFICES ASSUME NEW i \in 0..n PROVE Before(i)' = Before(i)
    OBVIOUS
  <2>1. i < Len(asked') /\ i + 1 \in 1..(n + 1)
    BY <1>9
  <2>2. Before(i)' = asked'[i + 1].before
    BY <2>1 DEF Before
  <2>3. CASE i < n
    <3>1. i + 1 \in 1..n
      BY <2>3
    <3> QED BY <1>1, <1>9, <2>2, <2>3, <3>1 DEF Before
  <2>4. CASE i = n
    BY <1>3, <1>6, <1>9, <2>2, <2>4
  <2> QED BY <2>3, <2>4
<1>12. Before(n + 1)' = a
  BY <1>9, <1>10 DEF Before
<1>13. \A i \in 0..n : Sent(i)' = Sent(i)
  BY <1>9 DEF Sent
<1>14. Sent(n + 1)' = o + c.consumed /\ o + c.consumed \in Nat
  BY <1>6, <1>7, <1>8, <1>9, StepDrawsIs DEF Sent
<1>15. ASSUME NEW i \in 0..(n + 1) PROVE WordPlaced(i)'
  <2>1. CASE i \in 0..n
    <3>1. WordPlaced(i)
      BY <1>1, <2>1 DEF Written
    <3> QED BY <1>11, <1>13, <2>1, <3>1 DEF WordPlaced
  <2>2. CASE i = n + 1
    BY <1>8, <1>12, <1>14, <2>2 DEF WordPlaced
  <2> QED BY <2>1, <2>2
<1>16. ASSUME NEW i \in 1..(n + 1) PROVE Spells(i)'
  <2>1. CASE i \in 1..n
    <3>1. Spells(i) /\ i - 1 \in 0..n /\ i \in 0..n
      BY <1>1, <2>1 DEF Written
    <3>2. Before(i - 1)' = Before(i - 1) /\ Sent(i - 1)' = Sent(i - 1) /\ Before(i)' = Before(i)
      BY <1>11, <1>13, <3>1
    <3>3. asked'[i] = asked[i]
      BY <1>9, <2>1
    <3> QED BY <1>5, <3>1, <3>2, <3>3, SpellingStays DEF Spells
  <2>2. CASE i = n + 1
    <3>1. i - 1 = n /\ n \in 0..n
      BY <2>2
    <3>2. Before(i - 1)' = b /\ Sent(i - 1)' = o /\ Before(i)' = a /\ asked'[i] = e
      BY <1>3, <1>4, <1>9, <1>11, <1>12, <1>13, <2>2, <3>1
    <3> QED BY <1>5, <1>6, <1>7, <3>2, SpellingStays DEF Spells
  <2> QED BY <2>1, <2>2
<1>17. ~enc'.cut => Mounts'
  <2>a. enc'.cut = lost
    BY <1>10
  <2> SUFFICES ASSUME ~enc.cut, ~Loses(b, c.chosen) PROVE Mounts'
    BY <1>10a, <2>a
  <2> SUFFICES ASSUME NEW i \in 0..(n + 1), NEW j \in 0..(n + 1), i < j
               PROVE  Leads(Before(i)', Before(j)')
    BY <1>9 DEF Mounts, Leads, LeadsTo, GoesOn
  <2>0. i \in 0..n /\ Before(i)' = Before(i)
    BY <1>11
  <2>1. CASE j \in 0..n
    <3>1. Before(j)' = Before(j)
      BY <1>11, <2>1
    <3> QED BY <1>1, <2>0, <2>1, <3>1 DEF Written, Mounts
  <2>2. CASE j = n + 1
    <3>1. Before(j)' = a
      BY <1>12, <2>2
    <3>2. CASE i = n
      BY <1>3, <1>8, <2>0, <3>1, <3>2
    <3>3. CASE i < n
      <4>1. Leads(Before(i), b)
        BY <1>1, <1>3, <2>0, <3>3 DEF Written, Mounts
      <4>2. IsWordPlace(Before(i), i)
        BY <1>1, <2>0 DEF Written, WordPlaced
      <4>3. Leads(Before(i), a)
        BY <1>3, <1>8, <4>1, <4>2, PlacesLead
      <4> QED BY <2>0, <3>1, <4>3
    <3> QED BY <2>0, <3>2, <3>3
  <2> QED BY <2>1, <2>2
<1>17a. ASSUME ~enc'.cut, NEW i \in 1..(n + 1) PROVE Fits(i)'
  <2>a. ~enc.cut /\ ~Loses(b, c.chosen)
    BY <1>10, <1>10a, <1>17a
  <2>1. CASE i \in 1..n
    <3>1. Fits(i) /\ i - 1 \in 0..n /\ i \in 0..n
      BY <1>1, <2>a, <2>1 DEF Written
    <3>2. Before(i - 1)' = Before(i - 1) /\ Sent(i - 1)' = Sent(i - 1)
      BY <1>11, <1>13, <3>1
    <3>3. asked'[i] = asked[i]
      BY <1>9, <2>1
    <3> QED BY <1>5, <3>1, <3>2, <3>3, SpellingStays DEF Fits
  <2>2. CASE i = n + 1
    <3>1. i - 1 = n /\ n \in 0..n
      BY <2>2
    <3>2. Before(i - 1)' = b /\ Sent(i - 1)' = o /\ asked'[i] = e
      BY <1>3, <1>4, <1>9, <1>11, <1>13, <2>2, <3>1
    <3> QED BY <1>5, <1>6, <1>7, <2>a, <3>2, SpellingStays DEF Fits
  <2> QED BY <2>1, <2>2
<1>18. (Before(0) = FreshLocals(style))'
  <2>1. 0 \in 0..n
    BY <1>1
  <2> QED BY <1>5, <1>11, <2>1, SpellingStays DEF Written
<1>19. IsEnc(enc') /\ enc'.status = "running" /\ enc'.offset = o + c.consumed
  BY <1>10 DEF IsEnc
<1>20. n + 1 <= MaxSteps
  BY <1>5, StepDrawsIs
<1> QED BY <1>9, <1>14, <1>15, <1>16, <1>17, <1>17a, <1>18, <1>19, <1>20 DEF Written

(* The steps of the encoder that choose no syllable, and those of the      *)
(* decoder.                                                                *)
LEMMA WrittenStays ==
  ASSUME Written, UNCHANGED <<session, asked>>, IsEnc(enc'),
         enc'.locals = enc.locals, enc'.offset = enc.offset, enc'.cut = enc.cut,
         enc'.status = "OK" => enc'.cover = ClosedWord(enc.locals.text, enc.locals.partial)
  PROVE  Written'
<1>0. UNCHANGED session /\ asked' = asked
  OBVIOUS
<1>1. \A i : Before(i)' = Before(i) /\ Sent(i)' = Sent(i)
  BY <1>0 DEF Before, Sent
<1>2. ASSUME NEW i \in 0..Len(asked) PROVE WordPlaced(i)'
  <2>1. WordPlaced(i)
    BY DEF Written
  <2> QED BY <1>1, <2>1 DEF WordPlaced
<1>3. ASSUME NEW i \in 1..Len(asked) PROVE Spells(i)'
  <2>1. Spells(i)
    BY DEF Written
  <2> QED BY <1>0, <1>1, <2>1, SpellingStays DEF Spells
<1>4. ~enc'.cut => Mounts'
  BY <1>0, <1>1 DEF Written, Mounts, Leads, LeadsTo, GoesOn
<1>4a. ASSUME ~enc'.cut, NEW i \in 1..Len(asked) PROVE Fits(i)'
  <2>1. Fits(i)
    BY <1>4a DEF Written
  <2> QED BY <1>0, <1>1, <2>1, SpellingStays DEF Fits
<1>5. (Before(0) = FreshLocals(style))'
  BY <1>0, <1>1, SpellingStays DEF Written
<1>7. IsSeq(asked') /\ Len(asked') <= MaxSteps /\ (enc.offset = Sent(Len(asked)))'
  <2>1. Sent(Len(asked))' = Sent(Len(asked))
    BY <1>0 DEF Sent
  <2> QED BY <1>0, <2>1 DEF Written
<1> QED BY <1>0, <1>2, <1>3, <1>4, <1>4a, <1>5, <1>7 DEF Written

LEMMA SpellerKeeps ==
  ASSUME Given, style # "styled", Written, NEW A,
         A = (BeginEncode \/ EncodeSyllable \/ EncodeFails \/ EncodeReturns), A
  PROVE  Written' /\ UNCHANGED <<session, replayed, dec>> /\ enc.status # "OK"
<1>0. IsEnc(enc)
  BY DEF Written
<1>1. CASE BeginEncode
  <2>1. /\ UNCHANGED <<session, asked, replayed, dec>> /\ enc.status = "idle"
        /\ IsEnc(enc') /\ enc'.locals = enc.locals /\ enc'.offset = enc.offset /\ enc'.cut = enc.cut
        /\ enc'.status \in {"ERR_CAPACITY", "running", "failed"}
    BY <1>0, <1>1, EncoderBegins
  <2>2. UNCHANGED <<session, asked>> /\ UNCHANGED <<session, replayed, dec>> /\ enc.status # "OK"
        /\ enc'.status # "OK"
    BY <2>1
  <2> QED BY <2>1, <2>2, WrittenStays
<1>2. CASE EncodeSyllable
  <2>1. UNCHANGED <<session, replayed, dec>> /\ enc.status # "OK"
    BY <1>2, Zenon DEF EncodeSyllable, EncoderRuns
  <2> QED BY <1>2, <2>1, EncodeSyllableKeeps
<1>3. CASE EncodeFails \/ EncodeReturns
  <2>1. /\ UNCHANGED <<session, asked, replayed, dec>> /\ enc.status = "running"
        /\ IsEnc(enc') /\ enc'.locals = enc.locals /\ enc'.offset = enc.offset /\ enc'.cut = enc.cut
        /\ enc'.status = "OK" => enc'.cover = Closed(enc.locals)
    BY <1>0, <1>3, EncoderReturns
  <2>2. UNCHANGED <<session, asked>> /\ UNCHANGED <<session, replayed, dec>> /\ enc.status # "OK"
    BY <2>1
  <2>3. Closed(enc.locals) = ClosedWord(enc.locals.text, enc.locals.partial)
    BY DEF Closed, Styled
  <2> QED BY <2>1, <2>2, <2>3, WrittenStays
<1> QED BY <1>1, <1>2, <1>3, Zenon

(***************************************************************************)
(* What the covertext's words tell the decoder.                            *)
(***************************************************************************)
LEMMA DropAll ==
  ASSUME NEW S, NEW s \in Seq(S)
  PROVE  Drop(s, Len(s)) = <<>>
<1>1. Len(s) \in 0..Len(s)
  OBVIOUS
<1>2. Drop(s, Len(s)) \in Seq(S) /\ Len(Drop(s, Len(s))) = Len(s) - Len(s)
  BY <1>1, DropIs
<1>3. Len(Drop(s, Len(s))) = 0
  <2>1. Len(s) \in Nat
    OBVIOUS
  <2> QED BY <1>2, <2>1
<1> QED BY <1>2, <1>3, EmptySeq

LEMMA DropHead ==
  ASSUME NEW S, NEW s \in Seq(S), NEW m \in Nat, m < Len(s)
  PROVE  /\ Drop(s, m) \in Seq(S) /\ Drop(s, m) # <<>> /\ Drop(s, m)[1] = s[m + 1]
         /\ Head(Drop(s, m)) = s[m + 1] /\ Tail(Drop(s, m)) = Drop(s, m + 1)
<1>1. PICK n \in Nat : n = Len(s) /\ m \in 0..n /\ m + 1 \in 0..n /\ 1 \in 1..(n - m)
  <2>1. PICK n \in Nat : n = Len(s)
    OBVIOUS
  <2> QED BY <2>1
<1>2. PICK d \in Seq(S) : d = Drop(s, m) /\ Len(d) = n - m /\ \A k \in 1..(n - m) : d[k] = s[m + k]
  <2>1. /\ Drop(s, m) \in Seq(S) /\ Len(Drop(s, m)) = n - m
        /\ \A k \in 1..(n - m) : Drop(s, m)[k] = s[m + k]
    BY <1>1, DropIs, Zenon
  <2> QED BY <2>1
<1>3. d # <<>> /\ Head(d) = d[1] /\ d[1] = s[m + 1]
  <2>1. Len(d) # 0
    BY <1>1, <1>2
  <2>2. d # <<>>
    BY <2>1
  <2>3. d[1] = s[m + 1]
    BY <1>1, <1>2
  <2> QED BY <2>2, <2>3
<1>4. PICK e \in Seq(S) : e = Drop(s, m + 1) /\ Len(e) = n - (m + 1) /\ \A k \in 1..(n - (m + 1)) : e[k] = s[(m + 1) + k]
  <2>1. /\ Drop(s, m + 1) \in Seq(S) /\ Len(Drop(s, m + 1)) = n - (m + 1)
        /\ \A k \in 1..(n - (m + 1)) : Drop(s, m + 1)[k] = s[(m + 1) + k]
    BY <1>1, DropIs, Zenon
  <2> QED BY <2>1
<1>5. PICK t \in Seq(S) : t = Tail(d) /\ Len(t) = Len(d) - 1 /\ \A k \in 1..(Len(d) - 1) : t[k] = d[k + 1]
  <2>1. Tail(d) \in Seq(S) /\ Len(Tail(d)) = Len(d) - 1 /\ \A k \in 1..(Len(d) - 1) : Tail(d)[k] = d[k + 1]
    BY <1>3, HeadTailProperties
  <2> QED BY <2>1, Zenon
<1>6. Len(t) = n - (m + 1) /\ Len(d) - 1 = n - (m + 1)
  <2>1. PICK l \in Nat : l = Len(d) /\ l = n - m
    BY <1>2
  <2>2. l - 1 = n - (m + 1)
    BY <2>1
  <2>3. Len(t) = l - 1
    BY <1>5, <2>1
  <2> QED BY <2>1, <2>2, <2>3
<1>7. ASSUME NEW k \in 1..(n - (m + 1)) PROVE t[k] = e[k]
  <2>1. k + 1 \in 1..(n - m) /\ m + (k + 1) = (m + 1) + k
    BY <1>1
  <2>2. t[k] = d[k + 1]
    BY <1>5, <1>6
  <2>3. d[k + 1] = s[m + (k + 1)]
    BY <1>2, <2>1, Zenon
  <2> QED BY <1>4, <2>1, <2>2, <2>3
<1>8. t = e
  BY <1>4, <1>6, <1>7, SeqEqual
<1> QED BY <1>2, <1>3, <1>4, <1>5, <1>8

LEMMA Composed ==
  ASSUME Written
  PROVE  /\ Len(asked) \in Nat /\ DOMAIN asked = 1..Len(asked) /\ Before(Len(asked)) = enc.locals
         /\ \A n \in 0..Len(asked) : IsWordPlace(Before(n), n) /\ Sent(n) \in Nat
         /\ enc.offset = Sent(Len(asked)) /\ enc.offset \in Nat
<1>1. PICK S : asked \in Seq(S)
  BY DEF Written, IsSeq
<1>2. Len(asked) \in Nat /\ DOMAIN asked = 1..Len(asked)
  BY <1>1, LenProperties
<1>3. Len(asked) \in 0..Len(asked)
  BY <1>2
<1>4. Before(Len(asked)) = enc.locals
  BY <1>2 DEF Before
<1> QED BY <1>2, <1>3, <1>4 DEF Written, WordPlaced

(* Every place of the encoder's heads for the covertext.                   *)
LEMMA PlaceHeads ==
  ASSUME Written, ~enc.cut, enc.status = "OK", NEW n \in 0..Len(asked),
         NEW us, us = ExtractWords(Before(n).text), NEW p, p = Before(n).partial,
         NEW all, all = ExtractWords(enc.cover)
  PROVE  /\ us \in Seq(Texts) /\ p \in Texts /\ all \in Seq(Texts)
         /\ Heads(us, p, all)
         /\ n < Len(asked) => GoesOn(us, p, all)
         /\ n = Len(asked) /\ p # <<>> => all = Append(us, p)
         /\ n = Len(asked) /\ p = <<>> => all = us
<1>1. PICK m \in Nat : m = Len(asked) /\ m \in 0..m /\ Before(m) = enc.locals
  <2>1. PICK m \in Nat : m = Len(asked)
    BY Composed, Zenon
  <2> QED BY <2>1, Composed
<1>2. IsWordPlace(Before(n), n) /\ IsWordPlace(enc.locals, m)
  BY <1>1, Composed
<1>3. us \in Seq(Texts) /\ p \in Texts
  BY <1>2, WordsOfPlace
<1>4. PICK vs \in Seq(Texts), q \in Texts : vs = ExtractWords(enc.locals.text) /\ q = enc.locals.partial
  BY <1>2, WordsOfPlace
<1>5. /\ all \in Seq(Texts) /\ Heads(vs, q, all)
      /\ q # <<>> => all = Append(vs, q)
      /\ q = <<>> => all = vs
  <2>0. PICK t : t = enc.locals.text /\ enc.cover = ClosedWord(t, q) /\ Opened(t) /\ q \in Seq(Letters)
    BY <1>2, <1>4 DEF Written, IsWordPlace
  <2>1. CASE q = <<>>
    <3>1. all = vs
      BY <1>4, <2>0, <2>1 DEF ClosedWord
    <3> QED BY <2>1, <3>1 DEF Heads
  <2>2. CASE q # <<>>
    <3>1. enc.cover = Joined(t, q)
      BY <2>0, <2>2 DEF ClosedWord
    <3>2. GoesOn(vs, q, all) /\ all = Append(vs, q)
      BY <1>4, <2>0, <2>2, <3>1, WordEnds
    <3>3. all \in Seq(Texts)
      BY <3>2, AppendProperties
    <3> QED BY <2>2, <3>2, <3>3 DEF Heads
  <2> QED BY <2>1, <2>2
<1>6. CASE n = m
  <2>1. us = vs /\ p = q
    BY <1>1, <1>4, <1>6
  <2> QED BY <1>1, <1>3, <1>5, <1>6, <2>1
<1>7. CASE n # m
  <2>1. n < m
    BY <1>1, <1>7
  <2>2. Leads(Before(n), Before(m))
    BY <1>1, <2>1 DEF Written, Mounts
  <2>3. LeadsTo(us, p, vs, q)
    BY <1>1, <1>4, <2>2 DEF Leads
  <2>4. GoesOn(us, p, all)
    BY <1>3, <1>5, <2>3, HeadsOn
  <2> QED BY <1>1, <1>3, <1>5, <1>7, <2>4 DEF Heads
<1> QED BY <1>6, <1>7

(* What is left of the covertext at a place that heads for it.             *)
LEMMA LeftIs ==
  ASSUME NEW b, NEW us \in Seq(Texts), us = ExtractWords(b.text), NEW p \in Texts, p = b.partial,
         NEW all \in Seq(Texts), all = ExtractWords(enc.cover), GoesOn(us, p, all)
  PROVE  \E w \in Texts :
           /\ w = all[Len(us) + 1] /\ IsPrefix(p, w)
           /\ TodoAt(b) # <<>> /\ Head(TodoAt(b)) = w /\ Tail(TodoAt(b)) = Drop(all, Len(us) + 1)
           /\ LeftAt(b) = Drop(w, Len(p))
<1>1. PICK l \in Nat : l = Len(us) /\ l < Len(all) /\ IsPrefix(p, all[l + 1])
  BY DEF GoesOn
<1>2. l + 1 \in 1..Len(all)
  BY <1>1
<1>3. PICK w \in Texts : w = all[l + 1]
  BY <1>2
<1>4. TodoAt(b) = Drop(all, l)
  BY <1>1 DEF TodoAt
<1>5. /\ Drop(all, l) # <<>> /\ Drop(all, l)[1] = w
      /\ Head(Drop(all, l)) = w /\ Tail(Drop(all, l)) = Drop(all, l + 1)
  BY <1>1, <1>3, DropHead
<1>6. LeftAt(b) = Drop(w, Len(p))
  BY <1>4, <1>5 DEF LeftAt
<1> QED BY <1>1, <1>3, <1>4, <1>5, <1>6

(* The encoder went on with a syllable: the decoder finds it there.        *)
LEMMA GoneOn ==
  ASSUME NEW b, NEW a, NEW us \in Seq(Texts), us = ExtractWords(b.text), NEW p \in Texts, p = b.partial,
         NEW all \in Seq(Texts), all = ExtractWords(enc.cover), GoesOn(us, p, all),
         NEW syllable \in Texts, syllable # <<>>, a.text = b.text, a.partial = Cat(p, syllable),
         Heads(us, a.partial, all)
  PROVE  /\ TodoAt(b) # <<>> /\ TodoAt(a) = TodoAt(b)
         /\ \E rest \in Texts : LeftAt(b) = Cat(syllable, rest) /\ LeftAt(a) = rest
<1>1. PICK q \in Texts : q = a.partial /\ q = Cat(p, syllable) /\ q # <<>>
  <2>1. p \o syllable \in Seq(Char) /\ Len(p \o syllable) = Len(p) + Len(syllable)
    BY ConcatProperties DEF Texts
  <2>2. Len(p) \in Nat /\ Len(syllable) \in Nat /\ Len(syllable) # 0
    BY DEF Texts
  <2>3. p \o syllable # <<>>
    BY <2>1, <2>2
  <2> QED BY <2>1, <2>3, Zenon DEF Cat, Texts
<1>2. GoesOn(us, q, all)
  BY <1>1 DEF Heads
<1>3. PICK w \in Texts : /\ w = all[Len(us) + 1] /\ TodoAt(b) # <<>> /\ LeftAt(b) = Drop(w, Len(p))
  BY LeftIs
<1>4. IsPrefix(q, w) /\ LeftAt(a) = Drop(w, Len(q))
  BY <1>1, <1>2, <1>3, LeftIs
<1>5. TodoAt(a) = TodoAt(b)
  BY DEF TodoAt
<1>6. PICK rest \in Texts : rest = Drop(w, Len(q)) /\ w = Cat(q, rest)
  <2>1. Drop(w, Len(q)) \in Seq(Char) /\ w = q \o Drop(w, Len(q))
    BY <1>4, PrefixRest, Zenon DEF Texts
  <2> QED BY <2>1, Zenon DEF Cat, Texts
<1>7. w = Cat(p, Cat(syllable, rest)) /\ Cat(syllable, rest) \in Seq(Char)
  <2>1. p \in Seq(Char) /\ syllable \in Seq(Char) /\ rest \in Seq(Char)
    BY DEF Texts
  <2>2. Cat(syllable, rest) \in Seq(Char)
    <3>1. syllable \o rest \in Seq(Char)
      BY <2>1, ConcatProperties
    <3> QED BY <3>1 DEF Cat
  <2>3. Cat(Cat(p, syllable), rest) = Cat(p, Cat(syllable, rest))
    BY <2>1, CatIs, Zenon
  <2>4. w = Cat(Cat(p, syllable), rest)
    BY <1>1, <1>6
  <2> QED BY <2>2, <2>3, <2>4
<1>8. Drop(w, Len(p)) = Cat(syllable, rest)
  <2>1. p \in Seq(Char) /\ w = p \o Cat(syllable, rest)
    BY <1>7 DEF Cat, Texts
  <2> QED BY <1>7, <2>1, DropConcat
<1> QED BY <1>3, <1>4, <1>5, <1>6, <1>8, Zenon

(* It ended the word: there is nothing left of it.                         *)
LEMMA WordDone ==
  ASSUME NEW b, NEW a, NEW us \in Seq(Texts), us = ExtractWords(b.text), NEW p \in Texts, p = b.partial,
         NEW all \in Seq(Texts), all = ExtractWords(enc.cover), p # <<>>,
         ExtractWords(a.text) = Append(us, p), a.partial = <<>>, Heads(Append(us, p), <<>>, all)
  PROVE  /\ TodoAt(b) # <<>> /\ LeftAt(b) = <<>> /\ Head(TodoAt(b)) = p
         /\ TodoAt(a) = Tail(TodoAt(b))
         /\ LeftAt(a) = IF TodoAt(a) = <<>> THEN <<>> ELSE Head(TodoAt(a))
<1>1. PICK vs \in Seq(Texts), l \in Nat : /\ vs = Append(us, p) /\ l = Len(us) /\ Len(vs) = l + 1
                                          /\ vs[l + 1] = p /\ \A k \in 1..l : vs[k] = us[k]
  <2>1. PICK l \in Nat : l = Len(us)
    OBVIOUS
  <2>2. /\ Append(us, p) \in Seq(Texts) /\ Len(Append(us, p)) = l + 1 /\ Append(us, p)[l + 1] = p
        /\ \A k \in 1..l : Append(us, p)[k] = us[k]
    BY <2>1, AppendOf
  <2> QED BY <2>1, <2>2, Zenon
<1>2. l < Len(all) /\ all[l + 1] = p /\ Len(all) \in Nat
  <2>1. CASE all = vs
    BY <1>1, <2>1
  <2>2. CASE GoesOn(vs, <<>>, all)
    <3>1. Len(vs) < Len(all) /\ \A k \in 1..Len(vs) : all[k] = vs[k]
      BY <2>2 DEF GoesOn
    <3>2. Len(all) \in Nat /\ l + 1 \in 1..(l + 1)
      BY <1>1
    <3> QED BY <1>1, <3>1, <3>2
  <2> QED BY <1>1, <2>1, <2>2 DEF Heads
<1>3. TodoAt(b) = Drop(all, l) /\ TodoAt(a) = Drop(all, l + 1)
  BY <1>1 DEF TodoAt
<1>4. /\ Drop(all, l) # <<>> /\ Drop(all, l)[1] = p
      /\ Head(Drop(all, l)) = p /\ Tail(Drop(all, l)) = Drop(all, l + 1)
  BY <1>2, DropHead, Zenon
<1>5. LeftAt(b) = Drop(p, Len(p))
  BY <1>3, <1>4 DEF LeftAt
<1>6. Drop(p, Len(p)) = <<>>
  BY DropAll DEF Texts
<1>7. LeftAt(a) = IF TodoAt(a) = <<>> THEN <<>> ELSE Head(TodoAt(a))
  <2>1. CASE TodoAt(a) = <<>>
    BY <2>1 DEF LeftAt
  <2>2. CASE TodoAt(a) # <<>>
    <3>1. l + 1 < Len(all)
      <4> SUFFICES ASSUME ~(l + 1 < Len(all)) PROVE FALSE
        OBVIOUS
      <4>1. Len(all) = l + 1
        BY <1>2
      <4>2. Drop(all, Len(all)) = <<>>
        BY DropAll
      <4> QED BY <1>3, <2>2, <4>1, <4>2
    <3>2. PICK w \in Texts : w = all[(l + 1) + 1]
      <4>1. (l + 1) + 1 \in 1..Len(all)
        BY <1>2, <3>1
      <4> QED BY <4>1
    <3>3. Drop(all, l + 1)[1] = w /\ Head(Drop(all, l + 1)) = w
      <4>1. l + 1 \in Nat
        OBVIOUS
      <4> QED BY <3>1, <3>2, <4>1, DropHead
    <3>4. Len(a.partial) = 0
      OBVIOUS
    <3>5. Drop(w, 0) = w
      BY DropNone DEF Texts
    <3> QED BY <1>3, <2>2, <3>3, <3>4, <3>5 DEF LeftAt
  <2> QED BY <2>1, <2>2
<1> QED BY <1>3, <1>4, <1>5, <1>6, <1>7

(***************************************************************************)
(* What the covertext and the model's answers tell the decoder.  At a      *)
(* place that is not the encoder's last, its next syllable, or that there  *)
(* is none because it ended the word.                                      *)
(***************************************************************************)
EndsWord(b, a) ==
  /\ LeftAt(b) = <<>> /\ a.text = Joined(b.text, Head(TodoAt(b))) /\ a.partial = <<>>
  /\ TodoAt(a) = Tail(TodoAt(b))
  /\ LeftAt(a) = IF TodoAt(a) = <<>> THEN <<>> ELSE Head(TodoAt(a))

GoesOnWith(b, table, chosen, a) ==
  /\ LeftAt(b) # <<>> /\ a.text = b.text /\ a.partial = Cat(b.partial, chosen) /\ TodoAt(a) = TodoAt(b)
  /\ \E i \in 1..Len(table), rest \in Texts :
       chosen = table[i].text /\ LeftAt(b) = Cat(chosen, rest) /\ LeftAt(a) = rest

SpellsOn(n, b, o, table, c, a) ==
  /\ table \in SyllableTables(b) /\ IsWordPlace(b, n) /\ o \in Nat /\ c.consumed \in 0..Beta
  /\ a.pos = b.pos + Beta /\ Sent(n + 1) = o + c.consumed
  /\ asked[n + 1].prompt = SyllablePrompt(b) /\ asked[n + 1].maskAt = b.pos
  /\ DecodeStep(table, c.chosen, SyllableMask(b)) = SubSeq(WindowAt(Bits, o), 1, c.consumed)
  /\ TodoAt(b) # <<>>
  /\ c.chosen = EowText => EndsWord(b, a)
  /\ c.chosen # EowText => GoesOnWith(b, table, c.chosen, a) /\ ~Overflows(Cat(b.partial, c.chosen))

LEMMA NextSyllable ==
  ASSUME Given, Written, ~enc.cut, enc.status = "OK", NEW n \in Nat, n < Len(asked),
         NEW b, b = Before(n), NEW o, o = Sent(n), NEW table, table = asked[n + 1].table,
         NEW c, c = Spelling(b, o, table), NEW a, a = Before(n + 1)
  PROVE  SpellsOn(n, b, o, table, c, a)
<1>1. PICK m \in Nat : m = Len(asked) /\ n \in 0..m /\ n + 1 \in 1..m /\ n + 1 \in 0..m /\ (n + 1) - 1 = n
  <2>1. PICK m \in Nat : m = Len(asked)
    BY Composed, Zenon
  <2> QED BY <2>1
<1>2. Spells(n + 1) /\ IsWordPlace(b, n) /\ o \in Nat /\ n < MaxSteps
  <2>1. m <= MaxSteps
    BY <1>1 DEF Written
  <2>2. n < MaxSteps
    BY <1>1, <2>1, StepDrawsIs
  <2>3. IsWordPlace(Before(n), n) /\ Sent(n) \in Nat
    BY <1>1, Composed
  <2> QED BY <1>1, <2>2, <2>3 DEF Written
<1>3. /\ table \in SyllableTables(b) /\ asked[n + 1].prompt = SyllablePrompt(b) /\ asked[n + 1].maskAt = b.pos
      /\ asked[n + 1].offset = o + c.consumed /\ a = Spelt(b, o, table)
  BY <1>1, <1>2 DEF Spells
<1>4. Sent(n + 1) = o + c.consumed /\ ~Loses(b, c.chosen)
  <2>1. Fits(n + 1)
    BY <1>1 DEF Written
  <2> QED BY <1>1, <1>3, <2>1 DEF Sent, Fits
<1>5. /\ c.consumed \in 0..Beta
      /\ \E i \in 1..Len(table) : c.chosen = table[i].text
      /\ DecodeStep(table, c.chosen, SyllableMask(b)) = SubSeq(WindowAt(Bits, o), 1, c.consumed)
      /\ a.pos = b.pos + Beta
      /\ c.chosen = EowText =>
           /\ b.partial # <<>> /\ a.text = Joined(b.text, b.partial) /\ a.partial = <<>>
           /\ ExtractWords(a.text) = Append(ExtractWords(b.text), b.partial)
      /\ c.chosen # EowText => a.text = b.text /\ a.partial = Cat(b.partial, c.chosen)
  <2>1. Onward(n, b, o, table)
    BY <1>2, <1>3, StepOnward
  <2> QED BY <1>3, <1>4, <2>1 DEF Onward
<1>6. PICK i \in 1..Len(table) : c.chosen = table[i].text
  BY <1>5, Zenon
<1>7. PICK us \in Seq(Texts), p \in Texts, all \in Seq(Texts) :
        us = ExtractWords(b.text) /\ p = b.partial /\ all = ExtractWords(enc.cover) /\ GoesOn(us, p, all)
  <2>1. PICK us, p, all : us = ExtractWords(b.text) /\ p = b.partial /\ all = ExtractWords(enc.cover)
    OBVIOUS
  <2>2. us = ExtractWords(Before(n).text) /\ p = Before(n).partial /\ n \in 0..Len(asked)
    BY <1>1, <2>1
  <2>3. us \in Seq(Texts) /\ p \in Texts /\ all \in Seq(Texts) /\ GoesOn(us, p, all)
    BY <2>1, <2>2, PlaceHeads
  <2> QED BY <2>1, <2>3
<1>8. Heads(ExtractWords(a.text), a.partial, all)
  <2>1. PICK vs, q : vs = ExtractWords(a.text) /\ q = a.partial
    OBVIOUS
  <2>2. vs = ExtractWords(Before(n + 1).text) /\ q = Before(n + 1).partial /\ n + 1 \in 0..Len(asked)
    BY <1>1, <2>1
  <2>3. Heads(vs, q, all)
    BY <1>7, <2>2, PlaceHeads
  <2> QED BY <2>1, <2>3
<1>9. CASE c.chosen = EowText
  <2>1. p # <<>> /\ a.text = Joined(b.text, p) /\ a.partial = <<>> /\ ExtractWords(a.text) = Append(us, p)
    BY <1>5, <1>7, <1>9, Zenon
  <2>2. Heads(Append(us, p), <<>>, all)
    BY <1>8, <2>1, Zenon
  <2>3. /\ TodoAt(b) # <<>> /\ LeftAt(b) = <<>> /\ Head(TodoAt(b)) = p
        /\ TodoAt(a) = Tail(TodoAt(b))
        /\ LeftAt(a) = IF TodoAt(a) = <<>> THEN <<>> ELSE Head(TodoAt(a))
    BY <1>7, <2>1, <2>2, WordDone, Zenon
  <2>4. EndsWord(b, a)
    BY <2>1, <2>3, Zenon DEF EndsWord
  <2> QED BY <1>2, <1>3, <1>4, <1>5, <1>9, <2>3, <2>4 DEF SpellsOn
<1>10. CASE c.chosen # EowText
  <2>1. PICK syllable \in Texts : syllable = c.chosen /\ syllable # <<>>
    <3>1. table \in Openings \cup Continuations
      BY <1>3, SomeTable
    <3>2. table[i].text \in Seq(Char) /\ table[i].text # <<>>
      BY <3>1, SyllablesIs, Zenon
    <3> QED BY <1>6, <3>2 DEF Texts
  <2>2. a.text = b.text /\ a.partial = Cat(p, syllable)
    BY <1>5, <1>7, <1>10, <2>1
  <2>3. Heads(us, a.partial, all)
    BY <1>7, <1>8, <2>2
  <2>4. /\ TodoAt(b) # <<>> /\ TodoAt(a) = TodoAt(b)
        /\ \E rest \in Texts : LeftAt(b) = Cat(syllable, rest) /\ LeftAt(a) = rest
    BY <1>7, <2>1, <2>2, <2>3, GoneOn
  <2>5. PICK rest \in Texts : LeftAt(b) = Cat(syllable, rest) /\ LeftAt(a) = rest
    BY <2>4
  <2>6. LeftAt(b) # <<>>
    <3>1. syllable \o rest # <<>>
      BY <2>1, ConcatLonger DEF Texts
    <3> QED BY <2>5, <3>1 DEF Cat
  <2>7. GoesOnWith(b, table, c.chosen, a) /\ ~Overflows(Cat(b.partial, c.chosen))
    BY <1>4, <1>6, <1>7, <1>10, <2>1, <2>2, <2>4, <2>5, <2>6 DEF GoesOnWith, Loses
  <2> QED BY <1>2, <1>3, <1>4, <1>5, <1>10, <2>4, <2>7 DEF SpellsOn
<1> QED BY <1>9, <1>10

(* No two prompts of the encoder's are the same.                           *)
LEMMA LeadsAway ==
  ASSUME NEW b, NEW c, NEW i, NEW j, IsWordPlace(b, i), IsWordPlace(c, j), Leads(b, c)
  PROVE  SyllablePrompt(b) # SyllablePrompt(c)
<1> SUFFICES ASSUME SyllablePrompt(b) = SyllablePrompt(c) PROVE FALSE
  OBVIOUS
<1>1. b.text = c.text /\ b.partial = c.partial
  BY DEF SyllablePrompt
<1>2. PICK us \in Seq(Texts), p \in Texts : us = ExtractWords(b.text) /\ p = b.partial
  BY WordsOfPlace
<1>3. LeadsTo(us, p, us, p)
  BY <1>1, <1>2 DEF Leads
<1>4. Len(us) \in Nat /\ Len(p) \in Nat
  BY DEF Texts
<1> QED BY <1>3, <1>4 DEF LeadsTo, GoesOn

LEMMA OneSyllableAnswer ==
  ASSUME Written, ~enc.cut, NEW n \in Nat, n < Len(asked), NEW prompt, prompt = SyllablePrompt(Before(n)), NEW T
  PROVE  Answers(prompt, T) = {asked[n + 1].table}
<1>1. PICK m \in Nat : m = Len(asked) /\ DOMAIN asked = 1..m
  BY Composed, Zenon
<1>2. ASSUME NEW i \in 1..m, NEW j \in 1..m, i < j PROVE asked[i].prompt # asked[j].prompt
  <2>1. PICK k \in 0..m, l \in 0..m : k = i - 1 /\ l = j - 1 /\ k < l
    BY <1>2
  <2>2. asked[i].prompt = SyllablePrompt(Before(k)) /\ asked[j].prompt = SyllablePrompt(Before(l))
    BY <1>1, <2>1 DEF Written, Spells
  <2>3. Leads(Before(k), Before(l))
    BY <1>1, <2>1 DEF Written, Mounts
  <2>4. IsWordPlace(Before(k), k) /\ IsWordPlace(Before(l), l)
    BY <1>1, Composed
  <2> QED BY <2>2, <2>3, <2>4, LeadsAway
<1>3. n + 1 \in 1..m /\ asked[n + 1].prompt = prompt
  <2>1. n + 1 \in 1..m /\ (n + 1) - 1 = n
    BY <1>1
  <2> QED BY <1>1, <2>1 DEF Written, Spells
<1> DEFINE known == {i \in DOMAIN asked : asked[i].prompt = prompt}
<1>4. known = {n + 1}
  <2> SUFFICES ASSUME NEW i \in 1..m, asked[i].prompt = prompt PROVE i = n + 1
    BY <1>1, <1>3
  <2>1. ~(i < n + 1) /\ ~(n + 1 < i)
    BY <1>2, <1>3
  <2> QED BY <2>1
<1> QED BY <1>4 DEF Answers

(* A word the encoder left open is the last of the covertext.              *)
LEMMA LastWord ==
  ASSUME Written, ~enc.cut, enc.status = "OK", NEW b, b = enc.locals
  PROVE  /\ b.partial = <<>> => TodoAt(b) = <<>>
         /\ b.partial # <<>> => LeftAt(b) = <<>> /\ TodoAt(b) # <<>> /\ Tail(TodoAt(b)) = <<>>
<1>1. PICK m \in Nat : m = Len(asked) /\ m \in 0..m /\ Before(m) = b
  <2>1. PICK m \in Nat : m = Len(asked)
    BY Composed, Zenon
  <2> QED BY <2>1, Composed
<1>2. PICK us, p, all : us = ExtractWords(b.text) /\ p = b.partial /\ all = ExtractWords(enc.cover)
  OBVIOUS
<1>3. /\ us \in Seq(Texts) /\ p \in Texts /\ all \in Seq(Texts)
      /\ p # <<>> => all = Append(us, p)
      /\ p = <<>> => all = us
  <2>1. us = ExtractWords(Before(m).text) /\ p = Before(m).partial /\ m \in 0..Len(asked)
    BY <1>1, <1>2
  <2> QED BY <1>1, <1>2, <2>1, PlaceHeads, Zenon
<1>4. CASE p = <<>>
  <2>1. Drop(us, Len(us)) = <<>>
    BY <1>3, DropAll
  <2> QED BY <1>2, <1>3, <1>4, <2>1 DEF TodoAt
<1>5. CASE p # <<>>
  <2>1. PICK vs \in Seq(Texts), l \in Nat : vs = Append(us, p) /\ l = Len(us) /\ Len(vs) = l + 1 /\ vs[l + 1] = p
    <3>1. PICK l \in Nat : l = Len(us)
      BY <1>3
    <3>2. Append(us, p) \in Seq(Texts) /\ Len(Append(us, p)) = l + 1 /\ Append(us, p)[l + 1] = p
      BY <1>3, <3>1, AppendOf
    <3> QED BY <3>1, <3>2, Zenon
  <2>2. TodoAt(b) = Drop(vs, l)
    BY <1>2, <1>3, <1>5, <2>1, Zenon DEF TodoAt
  <2>3. /\ Drop(vs, l) # <<>> /\ Drop(vs, l)[1] = p /\ Tail(Drop(vs, l)) = Drop(vs, l + 1)
    <3>1. l < Len(vs) /\ vs[l + 1] = p
      BY <2>1
    <3>2. /\ Drop(vs, l) # <<>> /\ Drop(vs, l)[1] = vs[l + 1] /\ Tail(Drop(vs, l)) = Drop(vs, l + 1)
      BY <3>1, DropHead
    <3> QED BY <3>1, <3>2
  <2>4. Drop(vs, l + 1) = <<>>
    BY <2>1, DropAll, Zenon
  <2>5. Drop(p, Len(p)) = <<>>
    BY <1>3, DropAll DEF Texts
  <2> QED BY <1>2, <1>5, <2>2, <2>3, <2>4, <2>5 DEF LeftAt
<1> QED BY <1>2, <1>4, <1>5

(***************************************************************************)
(* The steps of the decoder.                                               *)
(***************************************************************************)
LEMMA SpellerSide ==
  ASSUME UNCHANGED <<session, asked, enc>>
  PROVE  /\ \A n : Before(n)' = Before(n) /\ Sent(n)' = Sent(n)
         /\ \A b : TodoAt(b)' = TodoAt(b) /\ LeftAt(b)' = LeftAt(b)
         /\ \A k : Buffered(k)' = Buffered(k)
         /\ \A i : Padded(i)' = Padded(i)
         /\ Bits' = Bits /\ asked' = asked /\ enc' = enc /\ style' = style /\ (Dangling' <=> Dangling)
<1>0. UNCHANGED session /\ asked' = asked /\ enc' = enc /\ style' = style
  BY DEF session
<1>1. \A n : Before(n)' = Before(n) /\ Sent(n)' = Sent(n)
  BY <1>0 DEF Before, Sent
<1>2. \A b : TodoAt(b)' = TodoAt(b)
  BY <1>0 DEF TodoAt
<1>3. \A b : LeftAt(b)' = LeftAt(b)
  BY <1>2 DEF LeftAt
<1>4. Bits' = Bits
  BY <1>0, Unchanging
<1>5. \A i : Padded(i)' = Padded(i)
  BY <1>4 DEF Padded
<1>6. \A k : Buffered(k)' = Buffered(k)
  BY <1>5 DEF Buffered
<1>7. Dangling' <=> Dangling
  BY <1>0 DEF Dangling
<1> QED BY <1>0, <1>1, <1>2, <1>3, <1>4, <1>5, <1>6, <1>7

(* What a step does with the model's answer: every step leaves its prompt, *)
(* and spells a syllable or goes on to the next word.                      *)
AsksAgain(s) == \E e : replayed' = Append(replayed, e) /\ e.prompt = SyllablePrompt(s) /\ e.maskAt = s.pos

SpellsMore(table) ==
  LET s     == dec.locals
      heard == Syllable(table, dec.remaining)
      bits  == Recover(dec.bits, DecodeStep(table, heard.text, SyllableMask(s)))
  IN /\ AsksAgain(s) /\ IsDec(dec') /\ dec'.bits = bits
     /\ dec'.skipped = dec.skipped /\ dec'.wordless = dec.wordless
     /\ Matching(table, dec.remaining) # {} /\ ~dec.unmatched => ~dec'.unmatched
     /\ dec'.status = IF NullTerminatorFound(bits) THEN "stopped" ELSE "running"
     /\ NullTerminatorFound(bits) => dec'.locals = [s EXCEPT !.pos = @ + Beta]
     /\ ~NullTerminatorFound(bits) =>
          /\ dec'.locals = [[s EXCEPT !.pos = @ + Beta] EXCEPT !.partial = Cut(Cat(@, heard.text))]
          /\ dec'.todo = dec.todo
          /\ dec'.remaining = SubSeq(dec.remaining, heard.length + 1, Len(dec.remaining))

ToNextWord(drawn) ==
  /\ dec'.locals = [dec.locals EXCEPT !.pos = drawn, !.text = Joined(@, Head(dec.todo)), !.partial = <<>>]
  /\ dec'.todo = Tail(dec.todo)
  /\ dec'.remaining = IF Tail(dec.todo) = <<>> THEN <<>> ELSE Head(Tail(dec.todo))

ClosesWord(table) ==
  LET s    == dec.locals
      bits == Recover(dec.bits, DecodeStep(table, EowText, SyllableMask(s)))
  IN /\ AsksAgain(s) /\ IsDec(dec') /\ dec'.bits = bits
     /\ dec'.skipped = dec.skipped /\ dec'.wordless = dec.wordless /\ dec'.unmatched = dec.unmatched
     /\ dec'.status = IF NullTerminatorFound(bits) THEN "stopped" ELSE "running"
     /\ NullTerminatorFound(bits) => dec'.locals = [s EXCEPT !.pos = @ + Beta]
     /\ ~NullTerminatorFound(bits) => ToNextWord(s.pos + Beta)

SkipsClosing ==
  /\ AsksAgain(dec.locals) /\ IsDec(dec') /\ dec'.skipped = TRUE /\ dec'.wordless = dec.wordless
  /\ dec'.unmatched = dec.unmatched /\ dec'.status = "running" /\ ToNextWord(dec.locals.pos)

LEMMA DecodeSyllableIs ==
  ASSUME DecodeSyllable, IsDec(dec)
  PROVE  \E table \in Answers(SyllablePrompt(dec.locals), SyllableTables(dec.locals)) : SpellsMore(table)
<1>1. dec.status = "running"
  BY DEF DecodeSyllable, DecoderRuns
<1> DEFINE Heard(table) == Syllable(table, dec.remaining)
           Got(table)   == Recover(dec.bits, DecodeStep(table, Heard(table).text, SyllableMask(dec.locals)))
           Moved        == [dec.locals EXCEPT !.pos = @ + Beta]
           Readof(table) == [dec EXCEPT !.bits = Got(table), !.locals.pos = @ + Beta,
                                        !.unmatched = @ \/ Matching(table, dec.remaining) = {}]
           Did(table) ==
             dec' = IF NullTerminatorFound(Got(table))
                    THEN [Readof(table) EXCEPT !.status = "stopped"]
                    ELSE [Readof(table) EXCEPT
                            !.locals.partial = Cut(Cat(@, Heard(table).text)),
                            !.remaining      = SubSeq(@, Heard(table).length + 1, Len(@))]
<1>2. /\ \E table \in Answers(SyllablePrompt(dec.locals), SyllableTables(dec.locals)) : Did(table)
      /\ replayed' = Append(replayed, [prompt |-> SyllablePrompt(dec.locals), maskAt |-> dec.locals.pos])
  BY Zenon, Zenon DEF DecodeSyllable, Cat
<1>3. PICK table \in Answers(SyllablePrompt(dec.locals), SyllableTables(dec.locals)) : Did(table)
  BY <1>2, Zenon
<1>4. PICK s, heard, bits, read, u :
        /\ s = dec.locals /\ heard = Syllable(table, dec.remaining)
        /\ bits = Recover(dec.bits, DecodeStep(table, heard.text, SyllableMask(dec.locals)))
        /\ u = (dec.unmatched \/ Matching(table, dec.remaining) = {})
        /\ read = [dec EXCEPT !.bits = bits, !.locals.pos = @ + Beta,
                              !.unmatched = @ \/ Matching(table, dec.remaining) = {}]
  BY Zenon
<1>5. dec' = IF NullTerminatorFound(bits)
             THEN [read EXCEPT !.status = "stopped"]
             ELSE [read EXCEPT !.locals.partial = Cut(Cat(@, heard.text)),
                               !.remaining = SubSeq(@, heard.length + 1, Len(@))]
  <2>1. heard = Heard(table) /\ bits = Got(table)
    BY <1>4
  <2>2. read = Readof(table)
    BY <1>4, <2>1
  <2> HIDE DEF Heard, Got, Readof
  <2> QED BY Zenon, <1>3, <2>1, <2>2, Zenon
<1>5a. PICK moved : moved = [s EXCEPT !.pos = @ + Beta]
  OBVIOUS
<1>5b. read = [status |-> "running", preamble |-> dec.preamble, locals |-> moved, remaining |-> dec.remaining,
               todo |-> dec.todo, bits |-> bits, unmatched |-> u, skipped |-> dec.skipped,
               wordless |-> dec.wordless, result |-> dec.result]
  BY <1>1, <1>4, <1>5a, Zenon DEF IsDec
<1>5c. Matching(table, dec.remaining) # {} /\ ~dec.unmatched => ~u
  BY <1>4, Zenon
<1> HIDE DEF Did, Got, Heard, Moved, Readof
<1>6. /\ IsDec(dec') /\ dec'.bits = bits /\ dec'.skipped = dec.skipped /\ dec'.wordless = dec.wordless
      /\ dec'.unmatched = u
      /\ dec'.status = IF NullTerminatorFound(bits) THEN "stopped" ELSE "running"
      /\ NullTerminatorFound(bits) => dec'.locals = moved
      /\ ~NullTerminatorFound(bits) =>
           /\ dec'.locals = [moved EXCEPT !.partial = Cut(Cat(@, heard.text))]
           /\ dec'.todo = dec.todo
           /\ dec'.remaining = SubSeq(dec.remaining, heard.length + 1, Len(dec.remaining))
  <2>1. CASE NullTerminatorFound(bits)
    <3>1. dec' = [status |-> "stopped", preamble |-> dec.preamble, locals |-> moved,
                  remaining |-> dec.remaining, todo |-> dec.todo, bits |-> bits, unmatched |-> u,
                  skipped |-> dec.skipped, wordless |-> dec.wordless, result |-> dec.result]
      BY <1>5, <1>5b, <2>1, Zenon
    <3> QED BY <2>1, <3>1 DEF IsDec
  <2>2. CASE ~NullTerminatorFound(bits)
    <3>1. dec' = [status |-> "running", preamble |-> dec.preamble,
                  locals |-> [moved EXCEPT !.partial = Cut(Cat(@, heard.text))],
                  remaining |-> SubSeq(dec.remaining, heard.length + 1, Len(dec.remaining)), todo |-> dec.todo,
                  bits |-> bits, unmatched |-> u, skipped |-> dec.skipped, wordless |-> dec.wordless,
                  result |-> dec.result]
      BY <1>5, <1>5b, <2>2, Zenon
    <3> QED BY <2>2, <3>1 DEF IsDec
  <2> QED BY <2>1, <2>2
<1>7. AsksAgain(dec.locals)
  <2>1. PICK e : e = [prompt |-> SyllablePrompt(dec.locals), maskAt |-> dec.locals.pos]
    BY Zenon
  <2>2. replayed' = Append(replayed, e)
    BY Zenon, <1>2, <2>1, Zenon
  <2> QED BY <2>1, <2>2 DEF AsksAgain
<1>8. SpellsMore(table)
  BY <1>4, <1>5a, <1>5c, <1>6, <1>7 DEF SpellsMore
<1> QED BY <1>3, <1>8

LEMMA DecodeEndOfWordIs ==
  ASSUME DecodeEndOfWord, IsDec(dec)
  PROVE  \E table \in Answers(SyllablePrompt(dec.locals), SyllableTables(dec.locals)) : ClosesWord(table)
<1>1. dec.status = "running"
  BY DEF DecodeEndOfWord, WordIsSpelled, DecoderRuns
<1> DEFINE Got(table) == Recover(dec.bits, DecodeStep(table, EowText, SyllableMask(dec.locals)))
           Moved(bits) == [dec EXCEPT !.bits = bits, !.locals.pos = @ + Beta]
           Did(table) == dec' = IF NullTerminatorFound(Got(table))
                                THEN [Moved(Got(table)) EXCEPT !.status = "stopped"]
                                ELSE NextWord(Moved(Got(table)))
<1>2. /\ \E table \in Answers(SyllablePrompt(dec.locals), SyllableTables(dec.locals)) : Did(table)
      /\ replayed' = Append(replayed, [prompt |-> SyllablePrompt(dec.locals), maskAt |-> dec.locals.pos])
  BY Zenon, Zenon DEF DecodeEndOfWord
<1>3. PICK table \in Answers(SyllablePrompt(dec.locals), SyllableTables(dec.locals)) : Did(table)
  BY <1>2, Zenon
<1>4. PICK s, bits : s = dec.locals /\ bits = Recover(dec.bits, DecodeStep(table, EowText, SyllableMask(s)))
  OBVIOUS
<1>5. PICK d : d = Moved(bits)
  OBVIOUS
<1>5a. bits = Got(table)
  BY <1>4
<1>6. dec' = IF NullTerminatorFound(bits) THEN [d EXCEPT !.status = "stopped"] ELSE NextWord(d)
  <2> HIDE DEF Got, Moved
  <2> QED BY Zenon, <1>3, <1>5, <1>5a, Zenon
<1>7. d = [status |-> "running", preamble |-> dec.preamble, locals |-> [s EXCEPT !.pos = @ + Beta],
           remaining |-> dec.remaining, todo |-> dec.todo, bits |-> bits, unmatched |-> dec.unmatched,
           skipped |-> dec.skipped, wordless |-> dec.wordless, result |-> dec.result]
  BY <1>1, <1>4, <1>5, Zenon DEF IsDec
<1> HIDE DEF Did, Got, Moved
<1>8. /\ IsDec(dec') /\ dec'.bits = bits /\ dec'.skipped = dec.skipped /\ dec'.unmatched = dec.unmatched
      /\ dec'.wordless = dec.wordless
      /\ dec'.status = IF NullTerminatorFound(bits) THEN "stopped" ELSE "running"
      /\ NullTerminatorFound(bits) => dec'.locals = [s EXCEPT !.pos = @ + Beta]
      /\ ~NullTerminatorFound(bits) => ToNextWord(s.pos + Beta)
  <2>1. CASE NullTerminatorFound(bits)
    <3>1. dec' = [status |-> "stopped", preamble |-> dec.preamble, locals |-> [s EXCEPT !.pos = @ + Beta],
                  remaining |-> dec.remaining, todo |-> dec.todo, bits |-> bits,
                  unmatched |-> dec.unmatched, skipped |-> dec.skipped, wordless |-> dec.wordless,
                  result |-> dec.result]
      BY <1>6, <1>7, <2>1
    <3> QED BY <2>1, <3>1 DEF IsDec
  <2>2. CASE ~NullTerminatorFound(bits)
    <3>1. PICK t, h, r : t = Tail(dec.todo) /\ h = Head(dec.todo) /\ r = IF t = <<>> THEN <<>> ELSE Head(t)
      BY Zenon
    <3>2. dec' = [status |-> "running", preamble |-> dec.preamble,
                  locals |-> [[s EXCEPT !.pos = @ + Beta] EXCEPT !.text = Joined(@, h), !.partial = <<>>],
                  remaining |-> r, todo |-> t, bits |-> bits, unmatched |-> dec.unmatched,
                  skipped |-> dec.skipped, wordless |-> dec.wordless, result |-> dec.result]
      BY <1>6, <1>7, <2>2, <3>1, Zenon DEF NextWord
    <3>3. [[s EXCEPT !.pos = @ + Beta] EXCEPT !.text = Joined(@, h), !.partial = <<>>]
            = [s EXCEPT !.pos = s.pos + Beta, !.text = Joined(@, h), !.partial = <<>>]
      OBVIOUS
    <3>4. ToNextWord(s.pos + Beta)
      BY <1>4, <3>1, <3>2, <3>3 DEF ToNextWord
    <3> QED BY <2>2, <3>2, <3>4 DEF IsDec
  <2> QED BY <2>1, <2>2
<1>9. AsksAgain(dec.locals)
  <2>1. PICK e : e = [prompt |-> SyllablePrompt(dec.locals), maskAt |-> dec.locals.pos]
    BY Zenon
  <2>2. replayed' = Append(replayed, e)
    BY Zenon, <1>2, <2>1, Zenon
  <2> QED BY <2>1, <2>2 DEF AsksAgain
<1>10. ClosesWord(table)
  BY <1>4, <1>8, <1>9 DEF ClosesWord
<1> QED BY <1>3, <1>10

LEMMA SkipEndOfWordIs ==
  ASSUME SkipEndOfWord, IsDec(dec)
  PROVE  SkipsClosing /\ dec'.bits = dec.bits
<1>1. dec.status = "running"
  BY DEF SkipEndOfWord, WordIsSpelled, DecoderRuns
<1>2. PICK s, t, h, r : /\ s = dec.locals /\ t = Tail(dec.todo) /\ h = Head(dec.todo)
                        /\ r = IF t = <<>> THEN <<>> ELSE Head(t)
  BY Zenon
<1>3. dec' = [status |-> "running", preamble |-> dec.preamble,
              locals |-> [s EXCEPT !.text = Joined(@, h), !.partial = <<>>],
              remaining |-> r, todo |-> t, bits |-> dec.bits, unmatched |-> dec.unmatched,
              skipped |-> TRUE, wordless |-> dec.wordless, result |-> dec.result]
  BY <1>1, <1>2, Zenon DEF SkipEndOfWord, NextWord, IsDec
<1>4. [s EXCEPT !.text = Joined(@, h), !.partial = <<>>]
        = [s EXCEPT !.pos = s.pos, !.text = Joined(@, h), !.partial = <<>>]
  BY Zenon
<1>5. ToNextWord(s.pos)
  BY <1>2, <1>3, <1>4 DEF ToNextWord
<1>6. AsksAgain(s)
  <2>1. PICK e : e = [prompt |-> SyllablePrompt(dec.locals), maskAt |-> dec.locals.pos]
    BY Zenon
  <2>2. replayed' = Append(replayed, e)
    BY Zenon, <2>1, Zenon DEF SkipEndOfWord
  <2> QED BY <1>2, <2>1, <2>2 DEF AsksAgain
<1> QED BY <1>2, <1>3, <1>5, <1>6 DEF SkipsClosing, IsDec

(***************************************************************************)
(* The decoder where the encoder was.                                      *)
(***************************************************************************)
LEMMA StandsNow ==
  ASSUME NEW b, StandsAt(b)
  PROVE  /\ SyllablePrompt(dec.locals) = SyllablePrompt(b) /\ SyllableTables(dec.locals) = SyllableTables(b)
         /\ ~dec.skipped => SyllableMask(dec.locals) = SyllableMask(b)
BY DEF StandsAt, SyllablePrompt, SyllableTables, SyllableMask

Reaches(a) ==
  /\ IsLocals(dec'.locals) /\ dec'.locals.text = a.text /\ dec'.locals.partial = a.partial
  /\ ~dec'.skipped => dec'.locals.pos = a.pos
  /\ dec'.todo = TodoAt(a) /\ dec'.remaining = LeftAt(a)

LEMMA AlongOn ==
  ASSUME UNCHANGED <<session, asked, enc>>, Written, NEW n \in Nat, n < Len(asked),
         ~dec'.unmatched, ~dec'.skipped => dec'.bits = Buffered(Sent(n + 1)),
         dec'.status \in {"running", "stopped"},
         dec'.status = "stopped" => NullTerminatorFound(dec'.bits),
         dec'.status = "running" =>
           Reaches(Before(n + 1)) /\ (~dec'.skipped => ~NullTerminatorFound(dec'.bits))
  PROVE  Along(n + 1)'
<1>1. n + 1 <= Len(asked') /\ n + 1 > 0
  <2>1. PICK m \in Nat : m = Len(asked)
    BY Composed, Zenon
  <2> QED BY <2>1
<1>2. /\ Before(n + 1)' = Before(n + 1) /\ Sent(n + 1)' = Sent(n + 1)
      /\ \A b : TodoAt(b)' = TodoAt(b) /\ LeftAt(b)' = LeftAt(b)
      /\ \A k : Buffered(k)' = Buffered(k)
  BY SpellerSide
<1>3. NullTerminatorFound(dec.bits)' <=> NullTerminatorFound(dec'.bits)
  BY DEF NullTerminatorFound
<1>4. Buffered(Sent(n + 1))' = Buffered(Sent(n + 1))
  BY <1>2
<1>5. ASSUME dec'.status = "running" PROVE StandsAt(Before(n + 1))'
  <2>1. PICK a : a = Before(n + 1) /\ Reaches(a)
    BY <1>5
  <2>2. TodoAt(Before(n + 1))' = TodoAt(a) /\ LeftAt(Before(n + 1))' = LeftAt(a)
    <3>1. TodoAt(Before(n + 1))' = TodoAt(a)
      BY <1>2, <2>1 DEF TodoAt
    <3>2. LeftAt(Before(n + 1))' = LeftAt(a)
      BY <1>2, <2>1, <3>1 DEF LeftAt
    <3> QED BY <3>1, <3>2
  <2> QED BY <1>2, <2>1, <2>2 DEF Reaches, StandsAt
<1> QED BY <1>1, <1>3, <1>4, <1>5 DEF Along

(* What all steps of the decoder's have in common that the encoder made    *)
(* before it.                                                              *)
KeepsUp(n) ==
  /\ Along(n + 1)' /\ IsDec(dec') /\ dec'.status \in {"running", "stopped"} /\ dec'.wordless = dec.wordless
  /\ dec.skipped => dec'.skipped
  /\ \E e : /\ replayed' = Append(replayed, e) /\ e.prompt = asked[n + 1].prompt
            /\ ~dec'.skipped => e.maskAt = asked[n + 1].maskAt

LEMMA NextBuffered ==
  ASSUME Given, NEW n, NEW b, NEW o, NEW table, NEW c, NEW a, SpellsOn(n, b, o, table, c, a)
  PROVE  Recover(Buffered(o), DecodeStep(table, c.chosen, SyllableMask(b))) = Buffered(Sent(n + 1))
<1>1. Bits \in Seq(Bit)
  BY MessageBits DEF Given
<1>2. /\ o \in Nat /\ c.consumed \in 0..Beta /\ Sent(n + 1) = o + c.consumed
      /\ DecodeStep(table, c.chosen, SyllableMask(b)) = SubSeq(WindowAt(Bits, o), 1, c.consumed)
  BY DEF SpellsOn
<1>3. Recover(Buffered(o), SubSeq(WindowAt(Bits, o), 1, c.consumed)) = Buffered(o + c.consumed)
  BY <1>1, <1>2, RecoverStep
<1> QED BY <1>2, <1>3

(* Where the encoder chose a syllable the decoder recognises it.           *)
LEMMA SyllableFollows ==
  ASSUME Given, style # "styled", Written, ~enc.cut, IsDec(dec), enc.status = "OK", dec.status = "running",
         NEW n \in Nat, Along(n), n < Len(asked), DecodeSyllable, UNCHANGED <<session, asked, enc>>
  PROVE  KeepsUp(n)
<1>1. PICK b, o, table, c, a : b = Before(n) /\ o = Sent(n) /\ table = asked[n + 1].table
                               /\ c = Spelling(b, o, table) /\ a = Before(n + 1)
  OBVIOUS
<1>2. SpellsOn(n, b, o, table, c, a)
  BY <1>1, NextSyllable
<1>3. /\ StandsAt(b) /\ ~dec.unmatched /\ (~dec.skipped => dec.bits = Buffered(o))
  BY <1>1 DEF Along
<1>4. c.chosen # EowText /\ ~Overflows(Cat(b.partial, c.chosen))
  <2>1. dec.remaining # <<>>
    BY DEF DecodeSyllable
  <2>2. LeftAt(b) # <<>>
    BY <1>3, <2>1 DEF StandsAt
  <2> QED BY <1>2, <2>2 DEF SpellsOn, EndsWord
<1>5. PICK i \in 1..Len(table), rest \in Texts :
        c.chosen = table[i].text /\ LeftAt(b) = Cat(c.chosen, rest) /\ LeftAt(a) = rest
  BY <1>2, <1>4 DEF SpellsOn, GoesOnWith
<1>6. PICK r : r = dec.remaining /\ r = Cat(c.chosen, rest)
  BY <1>3, <1>5 DEF StandsAt
<1>7. PICK p : p = c.chosen /\ r = Cat(p, rest) /\ p = table[i].text
  BY <1>5, <1>6
<1>8. table \in Openings \cup Continuations
  BY <1>2, SomeTable DEF SpellsOn
<1>9. /\ Matching(table, r) = {i} /\ Syllable(table, r) = [text |-> p, length |-> Len(p)]
      /\ Drop(r, Len(p)) = rest
  <2>1. Spotted(table, i, rest)
    BY <1>8, SyllableFound
  <2> QED BY <1>7, <2>1 DEF Spotted
<1>10. Answers(SyllablePrompt(dec.locals), SyllableTables(dec.locals)) = {table}
  <2>1. SyllablePrompt(dec.locals) = SyllablePrompt(Before(n))
    BY <1>1, <1>3, StandsNow
  <2> QED BY <1>1, <2>1, OneSyllableAnswer
<1>11. SpellsMore(table)
  <2>1. PICK t \in Answers(SyllablePrompt(dec.locals), SyllableTables(dec.locals)) : SpellsMore(t)
    BY DecodeSyllableIs
  <2> QED BY <1>10, <2>1
<1>12. PICK s, bits : s = dec.locals /\ bits = Recover(dec.bits, DecodeStep(table, p, SyllableMask(s)))
  OBVIOUS
<1>13. /\ AsksAgain(s) /\ IsDec(dec') /\ dec'.bits = bits /\ dec'.skipped = dec.skipped /\ ~dec'.unmatched
       /\ dec'.wordless = dec.wordless
       /\ dec'.status = IF NullTerminatorFound(bits) THEN "stopped" ELSE "running"
       /\ ~NullTerminatorFound(bits) =>
            /\ dec'.locals = [[s EXCEPT !.pos = @ + Beta] EXCEPT !.partial = Cut(Cat(@, p))]
            /\ dec'.todo = dec.todo /\ dec'.remaining = SubSeq(r, Len(p) + 1, Len(r))
  <2>1. PICK heard : heard = Syllable(table, dec.remaining) /\ heard.text = p /\ heard.length = Len(p)
    BY <1>6, <1>9
  <2>2. Matching(table, dec.remaining) # {}
    BY <1>6, <1>9
  <2> QED BY <1>3, <1>6, <1>11, <1>12, <2>1, <2>2, Zenon DEF SpellsMore
<1>14. ~dec.skipped => bits = Buffered(Sent(n + 1))
  <2>1. Recover(Buffered(o), DecodeStep(table, c.chosen, SyllableMask(b))) = Buffered(Sent(n + 1))
    BY <1>2, NextBuffered
  <2>2. ~dec.skipped => SyllableMask(s) = SyllableMask(b)
    BY <1>3, <1>12, StandsNow
  <2> QED BY <1>3, <1>7, <1>12, <2>1, <2>2
<1>15. ASSUME ~NullTerminatorFound(bits) PROVE Reaches(a)
  <2>1. a.text = b.text /\ a.partial = Cat(b.partial, p) /\ TodoAt(a) = TodoAt(b) /\ a.pos = b.pos + Beta
    BY <1>2, <1>4, <1>7 DEF SpellsOn, GoesOnWith
  <2>2. /\ IsLocals(s) /\ s.text = b.text /\ s.partial = b.partial /\ (~dec.skipped => s.pos = b.pos)
        /\ dec.todo = TodoAt(b)
    BY <1>3, <1>12 DEF StandsAt
  <2>3. PICK l : l = dec'.locals /\ l = [[s EXCEPT !.pos = @ + Beta] EXCEPT !.partial = Cut(Cat(@, p))]
    BY <1>13, <1>15
  <2>3a. Cut(Cat(b.partial, p)) = Cat(b.partial, p)
    BY <1>4, <1>7 DEF Cut
  <2>4. IsLocals(l) /\ l.text = s.text /\ l.partial = Cat(s.partial, p) /\ l.pos = s.pos + Beta
    BY <2>2, <2>3, <2>3a, Zenon DEF IsLocals
  <2>5. dec'.remaining = LeftAt(a) /\ dec'.todo = TodoAt(a)
    BY <1>5, <1>9, <1>13, <1>15, <2>1, <2>2, Zenon DEF Drop
  <2> QED BY <1>13, <2>1, <2>2, <2>3, <2>4, <2>5 DEF Reaches
<1>16. Along(n + 1)'
  BY <1>1, <1>13, <1>14, <1>15, AlongOn
<1>17. \E e : /\ replayed' = Append(replayed, e) /\ e.prompt = asked[n + 1].prompt
              /\ ~dec'.skipped => e.maskAt = asked[n + 1].maskAt
  <2>1. PICK e : replayed' = Append(replayed, e) /\ e.prompt = SyllablePrompt(s) /\ e.maskAt = s.pos
    BY <1>13 DEF AsksAgain
  <2>2. SyllablePrompt(s) = asked[n + 1].prompt /\ asked[n + 1].maskAt = b.pos
    BY <1>2, <1>3, <1>12, StandsNow DEF SpellsOn
  <2>3. ~dec.skipped => s.pos = b.pos
    BY <1>3, <1>12 DEF StandsAt
  <2> QED BY <1>13, <2>1, <2>2, <2>3
<1> QED BY <1>13, <1>16, <1>17 DEF KeepsUp

(* Where it ended the word, the decoder ends it, or goes on without the    *)
(* step.                                                                   *)
LEMMA WordFollows ==
  ASSUME Given, style # "styled", Written, ~enc.cut, IsDec(dec), enc.status = "OK", dec.status = "running",
         NEW n \in Nat, Along(n), n < Len(asked), DecodeEndOfWord \/ SkipEndOfWord,
         UNCHANGED <<session, asked, enc>>
  PROVE  KeepsUp(n)
<1>1. PICK b, o, table, c, a : b = Before(n) /\ o = Sent(n) /\ table = asked[n + 1].table
                               /\ c = Spelling(b, o, table) /\ a = Before(n + 1)
  OBVIOUS
<1>2. SpellsOn(n, b, o, table, c, a)
  BY <1>1, NextSyllable
<1>3. StandsAt(b) /\ ~dec.unmatched /\ (~dec.skipped => dec.bits = Buffered(o) /\ (n > 0 => ~NullTerminatorFound(dec.bits)))
  BY <1>1 DEF Along
<1>4. c.chosen = EowText
  <2>1. dec.remaining = <<>>
    BY Zenon DEF DecodeEndOfWord, SkipEndOfWord, WordIsSpelled
  <2>2. LeftAt(b) = <<>>
    BY <1>3, <2>1 DEF StandsAt
  <2> QED BY <1>2, <2>2 DEF SpellsOn, GoesOnWith
<1>5. EndsWord(b, a) /\ a.pos = b.pos + Beta
  BY <1>2, <1>4 DEF SpellsOn
<1>6. PICK s : s = dec.locals
  OBVIOUS
<1>7. /\ IsLocals(s) /\ s.text = b.text /\ (~dec.skipped => s.pos = b.pos) /\ dec.todo = TodoAt(b)
      /\ SyllablePrompt(s) = SyllablePrompt(b) /\ (~dec.skipped => SyllableMask(s) = SyllableMask(b))
  BY <1>3, <1>6, StandsNow DEF StandsAt
<1>8. ASSUME NEW drawn, ToNextWord(drawn), ~dec'.skipped => drawn = a.pos PROVE Reaches(a)
  <2>1. PICK l : l = dec'.locals
                 /\ l = [s EXCEPT !.pos = drawn, !.text = Joined(@, Head(dec.todo)), !.partial = <<>>]
    BY <1>6, <1>8 DEF ToNextWord
  <2>2. IsLocals(l) /\ l.text = Joined(s.text, Head(dec.todo)) /\ l.partial = <<>> /\ l.pos = drawn
    BY <1>7, <2>1, Zenon DEF IsLocals
  <2>3. dec'.todo = TodoAt(a) /\ dec'.remaining = LeftAt(a)
    BY <1>5, <1>7, <1>8 DEF ToNextWord, EndsWord
  <2>4. a.text = Joined(b.text, Head(TodoAt(b))) /\ a.partial = <<>>
    BY <1>5 DEF EndsWord
  <2> QED BY <1>7, <1>8, <2>1, <2>2, <2>3, <2>4 DEF Reaches
<1>9. ASSUME AsksAgain(s), dec.skipped => dec'.skipped
      PROVE  \E e : /\ replayed' = Append(replayed, e) /\ e.prompt = asked[n + 1].prompt
                    /\ ~dec'.skipped => e.maskAt = asked[n + 1].maskAt
  <2>1. PICK e : replayed' = Append(replayed, e) /\ e.prompt = SyllablePrompt(s) /\ e.maskAt = s.pos
    BY <1>9 DEF AsksAgain
  <2>2. SyllablePrompt(s) = asked[n + 1].prompt /\ asked[n + 1].maskAt = b.pos
    BY <1>2, <1>7 DEF SpellsOn
  <2> QED BY <1>7, <1>9, <2>1, <2>2
<1>10. CASE DecodeEndOfWord
  <2>1. ClosesWord(table)
    <3>1. PICK t \in Answers(SyllablePrompt(dec.locals), SyllableTables(dec.locals)) : ClosesWord(t)
      BY <1>10, DecodeEndOfWordIs
    <3>2. SyllablePrompt(dec.locals) = SyllablePrompt(Before(n))
      BY <1>1, <1>6, <1>7
    <3>3. Answers(SyllablePrompt(dec.locals), SyllableTables(dec.locals)) = {table}
      BY <1>1, <3>2, OneSyllableAnswer
    <3> QED BY <3>1, <3>3
  <2>2. PICK bits : bits = Recover(dec.bits, DecodeStep(table, EowText, SyllableMask(s)))
    OBVIOUS
  <2>3. /\ AsksAgain(s) /\ IsDec(dec') /\ dec'.bits = bits /\ dec'.skipped = dec.skipped /\ ~dec'.unmatched
        /\ dec'.wordless = dec.wordless
        /\ dec'.status = IF NullTerminatorFound(bits) THEN "stopped" ELSE "running"
        /\ ~NullTerminatorFound(bits) => ToNextWord(s.pos + Beta)
    BY <1>3, <1>6, <2>1, <2>2 DEF ClosesWord
  <2>4. ~dec.skipped => bits = Buffered(Sent(n + 1))
    <3>1. Recover(Buffered(o), DecodeStep(table, c.chosen, SyllableMask(b))) = Buffered(Sent(n + 1))
      BY <1>2, NextBuffered
    <3> QED BY <1>3, <1>4, <1>7, <2>2, <3>1
  <2>5. ASSUME ~NullTerminatorFound(bits) PROVE Reaches(a)
    <3>1. ~dec'.skipped => s.pos + Beta = a.pos
      BY <1>5, <1>7, <2>3
    <3> QED BY <1>8, <2>3, <2>5, <3>1
  <2>6. Along(n + 1)'
    BY <1>1, <2>3, <2>4, <2>5, AlongOn
  <2> QED BY <1>9, <2>3, <2>6 DEF KeepsUp
<1>11. CASE SkipEndOfWord
  <2>1. /\ AsksAgain(s) /\ IsDec(dec') /\ dec'.skipped = TRUE /\ ~dec'.unmatched /\ dec'.status = "running"
        /\ dec'.wordless = dec.wordless /\ ToNextWord(s.pos)
    BY <1>3, <1>6, <1>11, SkipEndOfWordIs, Zenon DEF SkipsClosing
  <2>2. Reaches(a)
    BY <1>8, <2>1
  <2>3. Along(n + 1)'
    BY <1>1, <2>1, <2>2, AlongOn
  <2> QED BY <1>9, <2>1, <2>3 DEF KeepsUp
<1> QED BY <1>10, <1>11

(* Whatever a step adds behind what was sent, that stays as it is.         *)
LEMMA RecoverBehind ==
  ASSUME Bits \in Seq(Bit), NEW k \in Nat, NEW S, NEW more \in Seq(S), NEW r, r = Recover(Buffered(k), more)
  PROVE  \A i \in DOMAIN r : i > k \/ r[i] = Padded(i)
<1>0. PICK M \in Nat : M = MaxRecoveredBits
  BY SessionAssumption
<1>1. CASE k >= M
  <2>1. r = Buffered(k)
    BY <1>0, <1>1, RecoverFull
  <2>2. Buffered(k) \in Seq(Bit) /\ \A i \in 1..Len(Buffered(k)) : Buffered(k)[i] = Padded(i)
    BY BufferedIs
  <2>3. DOMAIN Buffered(k) = 1..Len(Buffered(k))
    BY <2>2
  <2> QED BY <2>1, <2>2, <2>3
<1>2. CASE k < M
  <2> DEFINE U == Bit \cup S
  <2>1. PICK b \in Seq(U) : b = Buffered(k) /\ Len(b) = k /\ \A i \in 1..k : b[i] = Padded(i)
    <3>1. Buffered(k) \in Seq(Bit) /\ Len(Buffered(k)) = k /\ \A i \in 1..Len(Buffered(k)) : Buffered(k)[i] = Padded(i)
      BY <1>0, <1>2, BufferedIs
    <3>2. Buffered(k) \in Seq(U)
      BY <3>1, SeqMonotonic
    <3> QED BY <3>1, <3>2
  <2>2. more \in Seq(U)
    BY SeqMonotonic
  <2> HIDE DEF U
  <2>3. PICK l \in Nat : l = Len(more)
    OBVIOUS
  <2>4. PICK all \in Seq(U) : all = b \o more /\ Len(all) = k + l /\ \A i \in 1..k : all[i] = b[i]
    <3>1. /\ b \o more \in Seq(U) /\ Len(b \o more) = Len(b) + Len(more)
          /\ \A i \in 1..(Len(b) + Len(more)) : (b \o more)[i] = IF i <= Len(b) THEN b[i] ELSE more[i - Len(b)]
      BY <2>2, ConcatProperties
    <3>2. \A i \in 1..k : i \in 1..(k + l) /\ i <= k
      OBVIOUS
    <3> QED BY <2>1, <2>3, <3>1, <3>2, Zenon
  <2>5. PICK x \in Nat : x = (IF Len(all) < M THEN Len(all) ELSE M) /\ x \in 0..Len(all)
    BY <2>4
  <2>6. PICK g \in Seq(U) : g = SubSeq(all, 1, x) /\ Len(g) = x /\ \A i \in 1..x : g[i] = all[i]
    <3>1. /\ SubSeq(all, 1, x) \in Seq(U) /\ Len(SubSeq(all, 1, x)) = x
          /\ \A i \in 1..x : SubSeq(all, 1, x)[i] = all[i]
      BY <2>5, SubSeqFirst
    <3> QED BY <3>1, Zenon
  <2>7. r = g
    BY <1>0, <2>1, <2>4, <2>5, <2>6 DEF Recover
  <2>8. ASSUME NEW i \in 1..x PROVE i > k \/ g[i] = Padded(i)
    <3>1. CASE i <= k
      <4>1. i \in 1..k
        BY <3>1
      <4> QED BY <2>1, <2>4, <2>6, <4>1
    <3>2. CASE ~(i <= k)
      BY <3>2
    <3> QED BY <3>1, <3>2
  <2>9. DOMAIN g = 1..x
    BY <2>6
  <2> QED BY <2>7, <2>8, <2>9
<1> QED BY <1>0, <1>1, <1>2

(* Past the encoder's last step there is at most the end of the word it    *)
(* left open.                                                              *)
PastNow(n) ==
  /\ PastWord(n + 1)' /\ IsDec(dec') /\ dec'.status \in {"running", "stopped"} /\ dec'.wordless = dec.wordless
  /\ dec.skipped => dec'.skipped
  /\ \E e : replayed' = Append(replayed, e)

LEMMA OpenWordCloses ==
  ASSUME Given, style # "styled", Written, ~enc.cut, IsDec(dec), enc.status = "OK", dec.status = "running",
         NEW n \in Nat, Along(n), n = Len(asked), DecodeSyllable \/ DecodeEndOfWord \/ SkipEndOfWord,
         UNCHANGED <<session, asked, enc>>
  PROVE  PastNow(n)
<1>1. PICK b, o : b = enc.locals /\ o = Sent(n) /\ Before(n) = b /\ o \in Nat /\ enc.offset = o
  BY Composed
<1>2. StandsAt(b) /\ ~dec.unmatched /\ (~dec.skipped => dec.bits = Buffered(o) /\ (n > 0 => ~NullTerminatorFound(dec.bits)))
  BY <1>1 DEF Along
<1>3. dec.todo # <<>>
  BY Zenon DEF DecodeSyllable, DecodeEndOfWord, SkipEndOfWord, WordIsSpelled, DecoderRuns, Styled
<1>4. b.partial # <<>> /\ LeftAt(b) = <<>> /\ Tail(TodoAt(b)) = <<>>
  BY <1>1, <1>2, <1>3, LastWord DEF StandsAt
<1>5. dec.remaining = <<>> /\ Tail(dec.todo) = <<>>
  BY <1>2, <1>4 DEF StandsAt
<1>6. DecodeEndOfWord \/ SkipEndOfWord
  BY <1>5 DEF DecodeSyllable
<1>7. Dangling
  BY <1>1, <1>4 DEF Dangling
<1>8. n > 0
  <2> SUFFICES ASSUME n = 0 PROVE FALSE
    OBVIOUS
  <2>1. b = FreshLocals(style)
    BY <1>1 DEF Written
  <2> QED BY <1>4, <2>1 DEF FreshLocals
<1>9. Bits \in Seq(Bit) /\ Len(Bits) \in Nat
  BY MessageBits DEF Given
<1>10. PICK s : s = dec.locals
  OBVIOUS
<1>11. CASE DecodeEndOfWord
  <2>1. PICK table \in Answers(SyllablePrompt(dec.locals), SyllableTables(dec.locals)) : ClosesWord(table)
    BY <1>11, DecodeEndOfWordIs
  <2>2. table \in Openings \cup Continuations
    <3>1. PICK m \in Nat : m = Len(asked) /\ DOMAIN asked = 1..m
      BY Composed
    <3>2. ASSUME NEW i \in 1..m PROVE asked[i].table \in Openings \cup Continuations
      <4>1. Spells(i)
        BY <3>1 DEF Written
      <4> QED BY <4>1, SomeTable DEF Spells
    <3> DEFINE known == {i \in DOMAIN asked : asked[i].prompt = SyllablePrompt(dec.locals)}
    <3>3. CASE known = {}
      <4>1. table \in SyllableTables(dec.locals)
        BY <2>1, <3>3 DEF Answers
      <4> QED BY <4>1, SomeTable
    <3>4. CASE known # {}
      <4>1. Answers(SyllablePrompt(dec.locals), SyllableTables(dec.locals)) = {asked[i].table : i \in known}
        BY <3>4 DEF Answers
      <4>2. PICK i \in known : table = asked[i].table
        BY <2>1, <4>1
      <4> QED BY <3>1, <3>2, <4>2
    <3> QED BY <3>3, <3>4
  <2>3. PICK more, S : more = DecodeStep(table, EowText, SyllableMask(s)) /\ more \in Seq(S)
    <3>1. /\ Len(table) \in Nat \ {0} /\ DOMAIN table = 1..Len(table)
          /\ \A i \in 1..Len(table) : table[i].start \in Int /\ table[i].end \in Int
      BY <2>2, SyllablesIs, Zenon
    <3> QED BY <3>1, StepBits, Zenon
  <2>4. PICK bits : bits = Recover(dec.bits, more)
    OBVIOUS
  <2>5. /\ AsksAgain(s) /\ IsDec(dec') /\ dec'.bits = bits /\ dec'.skipped = dec.skipped /\ ~dec'.unmatched
        /\ dec'.wordless = dec.wordless
        /\ dec'.status = IF NullTerminatorFound(bits) THEN "stopped" ELSE "running"
        /\ ~NullTerminatorFound(bits) => dec'.todo = <<>>
    BY <1>2, <1>5, <1>10, <2>1, <2>3, <2>4, Zenon DEF ClosesWord, ToNextWord
  <2>6. ASSUME ~dec.skipped
        PROVE  /\ \A i \in DOMAIN bits : i > o \/ bits[i] = Padded(i)
               /\ o < Len(Bits) \/ Len(Bits) > MaxRecoveredBits
    <3>1. \A i \in DOMAIN bits : i > o \/ bits[i] = Padded(i)
      BY <1>1, <1>2, <1>9, <2>3, <2>4, <2>6, RecoverBehind
    <3>2. ~(o >= Len(Bits) /\ Len(Bits) <= MaxRecoveredBits)
      BY <1>1, <1>2, <1>8, <2>6, EndsInZeros DEF Given
    <3>3. MaxRecoveredBits \in Nat
      BY SessionAssumption
    <3> QED BY <1>1, <1>9, <3>1, <3>2, <3>3
  <2>7. PastWord(n + 1)'
    <3>1. /\ \A i : Padded(i)' = Padded(i)
          /\ Bits' = Bits /\ asked' = asked /\ enc' = enc /\ (Dangling' <=> Dangling)
      BY SpellerSide
    <3> QED BY <1>1, <1>7, <2>5, <2>6, <3>1 DEF PastWord
  <2> QED BY <2>5, <2>7 DEF PastNow, AsksAgain
<1>12. CASE SkipEndOfWord
  <2>1. /\ AsksAgain(s) /\ IsDec(dec') /\ dec'.skipped = TRUE /\ ~dec'.unmatched /\ dec'.status = "running"
        /\ dec'.wordless = dec.wordless /\ dec'.todo = <<>>
    BY <1>2, <1>5, <1>10, <1>12, SkipEndOfWordIs, Zenon DEF SkipsClosing, ToNextWord
  <2>2. PastWord(n + 1)'
    <3>1. Dangling' <=> Dangling
      BY SpellerSide
    <3> QED BY <1>7, <2>1, <3>1 DEF PastWord
  <2> QED BY <2>1, <2>2 DEF PastNow, AsksAgain
<1> QED BY <1>6, <1>11, <1>12

(***************************************************************************)
(* The decoder's loop.                                                     *)
(***************************************************************************)
LEMMA ReplayedWords ==
  ASSUME ReadBack
  PROVE  /\ Len(replayed) \in Nat /\ IsDec(dec)
         /\ Along(Len(replayed)) \/ PastWord(Len(replayed))
         /\ dec.status # "idle" => enc.status = "OK"
<1>1. IsSeq(replayed)
  BY DEF ReadBack
<1>2. Len(replayed) \in Nat
  BY <1>1, AppendAny
<1> QED BY <1>2 DEF ReadBack

LEMMA StillRespelt ==
  ASSUME ReadBack, UNCHANGED <<session, asked, enc>>, replayed' = replayed, dec'.skipped = dec.skipped
  PROVE  IsSeq(replayed') /\ Respelt(Len(replayed))' /\ Len(replayed') = Len(replayed)
<1>1. asked' = asked
  OBVIOUS
<1> QED BY <1>1 DEF ReadBack, Respelt

LEMMA NextRespelt ==
  ASSUME ReadBack, UNCHANGED <<session, asked, enc>>, NEW e, replayed' = Append(replayed, e),
         dec.skipped => dec'.skipped,
         Len(replayed) + 1 <= Len(asked) =>
           /\ e.prompt = asked[Len(replayed) + 1].prompt
           /\ ~dec'.skipped => e.maskAt = asked[Len(replayed) + 1].maskAt
  PROVE  IsSeq(replayed') /\ Respelt(Len(replayed))' /\ Len(replayed') = Len(replayed) + 1
<1>0. asked' = asked /\ IsSeq(replayed) /\ Respelt(Len(replayed))
  BY DEF ReadBack
<1>1. PICK n \in Nat : n = Len(replayed)
  BY ReplayedWords
<1>2. /\ IsSeq(replayed') /\ Len(replayed') = n + 1 /\ \A i \in 1..n : replayed'[i] = replayed[i]
      /\ replayed'[n + 1] = e
  BY <1>0, <1>1, AppendAny
<1>3. ASSUME NEW i \in 1..(n + 1), i <= Len(asked)
      PROVE  replayed'[i].prompt = asked[i].prompt /\ (~dec'.skipped => replayed'[i].maskAt = asked[i].maskAt)
  <2>1. CASE i \in 1..n
    BY <1>0, <1>1, <1>2, <1>3, <2>1 DEF Respelt
  <2>2. CASE i = n + 1
    BY <1>1, <1>2, <1>3, <2>2
  <2>3. i \in 1..n \/ i = n + 1
    OBVIOUS
  <2> QED BY <2>1, <2>2, <2>3, Zenon
<1> QED BY <1>0, <1>1, <1>2, <1>3 DEF Respelt

LEMMA ReadBackIs ==
  ASSUME NEW n, Len(replayed') = n, Along(n)' \/ PastWord(n)',
         IsSeq(replayed'), Respelt(Len(replayed))', IsDec(dec'),
         enc'.status = "OK", dec'.status # "idle", ~enc'.cut, ~dec'.wordless,
         dec'.status = "OK" => dec'.result = BitsToBytes(dec.bits)'
  PROVE  ReadBack'
<1>1. (Along(Len(replayed)) \/ PastWord(Len(replayed)))'
  <2>1. CASE Along(n)'
    BY <2>1 DEF Along
  <2>2. CASE PastWord(n)'
    BY <2>2 DEF PastWord
  <2> QED BY <2>1, <2>2
<1> QED BY <1>1 DEF ReadBack

(* While the encoder works the decoder waits.                              *)
LEMMA SpellerWaits ==
  ASSUME Given, Written', ReadBack, dec.status = "idle", UNCHANGED <<session, replayed, dec>>
  PROVE  ReadBack'
<1>0. UNCHANGED session /\ replayed' = replayed /\ dec' = dec
  OBVIOUS
<1>1. /\ replayed = <<>> /\ dec.bits = <<>> /\ dec.locals = FreshLocals(style) /\ ~dec.unmatched
      /\ IsSeq(replayed) /\ IsDec(dec) /\ ~dec.skipped /\ ~dec.wordless
  BY DEF ReadBack
<1>2. FreshLocals(style)' = FreshLocals(style)
  BY <1>0, SpellingStays
<1>3. Len(replayed') = 0
  BY <1>0, <1>1
<1>4. Respelt(0)'
  BY DEF Respelt
<1>5. Along(0)'
  <2>1. 0 <= Len(asked')
    <3>1. Len(asked') \in Nat
      BY AppendAny DEF Written
    <3> QED BY <3>1
  <2>2. Buffered(Sent(0))' = <<>>
    <3>1. Sent(0)' = 0
      BY DEF Sent
    <3>2. PICK M \in Nat : M = MaxRecoveredBits
      BY SessionAssumption
    <3>3. (IF 0 < M THEN 0 ELSE M) = 0
      OBVIOUS
    <3>4. Buffered(0)' = <<>>
      BY <3>2, <3>3 DEF Buffered
    <3> QED BY <3>1, <3>4
  <2> QED BY <1>0, <1>1, <2>1, <2>2 DEF Along
<1> QED BY <1>0, <1>1, <1>2, <1>3, <1>4, <1>5 DEF ReadBack

(* Where the decoder starts.                                               *)
LEMMA StartsThere ==
  ASSUME style # "styled", Written, ~enc.cut, enc.status = "OK", NEW b, b = FreshLocals(style),
         NEW all, all = ExtractWords(enc.cover)
  PROVE  /\ IsLocals(b) /\ TodoAt(b) = all /\ LeftAt(b) = IF all = <<>> THEN <<>> ELSE Head(all)
<1>1. b.text = Context /\ b.partial = <<>> /\ IsLocals(b)
  BY DEF FreshLocals, IsLocals
<1>2. all \in Seq(Texts)
  <2>1. PICK m \in Nat : m = Len(asked) /\ m \in 0..Len(asked)
    <3>1. PICK m \in Nat : m = Len(asked)
      BY Composed, Zenon
    <3> QED BY <3>1
  <2>2. PICK us, p : us = ExtractWords(Before(m).text) /\ p = Before(m).partial
    OBVIOUS
  <2> QED BY <2>1, <2>2, PlaceHeads
<1>3. Drop(all, 0) = all
  BY <1>2, DropNone
<1>4. TodoAt(b) = all
  <2>1. Len(ExtractWords(b.text)) = 0
    BY <1>1, NoWordsYet
  <2> QED BY <1>3, <2>1 DEF TodoAt
<1>5. CASE all = <<>>
  BY <1>1, <1>4, <1>5 DEF LeftAt
<1>6. CASE all # <<>>
  <2>1. PICK w \in Texts : w = all[1] /\ w = Head(all)
    <3>1. 1 \in 1..Len(all) /\ Head(all) = all[1]
      BY <1>2, <1>6
    <3> QED BY <1>2, <3>1
  <2>2. Drop(w, 0) = w /\ Len(b.partial) = 0
    BY <1>1, DropNone DEF Texts
  <2> QED BY <1>1, <1>4, <1>6, <2>1, <2>2 DEF LeftAt
<1> QED BY <1>1, <1>4, <1>5, <1>6

(* A decoder that has no word left has come to the encoder's last step.    *)
LEMMA NoWordLeft ==
  ASSUME Given, Written, ~enc.cut, enc.status = "OK", NEW n \in Nat, Along(n), dec.status = "running", dec.todo = <<>>
  PROVE  n = Len(asked)
<1>1. n <= Len(asked) /\ TodoAt(Before(n)) = <<>> /\ Len(asked) \in Nat
  BY Composed DEF Along, StandsAt
<1>2. ~(n < Len(asked))
  <2> SUFFICES ASSUME n < Len(asked) PROVE FALSE
    OBVIOUS
  <2>1. PICK b, o, table, c, a : b = Before(n) /\ o = Sent(n) /\ table = asked[n + 1].table
                                 /\ c = Spelling(b, o, table) /\ a = Before(n + 1)
    OBVIOUS
  <2>2. SpellsOn(n, b, o, table, c, a)
    BY <2>1, NextSyllable
  <2> QED BY <1>1, <2>1, <2>2 DEF SpellsOn
<1> QED BY <1>1, <1>2

LEMMA SpellerDecodes ==
  ASSUME Given, style # "styled", Written, ReadBack, NEW A,
         A = (DecodeSyllable \/ DecodeEndOfWord \/ SkipEndOfWord \/ DecodeFails \/ DecodeReturns), A
  PROVE  UNCHANGED <<session, asked, enc>> /\ ReadBack'
<1>0. UNCHANGED <<session, asked, enc>>
  BY Zenon DEF DecodeSyllable, DecodeEndOfWord, SkipEndOfWord, DecodeFails, DecodeReturns
<1>1. PICK n \in Nat : n = Len(replayed) /\ (Along(n) \/ PastWord(n))
  BY ReplayedWords
<1>2. IsDec(dec) /\ enc.status = "OK" /\ enc' = enc /\ enc'.status = "OK" /\ ~enc.cut /\ ~dec.wordless
  <2>1. dec.status # "idle"
    BY Zenon DEF DecodeSyllable, DecodeEndOfWord, SkipEndOfWord, WordIsSpelled, DecoderRuns, DecodeFails, DecodeReturns
  <2>2. enc.status = "OK"
    BY <2>1, ReplayedWords
  <2> QED BY <1>0, <2>1, <2>2 DEF ReadBack
<1>3. /\ \A k : Before(k)' = Before(k) /\ Sent(k)' = Sent(k)
      /\ \A b : TodoAt(b)' = TodoAt(b) /\ LeftAt(b)' = LeftAt(b)
      /\ \A k : Buffered(k)' = Buffered(k)
      /\ \A i : Padded(i)' = Padded(i)
      /\ Bits' = Bits /\ asked' = asked /\ enc' = enc /\ style' = style /\ (Dangling' <=> Dangling)
  BY <1>0, SpellerSide
<1>5. CASE DecodeSyllable \/ DecodeEndOfWord \/ SkipEndOfWord
  <2>1. dec.status = "running" /\ dec.todo # <<>>
    BY <1>5, Zenon DEF DecodeSyllable, DecodeEndOfWord, SkipEndOfWord, WordIsSpelled, DecoderRuns, Styled
  <2>2. Along(n)
    BY <1>1, <2>1 DEF PastWord
  <2>3. n <= Len(asked) /\ Len(asked) \in Nat
    BY <2>2, Composed, Zenon DEF Along
  <2>4. PICK k : k = n + 1
    OBVIOUS
  <2>5. CASE n < Len(asked)
    <3>1. KeepsUp(n)
      <4>1. CASE DecodeSyllable
        BY <1>0, <1>2, <2>1, <2>2, <2>5, <4>1, SyllableFollows
      <4>2. CASE DecodeEndOfWord \/ SkipEndOfWord
        BY <1>0, <1>2, <2>1, <2>2, <2>5, <4>2, WordFollows
      <4> QED BY <1>5, <4>1, <4>2
    <3>2. IsSeq(replayed') /\ Respelt(Len(replayed))' /\ Len(replayed') = n + 1
      BY <1>0, <1>1, <3>1, NextRespelt DEF KeepsUp
    <3>3. Along(k)' /\ IsDec(dec') /\ dec'.status # "idle" /\ dec'.status # "OK" /\ ~dec'.wordless
      BY <1>2, <2>4, <3>1 DEF KeepsUp
    <3> QED BY <1>0, <1>2, <2>4, <3>2, <3>3, ReadBackIs
  <2>6. CASE n = Len(asked)
    <3>1. PastNow(n)
      BY <1>0, <1>2, <1>5, <2>1, <2>2, <2>6, OpenWordCloses
    <3>2. IsSeq(replayed') /\ Respelt(Len(replayed))' /\ Len(replayed') = n + 1
      <4>1. ~(Len(replayed) + 1 <= Len(asked))
        BY <1>1, <2>6
      <4> QED BY <1>0, <1>1, <3>1, <4>1, NextRespelt DEF PastNow
    <3>3. PastWord(k)' /\ IsDec(dec') /\ dec'.status # "idle" /\ dec'.status # "OK" /\ ~dec'.wordless
      BY <1>2, <2>4, <3>1 DEF PastNow
    <3> QED BY <1>0, <1>2, <2>4, <3>2, <3>3, ReadBackIs
  <2> QED BY <2>3, <2>5, <2>6
<1>6. ASSUME replayed' = replayed, NEW st \in {"failed", "NULL", "OK"}, NEW res,
             dec' = [dec EXCEPT !.status = st, !.result = res],
             st = "OK" => res = BitsToBytes(dec.bits),
             st = "OK" /\ Along(n) => n = Len(asked) \/ (n > 0 /\ NullTerminatorFound(dec.bits)) \/ dec.skipped
      PROVE  ReadBack'
  <2>1. dec' = [status |-> st, preamble |-> dec.preamble, locals |-> dec.locals, remaining |-> dec.remaining,
                todo |-> dec.todo, bits |-> dec.bits, unmatched |-> dec.unmatched, skipped |-> dec.skipped,
                wordless |-> dec.wordless, result |-> res]
    BY <1>2, <1>6 DEF IsDec
  <2>2. /\ IsDec(dec') /\ dec'.status = st /\ dec'.bits = dec.bits /\ dec'.unmatched = dec.unmatched
        /\ dec'.skipped = dec.skipped /\ ~dec'.wordless /\ dec'.result = res /\ dec'.status # "idle"
    BY <1>2, <2>1 DEF IsDec
  <2>4. IsSeq(replayed') /\ Respelt(Len(replayed))' /\ Len(replayed') = n
    BY <1>0, <1>1, <1>6, <2>2, StillRespelt
  <2>5. Along(n)' \/ PastWord(n)'
    <3>1. NullTerminatorFound(dec.bits)' <=> NullTerminatorFound(dec.bits)
      BY <2>2 DEF NullTerminatorFound
    <3>2. CASE Along(n)
      BY <1>3, <1>6, <2>2, <3>1, <3>2 DEF Along
    <3>3. CASE PastWord(n)
      BY <1>3, <1>6, <2>2, <3>3 DEF PastWord
    <3> QED BY <1>1, <3>2, <3>3
  <2>6. dec'.status = "OK" => dec'.result = BitsToBytes(dec.bits)'
    BY <1>6, <2>2 DEF BitsToBytes
  <2> QED BY <1>2, <2>2, <2>4, <2>5, <2>6, ReadBackIs
<1>7. CASE DecodeFails
  <2>1. dec' = [dec EXCEPT !.status = "failed", !.result = dec.result]
    BY <1>2, <1>7 DEF DecodeFails, IsDec
  <2>2. replayed' = replayed /\ "failed" \in {"failed", "NULL", "OK"} /\ "failed" # "OK"
    BY <1>7 DEF DecodeFails
  <2> QED BY <1>0, <1>6, <2>1, <2>2, Zenon
<1>8. CASE DecodeReturns
  <2>0. replayed' = replayed /\ {"NULL", "OK"} \subseteq {"failed", "NULL", "OK"} /\ "NULL" # "OK"
    BY <1>8, Zenon DEF DecodeReturns
  <2>1. CASE dec' = [dec EXCEPT !.status = "OK", !.result = BitsToBytes(dec.bits)]
    <3>1. Along(n) => n = Len(asked) \/ (n > 0 /\ NullTerminatorFound(dec.bits)) \/ dec.skipped
      <4>1. CASE dec.status = "stopped"
        BY <4>1 DEF Along
      <4>2. CASE dec.status = "running" /\ ~DecoderRuns
        <5>1. dec.todo = <<>>
          BY <4>2 DEF DecoderRuns, Styled
        <5> QED BY <1>2, <4>2, <5>1, NoWordLeft
      <4> QED BY <1>8, <4>1, <4>2 DEF DecodeReturns
    <3> QED BY <1>0, <1>6, <2>0, <2>1, <3>1, Zenon
  <2>2. CASE dec' = [dec EXCEPT !.status = "NULL"]
    <3>1. dec' = [dec EXCEPT !.status = "NULL", !.result = dec.result]
      BY <1>2, <2>2 DEF IsDec
    <3> QED BY <1>0, <1>6, <2>0, <3>1, Zenon
  <2> QED BY <1>8, <2>1, <2>2 DEF DecodeReturns
<1> QED BY <1>0, <1>5, <1>7, <1>8, Zenon

(***************************************************************************)
(* The decoder that misreads the covertext.                                *)
(***************************************************************************)
LEMMA MisreadRests ==
  ASSUME Misread, UNCHANGED <<session, asked, enc, replayed>>,
         IsDec(dec'), dec'.status # "idle", dec'.locals = dec.locals, dec'.todo = dec.todo,
         dec'.bits = dec.bits, dec'.unmatched = dec.unmatched,
         dec'.skipped = dec.skipped, dec'.wordless = dec.wordless
  PROVE  Misread'
<1>1. replayed' = replayed /\ enc' = enc
  OBVIOUS
<1>2. MasksAt(Len(replayed)) => MasksAt(Len(replayed))'
  BY <1>1 DEF MasksAt
<1> QED BY <1>1, <1>2 DEF Misread

LEMMA MisreadStep ==
  ASSUME Misread, ~dec.wordless, UNCHANGED <<session, asked, enc>>,
         IsDec(dec'), IsLocals(dec'.locals), dec'.status # "idle", ~dec'.wordless,
         NEW e, replayed' = Append(replayed, e), dec.skipped => dec'.skipped,
         ~dec'.skipped => e.maskAt = dec.locals.pos /\ dec'.locals.pos = dec.locals.pos + Beta
  PROVE  Misread'
<1>0. enc' = enc
  OBVIOUS
<1>1. PICK n \in Nat, x \in Nat : n = Len(replayed) /\ x = Beta
  <2>1. Len(replayed) \in Nat
    BY AppendAny DEF Misread
  <2> QED BY <2>1, StepDrawsIs
<1>2. /\ IsSeq(replayed') /\ Len(replayed') = n + 1 /\ \A i \in 1..n : replayed'[i] = replayed[i]
      /\ replayed'[n + 1] = e
  BY <1>1, AppendAny DEF Misread
<1>3. ASSUME ~dec'.skipped PROVE MasksAt(Len(replayed))'
  <2>1. dec.locals.pos = n * x /\ \A i \in 1..n : replayed[i].maskAt = (i - 1) * x
    BY <1>1, <1>3 DEF Misread, MasksAt
  <2>2. n * x + x = (n + 1) * x /\ (n + 1) - 1 = n
    OBVIOUS
  <2>3. dec'.locals.pos = (n + 1) * x
    BY <1>1, <1>3, <2>1, <2>2
  <2>4. ASSUME NEW i \in 1..(n + 1) PROVE replayed'[i].maskAt = (i - 1) * x
    <3>1. CASE i \in 1..n
      BY <1>2, <2>1, <3>1
    <3>2. CASE i = n + 1
      BY <1>2, <1>3, <2>1, <2>2, <3>2
    <3>3. i \in 1..n \/ i = n + 1
      OBVIOUS
    <3> QED BY <3>1, <3>2, <3>3
  <2> QED BY <1>1, <1>2, <2>3, <2>4 DEF MasksAt
<1> QED BY <1>0, <1>2, <1>3 DEF Misread

LEMMA MisreadKeeps ==
  ASSUME style # "styled", Misread, NEW A,
         A = (BeginDecode \/ DecodeSyllable \/ DecodeEndOfWord \/ SkipEndOfWord \/ DecodeFails \/ DecodeReturns), A
  PROVE  UNCHANGED <<session, asked, enc>> /\ Misread'
<1>0. UNCHANGED <<session, asked, enc>>
  BY Zenon DEF BeginDecode, DecodeSyllable, DecodeEndOfWord, SkipEndOfWord, DecodeFails, DecodeReturns
<1>1. IsDec(dec) /\ IsLocals(dec.locals) /\ dec.status # "idle"
  BY DEF Misread
<1>2. ~BeginDecode
  BY <1>1, Zenon DEF BeginDecode
<1>3. CASE DecodeSyllable \/ DecodeEndOfWord \/ SkipEndOfWord
  <2>1. dec.todo # <<>> /\ ~dec.wordless
    <3>1. dec.todo # <<>>
      BY <1>3, Zenon DEF DecodeSyllable, DecodeEndOfWord, SkipEndOfWord, WordIsSpelled, DecoderRuns, Styled
    <3> QED BY <3>1 DEF Misread
  <2>2. PICK s : s = dec.locals /\ IsLocals(s)
    BY <1>1
  <2>3. PICK moved : moved = [s EXCEPT !.pos = @ + Beta] /\ IsLocals(moved) /\ moved.pos = s.pos + Beta
    <3>1. PICK moved : moved = [s EXCEPT !.pos = @ + Beta]
      OBVIOUS
    <3>2. IsLocals(moved) /\ moved.pos = s.pos + Beta
      BY <2>2, <3>1, Zenon DEF IsLocals
    <3> QED BY <3>1, <3>2
  <2>4. ASSUME NEW drawn, ToNextWord(drawn) PROVE IsLocals(dec'.locals) /\ dec'.locals.pos = drawn
    <3>1. PICK t : dec'.locals = [s EXCEPT !.pos = drawn, !.text = t, !.partial = <<>>]
      BY <2>2, <2>4, Zenon DEF ToNextWord
    <3> QED BY <2>2, <3>1, Zenon DEF IsLocals
  <2>5. CASE DecodeSyllable
    <3>1. PICK table : SpellsMore(table)
      BY <1>1, <2>5, DecodeSyllableIs
    <3>a. PICK heard : heard = Syllable(table, dec.remaining)
      OBVIOUS
    <3>b. PICK part : part = Cut(Cat(moved.partial, heard.text))
      OBVIOUS
    <3>c. [moved EXCEPT !.partial = Cut(Cat(@, heard.text))] = [moved EXCEPT !.partial = part]
      BY <3>b
    <3>2. /\ AsksAgain(s) /\ IsDec(dec') /\ dec'.skipped = dec.skipped /\ ~dec'.wordless
          /\ dec'.status # "idle"
          /\ dec'.locals = moved \/ dec'.locals = [moved EXCEPT !.partial = part]
      BY <2>1, <2>2, <2>3, <3>1, <3>a, <3>c DEF SpellsMore
    <3>3. IsLocals(dec'.locals) /\ dec'.locals.pos = s.pos + Beta
      <4>1. PICK l : l = [moved EXCEPT !.partial = part]
        OBVIOUS
      <4>2. IsLocals(l) /\ l.pos = moved.pos
        BY <2>3, <4>1, Zenon DEF IsLocals
      <4> QED BY <2>3, <3>2, <4>1, <4>2
    <3> QED BY <1>0, <2>1, <2>2, <3>2, <3>3, MisreadStep DEF AsksAgain
  <2>6. CASE DecodeEndOfWord
    <3>1. PICK table : ClosesWord(table)
      BY <1>1, <2>6, DecodeEndOfWordIs
    <3>2. /\ AsksAgain(s) /\ IsDec(dec') /\ dec'.skipped = dec.skipped /\ ~dec'.wordless
          /\ dec'.status # "idle"
          /\ dec'.locals = moved \/ ToNextWord(s.pos + Beta)
      BY <2>1, <2>2, <2>3, <3>1 DEF ClosesWord
    <3>3. IsLocals(dec'.locals) /\ dec'.locals.pos = s.pos + Beta
      BY <2>3, <2>4, <3>2
    <3> QED BY <1>0, <2>1, <2>2, <3>2, <3>3, MisreadStep DEF AsksAgain
  <2>7. CASE SkipEndOfWord
    <3>1. /\ AsksAgain(s) /\ IsDec(dec') /\ dec'.skipped = TRUE /\ ~dec'.wordless
          /\ dec'.status # "idle" /\ ToNextWord(s.pos)
      BY <1>1, <2>1, <2>2, <2>7, SkipEndOfWordIs DEF SkipsClosing
    <3>2. IsLocals(dec'.locals)
      BY <2>4, <3>1
    <3> QED BY <1>0, <2>1, <2>2, <3>1, <3>2, MisreadStep DEF AsksAgain
  <2> QED BY <1>0, <1>3, <2>5, <2>6, <2>7
<1>4. ASSUME UNCHANGED replayed, NEW st \in {"failed", "OK", "NULL"}, NEW res,
             dec' = [dec EXCEPT !.status = st, !.result = res]
      PROVE  Misread'
  <2>1. dec' = [status |-> st, preamble |-> dec.preamble, locals |-> dec.locals, remaining |-> dec.remaining,
                todo |-> dec.todo, bits |-> dec.bits, unmatched |-> dec.unmatched, skipped |-> dec.skipped,
                wordless |-> dec.wordless, result |-> res]
    BY <1>1, <1>4 DEF IsDec
  <2>2. /\ IsDec(dec') /\ dec'.status # "idle" /\ dec'.locals = dec.locals /\ dec'.todo = dec.todo
        /\ dec'.bits = dec.bits /\ dec'.unmatched = dec.unmatched
        /\ dec'.skipped = dec.skipped /\ dec'.wordless = dec.wordless
    BY <2>1 DEF IsDec
  <2> QED BY <1>0, <1>4, <2>2, MisreadRests
<1>5. CASE DecodeFails
  <2>1. dec' = [dec EXCEPT !.status = "failed", !.result = dec.result]
    BY <1>1, <1>5 DEF DecodeFails, IsDec
  <2>2. UNCHANGED replayed /\ "failed" \in {"failed", "OK", "NULL"}
    BY <1>5 DEF DecodeFails
  <2> QED BY <1>0, <1>4, <2>1, <2>2, Zenon
<1>6. CASE DecodeReturns
  <2>0. UNCHANGED replayed /\ "OK" \in {"failed", "OK", "NULL"} /\ "NULL" \in {"failed", "OK", "NULL"}
    BY <1>6, Zenon DEF DecodeReturns
  <2>1. CASE dec' = [dec EXCEPT !.status = "OK", !.result = BitsToBytes(dec.bits)]
    BY <1>0, <1>4, <2>0, <2>1, Zenon
  <2>2. CASE dec' = [dec EXCEPT !.status = "NULL"]
    <3>1. dec' = [dec EXCEPT !.status = "NULL", !.result = dec.result]
      BY <1>1, <2>2 DEF IsDec
    <3> QED BY <1>0, <1>4, <2>0, <3>1, Zenon
  <2> QED BY <1>6, <2>1, <2>2 DEF DecodeReturns
<1> QED BY <1>0, <1>2, <1>3, <1>5, <1>6, Zenon

(***************************************************************************)
(* The decoder begins: with the words the encoder wrote, or not.           *)
(***************************************************************************)
LEMMA SpellerBegins ==
  ASSUME Given, style # "styled", Written, ReadBack, BeginDecode
  PROVE  ReadBack' \/ Misread'
<1>0. UNCHANGED <<session, asked, enc>> /\ enc.status = "OK" /\ dec.status = "idle" /\ replayed' = replayed
      /\ enc' = enc
  BY Zenon DEF BeginDecode
<1>1. /\ replayed = <<>> /\ dec.bits = <<>> /\ dec.locals = FreshLocals(style) /\ ~dec.unmatched
      /\ IsSeq(replayed) /\ IsDec(dec) /\ ~dec.skipped /\ ~dec.wordless /\ Len(replayed) = 0
  BY <1>0 DEF ReadBack
<1>2. PICK all : all = ExtractWords(enc.cover)
  OBVIOUS
<1>3. /\ IsDec(dec') /\ dec'.locals = dec.locals /\ dec'.skipped = dec.skipped
      /\ dec'.bits = <<>> /\ ~dec'.unmatched /\ ~dec'.skipped
      /\ \/ dec'.status = "failed" /\ ~dec'.wordless
         \/ /\ dec'.status = "running" /\ (dec'.todo = all \/ dec'.todo = <<>>)
            /\ (dec'.wordless <=> dec'.todo # all)
            /\ dec'.remaining = IF dec'.todo = <<>> THEN <<>> ELSE Head(dec'.todo)
  <2>1. CASE dec' = [dec EXCEPT !.status = "failed"]
    <3>1. dec' = [status |-> "failed", preamble |-> dec.preamble, locals |-> dec.locals,
                  remaining |-> dec.remaining, todo |-> dec.todo, bits |-> dec.bits,
                  unmatched |-> dec.unmatched, skipped |-> dec.skipped, wordless |-> dec.wordless,
                  result |-> dec.result]
      BY <1>1, <2>1 DEF IsDec
    <3> QED BY <1>1, <3>1 DEF IsDec
  <2>2. ASSUME NEW built \in Preambles, NEW todo \in WordsFound,
               dec' = [dec EXCEPT
                 !.status    = "running",
                 !.preamble  = built,
                 !.todo      = todo,
                 !.wordless  = ~Styled /\ todo # ExtractWords(enc.cover),
                 !.remaining = IF Styled THEN SkipSpaces(enc.cover)
                               ELSE IF todo = <<>> THEN <<>> ELSE Head(todo)]
        PROVE  /\ IsDec(dec') /\ dec'.locals = dec.locals /\ dec'.skipped = dec.skipped
               /\ dec'.bits = <<>> /\ ~dec'.unmatched /\ ~dec'.skipped
               /\ dec'.status = "running" /\ (dec'.todo = all \/ dec'.todo = <<>>)
               /\ (dec'.wordless <=> dec'.todo # all)
               /\ dec'.remaining = IF dec'.todo = <<>> THEN <<>> ELSE Head(dec'.todo)
    <3>1. PICK w : w = (~Styled /\ todo # ExtractWords(enc.cover)) /\ (w <=> todo # all)
      BY <1>2 DEF Styled
    <3>2. PICK rest : /\ rest = IF todo = <<>> THEN <<>> ELSE Head(todo)
                      /\ rest = IF Styled THEN SkipSpaces(enc.cover)
                                ELSE IF todo = <<>> THEN <<>> ELSE Head(todo)
      BY DEF Styled
    <3>3. dec' = [dec EXCEPT !.status = "running", !.preamble = built, !.todo = todo, !.wordless = w,
                            !.remaining = rest]
      BY <2>2, <3>1, <3>2, Zenon
    <3>4. dec' = [status |-> "running", preamble |-> built, locals |-> dec.locals, remaining |-> rest,
                  todo |-> todo, bits |-> dec.bits, unmatched |-> dec.unmatched, skipped |-> dec.skipped,
                  wordless |-> w, result |-> dec.result]
      BY <1>1, <3>3 DEF IsDec
    <3>5. todo = all \/ todo = <<>>
      BY <1>2 DEF WordsFound, Styled
    <3> QED BY <1>1, <3>1, <3>2, <3>4, <3>5 DEF IsDec
  <2>3. \/ dec' = [dec EXCEPT !.status = "failed"]
        \/ \E built \in Preambles, todo \in WordsFound :
              dec' = [dec EXCEPT
                !.status    = "running",
                !.preamble  = built,
                !.todo      = todo,
                !.wordless  = ~Styled /\ todo # ExtractWords(enc.cover),
                !.remaining = IF Styled THEN SkipSpaces(enc.cover)
                              ELSE IF todo = <<>> THEN <<>> ELSE Head(todo)]
    BY Zenon DEF BeginDecode
  <2> QED BY <2>1, <2>2, <2>3, Zenon
<1>4. CASE ~enc.cut /\ ~dec'.wordless
  <2>1. /\ \A k : Before(k)' = Before(k) /\ Sent(k)' = Sent(k)
        /\ \A b : TodoAt(b)' = TodoAt(b) /\ LeftAt(b)' = LeftAt(b)
        /\ \A k : Buffered(k)' = Buffered(k)
        /\ asked' = asked
    BY <1>0, SpellerSide
  <2>2. PICK b : b = Before(0) /\ b = dec.locals /\ b = FreshLocals(style)
    BY <1>1 DEF Written
  <2>3. IsLocals(b) /\ TodoAt(b) = all /\ LeftAt(b) = IF all = <<>> THEN <<>> ELSE Head(all)
    BY <1>0, <1>2, <1>4, <2>2, StartsThere
  <2>4. ASSUME dec'.status = "running" PROVE StandsAt(Before(0))'
    <3>1. dec'.todo = all /\ dec'.remaining = IF all = <<>> THEN <<>> ELSE Head(all)
      BY <1>3, <1>4, <2>4
    <3>2. TodoAt(Before(0))' = all
      BY <2>1, <2>2, <2>3 DEF TodoAt
    <3>3. LeftAt(Before(0))' = LeftAt(b)
      BY <2>1, <2>2, <2>3, <3>2 DEF LeftAt
    <3> QED BY <1>3, <2>1, <2>2, <2>3, <3>1, <3>2, <3>3 DEF StandsAt
  <2>5. Along(0)'
    <3>1. Buffered(Sent(0))' = <<>>
      <4>1. Sent(0)' = 0
        BY DEF Sent
      <4> QED BY <2>1, <4>1, NothingBuffered
    <3>2. 0 <= Len(asked')
      BY <2>1, Composed
    <3> QED BY <1>3, <2>4, <3>1, <3>2 DEF Along
  <2>6. IsSeq(replayed') /\ Respelt(Len(replayed))' /\ Len(replayed') = 0
    BY <1>0, <1>1, <1>3, StillRespelt
  <2>7. dec'.status # "idle" /\ dec'.status # "OK" /\ enc'.status = "OK" /\ ~enc'.cut
    BY <1>0, <1>3, <1>4
  <2>8. PICK k : k = 0
    OBVIOUS
  <2> QED BY <1>3, <1>4, <2>5, <2>6, <2>7, <2>8, ReadBackIs
<1>5. CASE ~(~enc.cut /\ ~dec'.wordless)
  <2>1. MasksAt(0)'
    <3>1. dec.locals.pos = 0
      BY <1>1 DEF FreshLocals
    <3>2. 0 * Beta = 0
      BY StepDrawsIs
    <3> QED BY <1>3, <3>1, <3>2 DEF MasksAt
  <2>2. MasksAt(Len(replayed))'
    BY <1>0, <1>1, <2>1 DEF MasksAt
  <2>3. IsLocals(dec'.locals)
    BY <1>1, <1>3 DEF FreshLocals, IsLocals
  <2>4. dec'.wordless => dec'.todo = <<>>
    BY <1>3
  <2> QED BY <1>0, <1>1, <1>3, <1>5, <2>2, <2>3, <2>4 DEF Misread
<1> QED BY <1>4, <1>5

LEMMA InitWInv == Init => WInv
<1> SUFFICES ASSUME Init PROVE WInv
  OBVIOUS
<1>1. Given
  BY DEF Init, Given
<1> SUFFICES ASSUME style # "styled" PROVE Written /\ (ReadBack \/ Misread)
  BY <1>1 DEF WInv
<1>2. PICK f : f = FreshLocals(style) /\ f.text = Context /\ f.partial = <<>> /\ f.pos = 0 /\ f.steps = 0 /\ IsLocals(f)
  <2>1. PICK f : f = FreshLocals(style)
    OBVIOUS
  <2>2. f.text = Context /\ f.partial = <<>> /\ f.pos = 0 /\ f.steps = 0 /\ IsLocals(f)
    BY <2>1 DEF FreshLocals, IsLocals
  <2> QED BY <2>1, <2>2
<1>3. asked = <<>> /\ replayed = <<>> /\ Len(asked) = 0 /\ Len(replayed) = 0
  BY DEF Init
<1>4. enc = [status |-> "idle", preamble |-> FALSE, locals |-> f, offset |-> 0, cut |-> FALSE, cover |-> <<>>]
  BY <1>2 DEF Init
<1>5. dec = [status |-> "idle", preamble |-> FALSE, locals |-> f, remaining |-> <<>>, todo |-> <<>>,
             bits |-> <<>>, unmatched |-> FALSE, skipped |-> FALSE, wordless |-> FALSE, result |-> <<>>]
  BY <1>2 DEF Init
<1>6. Before(0) = f /\ Sent(0) = 0
  BY <1>3, <1>4 DEF Before, Sent
<1>7. IsSeq(<<>>)
  <2>1. <<>> \in Seq({})
    OBVIOUS
  <2> QED BY <2>1 DEF IsSeq
<1>8. Written
  <2>1. WordPlaced(0)
    <3>1. Limit(0) = 0
      BY StepDrawsIs DEF Limit
    <3>2. <<>> \in Seq(Letters)
      OBVIOUS
    <3>3. Opened(f.text)
      BY <1>2, NoWordsYet
    <3>4. IsWordPlace(f, 0)
      <4>1. 0 * Beta = 0
        BY StepDrawsIs
      <4> QED BY <1>2, <3>1, <3>2, <3>3, <4>1 DEF IsWordPlace
    <3> QED BY <1>6, <3>4 DEF WordPlaced
  <2>2. Mounts /\ \A i \in 1..Len(asked) : Fits(i)
    BY <1>3 DEF Mounts
  <2>3. IsEnc(enc) /\ enc.status # "OK" /\ enc.offset = 0
    BY <1>4 DEF IsEnc
  <2>4. 0 <= MaxSteps
    BY SessionAssumption
  <2> QED BY <1>2, <1>3, <1>6, <1>7, <2>1, <2>2, <2>3, <2>4 DEF Written
<1>9. ReadBack
  <2>1. IsDec(dec) /\ dec.status = "idle" /\ dec.locals = f /\ dec.bits = <<>> /\ ~dec.unmatched /\ ~dec.skipped
        /\ ~dec.wordless
    BY <1>5 DEF IsDec
  <2>2. Along(0)
    BY <1>3, <1>6, <2>1, NothingBuffered DEF Along
  <2>3. Respelt(0)
    BY DEF Respelt
  <2> QED BY <1>2, <1>3, <1>7, <2>1, <2>2, <2>3 DEF ReadBack
<1> QED BY <1>8, <1>9

LEMMA NextWInv == WInv /\ [Next]_vars => WInv'
<1> SUFFICES ASSUME WInv, [Next]_vars PROVE WInv'
  OBVIOUS
<1>0. UNCHANGED session
  BY Zenon DEF Next, vars, session, BeginEncode, EncodePhrase, EncodeSyllable, EncodeFails, EncodeReturns,
         BeginDecode, DecodePhrase, DecodeSyllable, DecodeEndOfWord, SkipEndOfWord, DecodeFails, DecodeReturns
<1>1. Given /\ Given' /\ style' = style
  BY <1>0 DEF WInv, Given, session
<1> SUFFICES ASSUME style # "styled" PROVE Written' /\ (ReadBack \/ Misread)'
  BY <1>1 DEF WInv
<1>2. Written /\ (ReadBack \/ Misread)
  BY DEF WInv
<1>3. CASE BeginEncode \/ EncodeSyllable \/ EncodeFails \/ EncodeReturns
  <2>1. Written' /\ UNCHANGED <<session, replayed, dec>> /\ enc.status # "OK"
    BY <1>1, <1>2, <1>3, SpellerKeeps, Zenon
  <2>2. ReadBack /\ dec.status = "idle"
    BY <1>2, <2>1 DEF ReadBack, Misread
  <2> QED BY <1>1, <1>2, <2>1, <2>2, SpellerWaits
<1>4. ASSUME UNCHANGED <<session, asked, enc>> PROVE Written'
  <2>1. IsEnc(enc) /\ UNCHANGED <<session, asked>> /\ enc' = enc
    BY <1>2, <1>4 DEF Written
  <2>2. enc'.status = "OK" => enc'.cover = ClosedWord(enc.locals.text, enc.locals.partial)
    BY <1>2, <2>1 DEF Written
  <2> QED BY <1>2, <2>1, <2>2, WrittenStays
<1>5. CASE BeginDecode \/ DecodeSyllable \/ DecodeEndOfWord \/ SkipEndOfWord \/ DecodeFails \/ DecodeReturns
  <2>1. UNCHANGED <<session, asked, enc>>
    BY <1>5, Zenon DEF BeginDecode, DecodeSyllable, DecodeEndOfWord, SkipEndOfWord, DecodeFails, DecodeReturns
  <2>2. Written'
    BY <1>4, <2>1
  <2>3. CASE ReadBack
    <3>1. CASE BeginDecode
      BY <1>1, <1>2, <2>2, <2>3, <3>1, SpellerBegins
    <3>2. CASE DecodeSyllable \/ DecodeEndOfWord \/ SkipEndOfWord \/ DecodeFails \/ DecodeReturns
      <4>1. ReadBack'
        BY <1>1, <1>2, <2>3, <3>2, SpellerDecodes, Zenon
      <4> QED BY <2>2, <4>1
    <3> QED BY <1>5, <3>1, <3>2
  <2>4. CASE Misread
    <3>1. Misread'
      BY <1>5, <2>4, MisreadKeeps, Zenon
    <3> QED BY <2>2, <3>1
  <2> QED BY <1>2, <2>3, <2>4
<1>6. ~EncodePhrase /\ ~DecodePhrase
  BY Zenon DEF EncodePhrase, DecodePhrase, Styled
<1>7. CASE UNCHANGED vars
  <2>1. UNCHANGED <<session, asked, enc>> /\ replayed' = replayed /\ dec' = dec
    BY <1>7 DEF vars, session
  <2>2. Written'
    BY <1>4, <2>1
  <2>3. CASE dec.status = "idle"
    <3>1. ReadBack
      BY <1>2, <2>3 DEF Misread
    <3> QED BY <1>1, <1>2, <2>1, <2>2, <2>3, <3>1, SpellerWaits
  <2>5. CASE Misread
    <3>1. UNCHANGED <<session, asked, enc, replayed>>
      BY <2>1
    <3>2. Misread'
      BY <2>1, <2>5, <3>1, MisreadRests DEF Misread
    <3> QED BY <2>2, <3>2
  <2>4. CASE ReadBack /\ dec.status # "idle"
    <3>0. ~enc'.cut /\ ~dec'.wordless
      BY <2>1, <2>4 DEF ReadBack
    <3>1. IsSeq(replayed') /\ Respelt(Len(replayed))' /\ Len(replayed') = Len(replayed)
      BY <2>1, <2>4, StillRespelt
    <3>2. PICK n \in Nat : n = Len(replayed) /\ (Along(n) \/ PastWord(n)) /\ enc.status = "OK"
      BY <2>4, ReplayedWords
    <3>3. /\ \A k : Before(k)' = Before(k) /\ Sent(k)' = Sent(k)
          /\ \A b : TodoAt(b)' = TodoAt(b) /\ LeftAt(b)' = LeftAt(b)
          /\ \A k : Buffered(k)' = Buffered(k)
          /\ \A i : Padded(i)' = Padded(i)
          /\ Bits' = Bits /\ asked' = asked /\ enc' = enc /\ (Dangling' <=> Dangling)
      BY <2>1, SpellerSide
    <3>4. NullTerminatorFound(dec.bits)' <=> NullTerminatorFound(dec.bits)
      BY <2>1 DEF NullTerminatorFound
    <3>5. ASSUME StandsAt(Before(n)) PROVE StandsAt(Before(n))'
      <4>1. TodoAt(Before(n))' = TodoAt(Before(n))
        BY <3>3 DEF TodoAt
      <4>2. LeftAt(Before(n))' = LeftAt(Before(n))
        BY <3>3, <4>1 DEF LeftAt
      <4> QED BY <2>1, <3>3, <3>5, <4>1, <4>2 DEF StandsAt
    <3>6. CASE Along(n)
      <4>1. Along(n)'
        BY <2>1, <3>3, <3>4, <3>5, <3>6 DEF Along
      <4>2. dec'.status = "OK" => dec'.result = BitsToBytes(dec.bits)'
        BY <2>1, <2>4 DEF ReadBack, BitsToBytes
      <4> QED BY <3>0, <2>1, <2>2, <2>4, <3>1, <3>2, <4>1, <4>2, ReadBackIs DEF ReadBack
    <3>7. CASE PastWord(n)
      <4>1. PastWord(n)'
        BY <2>1, <3>3, <3>7 DEF PastWord
      <4>2. dec'.status = "OK" => dec'.result = BitsToBytes(dec.bits)'
        BY <2>1, <2>4 DEF ReadBack, BitsToBytes
      <4> QED BY <3>0, <2>1, <2>2, <2>4, <3>1, <3>2, <4>1, <4>2, ReadBackIs DEF ReadBack
    <3> QED BY <3>2, <3>6, <3>7
  <2> QED BY <1>2, <2>3, <2>4, <2>5
<1> QED BY <1>3, <1>5, <1>6, <1>7 DEF Next

LEMMA SyllableSound == Spec => []WInv
<1>1. Init => WInv
  BY InitWInv
<1>2. WInv /\ [Next]_vars => WInv'
  BY NextWInv
<1> QED BY <1>1, <1>2, PTL DEF Spec

(***************************************************************************)
(* What the codec promises, in either mode.                                *)
(***************************************************************************)
LEMMA BothSound == Spec => [](SInv /\ WInv /\ (Styled \/ style # "styled"))
<1>1. Styled \/ style # "styled"
  BY DEF Styled
<1> QED BY <1>1, StyledSound, SyllableSound, PTL

(* What the invariant says of the two loops.                               *)
LEMMA WordsAgree ==
  ASSUME WInv, style # "styled"
  PROVE  /\ Written /\ (ReadBack \/ Misread)
         /\ DOMAIN replayed = 1..Len(replayed) /\ DOMAIN asked = 1..Len(asked)
         /\ Len(replayed) \in Nat /\ Len(asked) \in Nat
         /\ ReadBack => ~dec.unmatched /\ (Along(Len(replayed)) \/ PastWord(Len(replayed)))
         /\ Misread => Misled \/ (dec.wordless /\ replayed = <<>> /\ dec.bits = <<>> /\ ~dec.unmatched)
<1>1. Written /\ (ReadBack \/ Misread)
  BY DEF WInv
<1>2. Len(asked) \in Nat /\ DOMAIN asked = 1..Len(asked)
  BY <1>1, Composed
<1>3. PICK S : replayed \in Seq(S)
  BY <1>1 DEF ReadBack, Misread, IsSeq
<1>4. Len(replayed) \in Nat /\ DOMAIN replayed = 1..Len(replayed)
  BY <1>3, LenProperties
<1>5. ReadBack => Along(Len(replayed)) \/ PastWord(Len(replayed))
  BY ReplayedWords
<1>6. ReadBack => ~dec.unmatched
  BY <1>5 DEF Along, PastWord
<1>7. Misread => Misled \/ (dec.wordless /\ replayed = <<>> /\ dec.bits = <<>> /\ ~dec.unmatched)
  BY DEF Misread, Misled
<1> QED BY <1>1, <1>2, <1>4, <1>5, <1>6, <1>7

(* In both modes the decoder sends the prompts the encoder sent, in its    *)
(* order: text, histories, anchor, digression, question and partial word   *)
(* are rebuilt from the covertext alone.  It sends others only to close a  *)
(* word the encoder left open, past the encoder's last phrase of a message *)
(* that is longer than its buffer, and when what neither side checks has   *)
(* led one of them astray: a preamble there was no memory for (encode.c:40,*)
(* decode.c:105), or a word cut off at the end of its buffer (encode.c:309,*)
(* decode.c:174-341, 348-463).                                             *)
THEOREM PromptsAlwaysInStep == Spec => []PromptLockstep
<1>1. WInv /\ style # "styled" => PromptLockstep
  <2> SUFFICES ASSUME WInv, style # "styled", NEW i \in DOMAIN replayed
               PROVE  \/ i \in DOMAIN asked /\ replayed[i].prompt = asked[i].prompt
                      \/ Dangling /\ i = Len(asked) + 1
                      \/ Misled
    BY DEF PromptLockstep
  <2>0. ReadBack \/ Misled
    BY WordsAgree
  <2> SUFFICES ASSUME ReadBack PROVE \/ i \in DOMAIN asked /\ replayed[i].prompt = asked[i].prompt
                                     \/ Dangling /\ i = Len(asked) + 1
    BY <2>0
  <2>1. PICK n \in Nat : n = Len(replayed) /\ DOMAIN replayed = 1..n /\ (Along(n) \/ PastWord(n)) /\ Respelt(n)
    BY WordsAgree, Zenon DEF ReadBack
  <2>2. DOMAIN asked = 1..Len(asked) /\ Len(asked) \in Nat
    BY WordsAgree
  <2>3. CASE i <= Len(asked)
    BY <2>1, <2>2, <2>3 DEF Respelt
  <2>4. CASE i > Len(asked)
    <3>1. ~Along(n)
      <4>1. i \in 1..n /\ n \in Nat
        BY <2>1
      <4>2. ~(n <= Len(asked))
        BY <2>2, <2>4, <4>1
      <4> QED BY <4>2 DEF Along
    <3>2. PastWord(n)
      BY <2>1, <3>1
    <3> QED BY <2>1, <2>2, <2>4, <3>2 DEF PastWord
  <2> QED BY <2>1, <2>2, <2>3, <2>4
<1> QED BY <1>1, PromptsInStep, BothSound, PTL

(* In both modes the two loops draw each step's mask at the same place of  *)
(* the keystream, whatever either asks and hears, unless the decoder went  *)
(* on without the step that ends a word (decode.c:175-191, 404, 418-450).  *)
THEOREM MasksAlwaysInStep == Spec => []KeystreamLockstep
<1>1. WInv /\ style # "styled" => KeystreamLockstep
  <2> SUFFICES ASSUME WInv, style # "styled", ~dec.skipped, NEW i \in DOMAIN replayed, i \in DOMAIN asked
               PROVE  replayed[i].maskAt = asked[i].maskAt
    BY DEF KeystreamLockstep
  <2>1. PICK n \in Nat, m \in Nat : n = Len(replayed) /\ DOMAIN replayed = 1..n /\ m = Len(asked) /\ DOMAIN asked = 1..m
    BY WordsAgree, Zenon
  <2>2. i \in 1..n /\ i \in 1..m
    BY <2>1
  <2>3. CASE ReadBack
    BY <2>1, <2>2, <2>3 DEF ReadBack, Respelt
  <2>4. CASE Misread
    <3>1. replayed[i].maskAt = (i - 1) * Beta
      BY <2>1, <2>2, <2>4 DEF Misread, MasksAt
    <3>2. Written /\ i - 1 \in 0..m
      BY <2>2 DEF WInv
    <3>3. asked[i].maskAt = Before(i - 1).pos
      BY <2>1, <2>2, <3>2 DEF Written, Spells
    <3>4. Before(i - 1).pos = (i - 1) * Beta
      BY <2>1, <3>2, Composed DEF IsWordPlace
    <3> QED BY <3>1, <3>3, <3>4
  <2> QED BY <2>3, <2>4 DEF WInv
<1> QED BY <1>1, MasksInStep, BothSound, PTL

(* In both modes the decoder finds in the covertext the candidate the      *)
(* encoder wrote, with a style up to the encoder's last phrase, unless one *)
(* side had no memory for the preamble or the encoder cut a word off       *)
(* (decode.c:251-266, 376-397).                                            *)
THEOREM CandidatesRecognised == Spec => []AlwaysRecognised
<1>1. WInv /\ style # "styled" => AlwaysRecognised
  BY WordsAgree DEF AlwaysRecognised
<1> QED BY <1>1, PhrasesRecognised, BothSound, PTL

(* In both modes what the decoder has in its buffer is at any time the     *)
(* first bits of the message and of its zeros, as far as the buffer goes;  *)
(* only the bits of an end of word the encoder never chose come behind     *)
(* them.  It was not led astray and has left no step out (decode.c:276-277,*)
(* 406-407, 442-443).                                                      *)
THEOREM PrefixAlwaysRecovered == Spec => []RecoveredIsPrefix
<1>1. WInv /\ style # "styled" => RecoveredIsPrefix
  <2> SUFFICES ASSUME WInv, style # "styled", ~dec.skipped, ~Misled, NEW i \in DOMAIN dec.bits
               PROVE  \/ dec.bits[i] = IF i <= Len(Bits) THEN Bits[i] ELSE 0
                      \/ Dangling /\ i > enc.offset
    BY DEF RecoveredIsPrefix
  <2>0. ReadBack
    <3>1. dec.bits # <<>>
      OBVIOUS
    <3> QED BY <3>1, WordsAgree
  <2>1. PICK n \in Nat : n = Len(replayed) /\ (Along(n) \/ PastWord(n))
    BY <2>0, WordsAgree, Zenon
  <2>2. CASE Along(n)
    <3>1. n <= Len(asked) /\ dec.bits = Buffered(Sent(n))
      BY <2>2 DEF Along
    <3>2. PICK k \in Nat : k = Sent(n)
      <4>1. PICK m \in Nat : m = Len(asked)
        BY WordsAgree, Zenon
      <4>2. n \in 0..Len(asked)
        BY <3>1, <4>1
      <4> QED BY <4>2, Composed DEF WInv
    <3>3. Bits \in Seq(Bit)
      BY MessageBits DEF WInv, Given
    <3>4. PICK b \in Seq(Bit) : b = dec.bits /\ \A j \in 1..Len(b) : b[j] = Padded(j)
      BY <3>1, <3>2, <3>3, BufferedIs
    <3>5. i \in 1..Len(b)
      BY <3>4
    <3> QED BY <3>4, <3>5 DEF Padded
  <2>3. CASE PastWord(n)
    BY <2>3 DEF PastWord, Padded
  <2> QED BY <2>1, <2>2, <2>3
<1> QED BY <1>1, PrefixRecovered, BothSound, PTL

(* In both modes a message that was embedded to its last bit is decoded to *)
(* itself, unless a step ended behind a run of zeros inside it, the buffer *)
(* is too short for it, or a failure passed unnoticed: the decoder went on *)
(* without an end of word or found no memory for the words of the          *)
(* covertext (decode.c:346), one side built no preamble, or a word was cut *)
(* off (decode.c:276-279, 404-409, 440-450, bits.c:22-48).                 *)
THEOREM EveryMessageComesBack == Spec => []RoundTrip
<1>1. WInv /\ style # "styled" => RoundTrip
  <2> SUFFICES ASSUME WInv, style # "styled", dec.status = "OK", enc.offset >= Len(Bits), ~dec.skipped,
                      ~dec.wordless, ~Misled, ~StopsInsideMessage, Len(Bits) <= MaxRecoveredBits
               PROVE  dec.result = message
    BY DEF RoundTrip
  <2>1. Written /\ ReadBack /\ message \in Messages
    BY WordsAgree DEF WInv, Given
  <2>2. PICK n \in Nat : n = Len(replayed) /\ (Along(n) \/ PastWord(n))
    BY <2>1, WordsAgree, Zenon
  <2>3. PICK m \in Nat : m = Len(asked) /\ DOMAIN asked = 1..m /\ enc.offset = Sent(m) /\ enc.offset \in Nat
    BY <2>1, Composed, Zenon
  <2>4. Len(Bits) \in Nat /\ MaxRecoveredBits \in Nat
    BY <2>1, MessageBits, SessionAssumption
  <2>5. Along(n)
    <3>1. ~PastWord(n)
      BY <2>3, <2>4 DEF PastWord
    <3> QED BY <2>2, <3>1
  <2>6. n <= m /\ dec.bits = Buffered(Sent(n)) /\ (n = m \/ (n > 0 /\ NullTerminatorFound(dec.bits)))
    BY <2>3, <2>5 DEF Along
  <2>7. PICK k \in Nat : k = Sent(n) /\ dec.bits = Buffered(k)
    <3>1. n \in 0..m
      BY <2>2, <2>6
    <3>2. Sent(n) \in Nat
      BY <2>1, <2>3, <3>1, Composed
    <3> QED BY <2>6, <3>2
  <2>8. k >= Len(Bits) \/ NullTerminatorFound(Buffered(k))
    <3>1. CASE n = m
      <4>1. k = enc.offset
        BY <2>3, <2>7, <3>1
      <4> QED BY <4>1
    <3>2. CASE NullTerminatorFound(dec.bits)
      BY <2>7, <3>2
    <3> QED BY <2>6, <3>1, <3>2
  <2>9. k < ByteBits * Len(message) => ~NullTerminatorFound(SubSeq(Bits, 1, k))
    <3>1. CASE n = 0
      <4>1. k = 0
        BY <2>7, <3>1 DEF Sent
      <4>2. ~NullTerminatorFound(SubSeq(Bits, 1, 0))
        BY <2>1, NothingFound
      <4> QED BY <4>1, <4>2
    <3>2. CASE n # 0
      <4>1. n \in DOMAIN asked /\ asked[n].offset = k
        BY <2>2, <2>3, <2>6, <2>7, <3>2 DEF Sent
      <4> QED BY <4>1 DEF StopsInsideMessage
    <3> QED BY <3>1, <3>2
  <2>10. BitsToBytes(Buffered(k)) = message
    BY <2>1, <2>7, <2>8, <2>9, WholeMessage
  <2>11. dec.result = BitsToBytes(dec.bits)
    BY <2>1 DEF ReadBack
  <2> QED BY <2>7, <2>10, <2>11
<1> QED BY <1>1, MessagesComeBack, BothSound, PTL

(***************************************************************************)
(* Types and bounds: histories, counters, the keystream and the buffer.    *)
(***************************************************************************)
LEMMA PushKeeps ==
  ASSUME NEW S, NEW s \in Seq(S), NEW e \in S, NEW m \in Nat \ {0}, Len(s) <= m
  PROVE  PushBounded(s, e, m) \in Seq(S) /\ Len(PushBounded(s, e, m)) <= m
<1>1. PICK n \in Nat : n = Len(s)
  OBVIOUS
<1>2. CASE n < m
  <2>1. Append(s, e) \in Seq(S) /\ Len(Append(s, e)) = n + 1
    BY <1>1, AppendOf
  <2> QED BY <1>1, <1>2, <2>1 DEF PushBounded
<1>3. CASE ~(n < m)
  <2>1. s # <<>>
    BY <1>1, <1>3
  <2>2. Tail(s) \in Seq(S) /\ Len(Tail(s)) = n - 1
    BY <1>1, <2>1, HeadTailProperties
  <2>3. PICK t \in Seq(S) : t = Tail(s) /\ Len(t) = n - 1
    BY <2>2, Zenon
  <2>4. Append(t, e) \in Seq(S) /\ Len(Append(t, e)) = (n - 1) + 1
    BY <2>3, AppendOf
  <2>5. PushBounded(s, e, m) = Append(t, e)
    BY <1>1, <1>3, <2>3 DEF PushBounded
  <2> QED BY <1>1, <1>3, <2>4, <2>5
<1> QED BY <1>2, <1>3

(* The words of a phrase.                                                  *)
LEMMA PhraseWords ==
  ASSUME NEW t \in Texts
  PROVE  IsSeq(WordsOf(t))
<1>0. PICK n \in Nat : n = Len(t) /\ \A k \in 1..n : t[k] \in Char
  BY DEF Texts
<1> DEFINE Step(k, r) == IF ~(t[k] # Space) THEN r
                         ELSE IF k > 1 /\ t[k - 1] # Space THEN Prolonged(r, t[k])
                         ELSE Append(r, <<t[k]>>)
           P(f) == f = [k \in 0..Len(t) |->
                          IF k = 0 THEN <<>>
                          ELSE IF ~(t[k] # Space) THEN f[k - 1]
                          ELSE IF k > 1 /\ t[k - 1] # Space THEN Prolonged(f[k - 1], t[k])
                          ELSE Append(f[k - 1], <<t[k]>>)]
           H == CHOOSE f : P(f)
<1>1. ASSUME NEW k \in 1..n, NEW r \in Seq(Texts) PROVE Step(k, r) \in Seq(Texts)
  <2>1. PICK c \in Char : c = t[k]
    BY <1>0
  <2>2. <<c>> \in Texts
    BY One DEF Texts
  <2>3. Prolonged(r, c) \in Seq(Texts)
    BY ProlongedIs DEF Texts
  <2>4. Append(r, <<c>>) \in Seq(Texts)
    BY <2>2, AppendProperties
  <2> QED BY <2>1, <2>3, <2>4
<1>2. PICK F : F = [k \in 1..n |-> [r \in Seq(Texts) |-> Step(k, r)]]
  BY Zenon
<1>3. F \in [1..n -> [Seq(Texts) -> Seq(Texts)]]
  <2> HIDE DEF Step
  <2> QED BY <1>1, <1>2
<1>4. PICK e \in Seq(Texts) : e = <<>>
  <2>1. <<>> \in Seq(Texts)
    OBVIOUS
  <2> QED BY <2>1, Zenon
<1>5. PICK g \in [0..n -> Seq(Texts)] : g[0] = e /\ \A j \in 1..n : g[j] = F[j][g[j - 1]]
  <2>1. Recursion(Seq(Texts), e, n, F)
    BY <1>3, RecursionIn, Zenon
  <2> QED BY <2>1, Zenon DEF Recursion
<1>6. P(g)
  <2>1. PICK p : p = [k \in 0..n |->
                        IF k = 0 THEN <<>>
                        ELSE IF ~(t[k] # Space) THEN g[k - 1]
                        ELSE IF k > 1 /\ t[k - 1] # Space THEN Prolonged(g[k - 1], t[k])
                        ELSE Append(g[k - 1], <<t[k]>>)]
    BY Zenon
  <2>2. ASSUME NEW k \in 0..n PROVE p[k] = g[k]
    <3>1. CASE k = 0
      BY <1>4, <1>5, <2>1, <3>1
    <3>2. CASE k # 0
      <4>1. k \in 1..n /\ k - 1 \in 0..n
        BY <3>2
      <4>2. g[k] = F[k][g[k - 1]] /\ g[k - 1] \in Seq(Texts)
        BY <1>5, <4>1
      <4>3. g[k] = Step(k, g[k - 1])
        <5> HIDE DEF Step
        <5> QED BY <1>2, <4>1, <4>2
      <4> QED BY <2>1, <3>2, <4>3
    <3> QED BY <3>1, <3>2
  <2>3. g = p
    BY <2>1, <2>2, Zenon
  <2> QED BY <1>0, <2>1, <2>3, Zenon
<1>7. P(H)
  <2> HIDE DEF P
  <2> QED BY <1>6
<1>8. PICK h : h = H
  BY Zenon
<1>9. h = [k \in 0..n |->
             IF k = 0 THEN <<>>
             ELSE IF ~(t[k] # Space) THEN h[k - 1]
             ELSE IF k > 1 /\ t[k - 1] # Space THEN Prolonged(h[k - 1], t[k])
             ELSE Append(h[k - 1], <<t[k]>>)]
  <2>1. P(h)
    <3> HIDE DEF P, H
    <3> QED BY <1>7, <1>8
  <2> HIDE DEF H
  <2> QED BY Zenon, <1>0, <2>1, Zenon
<1> DEFINE T == {k \in 0..n : h[k] \in Seq(Texts)}
<1>10. 0 \in T
  BY <1>4, <1>9
<1>11. ASSUME NEW k \in 1..n, k - 1 \in T PROVE k \in T
  <2>1. k \in 0..n /\ k # 0 /\ h[k - 1] \in Seq(Texts)
    BY <1>11
  <2>2. h[k] = Step(k, h[k - 1])
    BY <1>9, <2>1, Zenon
  <2>3. Step(k, h[k - 1]) \in Seq(Texts)
    <3> HIDE DEF Step
    <3> QED BY <1>1, <2>1
  <2> QED BY <2>1, <2>2, <2>3, Zenon
<1>12. \A k \in 0..n : k \in T
  <2> HIDE DEF T
  <2> QED BY <1>10, <1>11, UpTo, Zenon
<1>13. WordsOf(t) = h[n]
  BY <1>0, <1>8 DEF WordsOf, Runs
<1>14. h[n] \in Seq(Texts)
  BY <1>12
<1> QED BY <1>13, <1>14 DEF IsSeq

LEMMA HistoryKept ==
  ASSUME NEW hist, IsSeq(hist), Len(hist) <= WordHistory, NEW phrase \in Texts
  PROVE  IsSeq(WordHistoryAdd(hist, phrase)) /\ Len(WordHistoryAdd(hist, phrase)) <= WordHistory
<1>1. PICK S, R : hist \in Seq(S) /\ WordsOf(phrase) \in Seq(R)
  BY PhraseWords DEF IsSeq
<1>2. PICK words : words = WordsOf(phrase)
  OBVIOUS
<1>3. PICK n \in Nat : n = Len(words) /\ \A k \in 1..n : words[k] \in R
  BY <1>1, <1>2
<1>4. PICK T : T = S \cup R
  BY Zenon
<1>5. PICK U : U = {s \in Seq(T) : Len(s) <= WordHistory}
  BY Zenon
<1>6. hist \in U
  <2>1. S \subseteq T
    BY <1>4
  <2>2. hist \in Seq(T)
    BY <1>1, <2>1, SeqMonotonic
  <2> QED BY <1>5, <2>2
<1>7. ASSUME NEW k \in 1..n, NEW h \in U PROVE Noted(h, words[k]) \in U
  <2>1. words[k] \in T /\ h \in Seq(T) /\ Len(h) <= WordHistory /\ WordHistory \in Nat \ {0}
    BY <1>3, <1>4, <1>5, CoreAssumption
  <2>2. PushBounded(h, words[k], WordHistory) \in Seq(T) /\ Len(PushBounded(h, words[k], WordHistory)) <= WordHistory
    BY <2>1, PushKeeps
  <2> QED BY <1>5, <2>2 DEF Noted
<1> DEFINE P(f) == f = [k \in 0..Len(words) |-> IF k = 0 THEN hist ELSE Noted(f[k - 1], words[k])]
           H == CHOOSE f : P(f)
<1>8. PICK F : F = [k \in 1..n |-> [h \in U |-> Noted(h, words[k])]]
  BY Zenon
<1>9. F \in [1..n -> [U -> U]]
  BY <1>7, <1>8
<1>10. PICK g \in [0..n -> U] : g[0] = hist /\ \A j \in 1..n : g[j] = F[j][g[j - 1]]
  <2>1. Recursion(U, hist, n, F)
    BY <1>6, <1>9, RecursionIn
  <2> QED BY <2>1 DEF Recursion
<1>11. P(g)
  <2>1. PICK p : p = [k \in 0..n |-> IF k = 0 THEN hist ELSE Noted(g[k - 1], words[k])]
    OBVIOUS
  <2>2. ASSUME NEW k \in 0..n PROVE p[k] = g[k]
    <3>1. CASE k = 0
      BY <1>10, <2>1, <3>1
    <3>2. CASE k # 0
      <4>1. k \in 1..n /\ k - 1 \in 0..n
        BY <3>2
      <4>2. g[k] = F[k][g[k - 1]] /\ g[k - 1] \in U
        BY <1>10, <4>1
      <4>3. g[k] = Noted(g[k - 1], words[k])
        BY <1>8, <4>1, <4>2
      <4> QED BY <2>1, <3>2, <4>3
    <3> QED BY <3>1, <3>2
  <2>3. g = p
    BY <2>1, <2>2
  <2> QED BY <1>3, <2>1, <2>3
<1>12. P(H)
  <2> HIDE DEF P
  <2> QED BY <1>11
<1>13. PICK h : h = H
  OBVIOUS
<1>14. h = [k \in 0..n |-> IF k = 0 THEN hist ELSE Noted(h[k - 1], words[k])]
  BY <1>3, <1>12, <1>13, Zenon
<1> DEFINE V == {k \in 0..n : h[k] \in U}
<1>15. 0 \in V
  BY <1>6, <1>14
<1>16. ASSUME NEW k \in 1..n, k - 1 \in V PROVE k \in V
  <2>1. k \in 0..n /\ k # 0 /\ h[k - 1] \in U
    BY <1>16
  <2>2. h[k] = Noted(h[k - 1], words[k])
    BY <1>14, <2>1
  <2> QED BY <1>7, <2>1, <2>2, Zenon
<1>17. \A k \in 0..n : k \in V
  <2> HIDE DEF V
  <2> QED BY <1>15, <1>16, UpTo, Zenon
<1>18. WordHistoryAdd(hist, phrase) = h[n]
  BY <1>2, <1>3, <1>13 DEF WordHistoryAdd
<1>19. h[n] \in U
  BY <1>17
<1> QED BY <1>5, <1>18, <1>19 DEF IsSeq

(* The histories and the counters of the locals.                           *)
Bounded(s) ==
  /\ IsSeq(s.hist) /\ Len(s.hist) <= PhraseHistory
  /\ IsSeq(s.words) /\ Len(s.words) <= WordHistory
  /\ s.phrases \in 0..(MaxPhrases - 1) /\ s.topics \in Nat

LEMMA FreshBounded ==
  ASSUME NEW mode, NEW s, s = FreshLocals(mode)
  PROVE  IsLocals(s) /\ Bounded(s) /\ s.pos = 0 /\ s.steps = 0
<1>1. <<>> \in Seq({}) /\ Len(<<>>) = 0
  OBVIOUS
<1>2. s.hist = <<>> /\ s.words = <<>> /\ s.phrases = 0 /\ s.topics = 0 /\ s.pos = 0 /\ s.steps = 0 /\ IsLocals(s)
  BY DEF FreshLocals, IsLocals
<1> QED BY <1>1, <1>2, CoreAssumption DEF Bounded, IsSeq, MaxPhrases

LEMMA DrawsKeepBounds ==
  ASSUME NEW b, IsLocals(b), Bounded(b), NEW s, s = EncoderDraws(b).locals
  PROVE  Bounded(s) /\ (~EncoderDraws(b).endClause => s.phrases + 1 \in 0..(MaxPhrases - 1))
<1>1. s.hist = b.hist /\ s.words = b.words /\ s.phrases = b.phrases /\ s.topics = b.topics
  BY Zenon DEF EncoderDraws, IsLocals
<1>2. ~EncoderDraws(b).endClause => b.phrases + 1 < MaxPhrases
  <2>1. PICK p : p = DrawUnlikeRecent(stream, b.pos, b.question).pos
    OBVIOUS
  <2>2. EncoderDraws(b).endClause = DrawClauseEnd(stream, p, b.phrases).value
    BY <2>1 DEF EncoderDraws
  <2>3. b.phrases \in 0..1
    BY DEF Bounded, MaxPhrases
  <2>4. b.phrases + 1 >= 2 => DrawClauseEnd(stream, p, b.phrases).value
    BY DEF DrawClauseEnd, MinPhrases, MaxPhrases
  <2> QED BY <2>2, <2>3, <2>4 DEF MaxPhrases
<1>3. ~EncoderDraws(b).endClause => b.phrases + 1 \in 0..(MaxPhrases - 1)
  BY <1>2 DEF Bounded, MaxPhrases
<1> QED BY <1>1, <1>3 DEF Bounded

LEMMA TakesKeepBounds ==
  ASSUME NEW s, IsLocals(s), Bounded(s), NEW phrase \in Texts, NEW ends,
         ~ends => s.phrases + 1 \in 0..(MaxPhrases - 1),
         NEW a, a = EncoderTakes(Advanced(s), phrase, ends)
  PROVE  Bounded(a)
<1>1. /\ a.hist = PushBounded(s.hist, phrase, PhraseHistory)
      /\ a.words = WordHistoryAdd(s.words, phrase)
      /\ a.phrases = (IF ends THEN 0 ELSE s.phrases + 1)
      /\ a.topics = (IF ends /\ ~s.dig THEN s.topics + 1 ELSE s.topics)
  BY DEF EncoderTakes, Advanced, IsLocals
<1>2. IsSeq(a.words) /\ Len(a.words) <= WordHistory
  BY <1>1, HistoryKept DEF Bounded
<1>3. IsSeq(a.hist) /\ Len(a.hist) <= PhraseHistory
  <2>1. PICK S : s.hist \in Seq(S)
    BY DEF Bounded, IsSeq
  <2>2. PICK T : T = S \cup {phrase}
    BY Zenon
  <2>3. s.hist \in Seq(T) /\ phrase \in T
    <3>1. S \subseteq T
      BY <2>2
    <3> QED BY <2>1, <2>2, <3>1, SeqMonotonic
  <2>4. PhraseHistory \in Nat \ {0} /\ Len(s.hist) <= PhraseHistory
    BY CoreAssumption DEF Bounded
  <2>5. a.hist \in Seq(T) /\ Len(a.hist) <= PhraseHistory
    BY <1>1, <2>3, <2>4, PushKeeps
  <2> QED BY <2>5 DEF IsSeq
<1>4. a.phrases \in 0..(MaxPhrases - 1)
  BY <1>1 DEF MaxPhrases
<1>5. a.topics \in Nat
  BY <1>1 DEF Bounded
<1> QED BY <1>2, <1>3, <1>4, <1>5 DEF Bounded

LEMMA RecoverType ==
  ASSUME NEW S, NEW bits \in Seq(S), NEW more \in Seq(S)
  PROVE  Recover(bits, more) \in Seq(S) /\ Len(Recover(bits, more)) <= MaxRecoveredBits
<1>1. PICK all \in Seq(S) : all = bits \o more
  <2>1. bits \o more \in Seq(S)
    OBVIOUS
  <2> QED BY <2>1, Zenon
<1>2. PICK l \in Nat, m \in Nat : l = Len(all) /\ m = MaxRecoveredBits
  BY SessionAssumption
<1>3. PICK k \in 0..Len(all) : k = (IF l < m THEN l ELSE m) /\ k <= m
  <2>1. (IF l < m THEN l ELSE m) \in 0..l /\ (IF l < m THEN l ELSE m) <= m
    OBVIOUS
  <2> QED BY <1>2, <2>1
<1>4. Recover(bits, more) = SubSeq(all, 1, k)
  BY <1>1, <1>2, <1>3 DEF Recover
<1>5. SubSeq(all, 1, k) \in Seq(S) /\ Len(SubSeq(all, 1, k)) = k
  BY SubSeqFirst
<1> QED BY <1>2, <1>3, <1>4, <1>5

LEMMA AnswersAmong ==
  ASSUME NEW T, \A i \in DOMAIN asked : asked[i].table \in T, NEW tables, tables \subseteq T, NEW prompt
  PROVE  Answers(prompt, tables) \subseteq T
BY DEF Answers

(* What both invariants say of the loops.                                  *)
Between ==
  /\ IsSeq(asked) /\ IsSeq(replayed) /\ IsEnc(enc) /\ IsDec(dec)
  /\ Len(asked) \in 0..MaxSteps /\ Len(replayed) \in Nat
  /\ IsLocals(enc.locals) /\ enc.locals.steps = Len(asked)
  /\ enc.locals.pos \in Nat /\ enc.locals.pos <= Limit(Len(asked)) /\ enc.offset \in Nat
  /\ style # "styled" /\ ~enc.cut => Len(replayed) <= MaxSteps + 1

LEMMA BetweenHolds ==
  ASSUME SInv, WInv
  PROVE  Between
<1>1. CASE style = "styled"
  <2>1. Encoded /\ (Decoded \/ Astray)
    BY <1>1 DEF SInv
  <2>2. PICK n \in Nat : n = Len(asked) /\ Before(n) = enc.locals /\ n \in 0..n
    <3>1. Len(asked) \in Nat /\ Before(Len(asked)) = enc.locals
      BY <2>1, Asked
    <3>2. Len(asked) \in 0..Len(asked)
      BY <3>1
    <3> QED BY <3>1, <3>2
  <2>3. IsPlace(enc.locals, n) /\ enc.offset \in Nat
    BY <2>1, <2>2 DEF Encoded, Placed
  <2>4. n <= MaxSteps /\ n \in 0..MaxSteps
    BY <2>1, <2>2, StepDrawsIs DEF Encoded
  <2>5. IsSeq(replayed) /\ IsDec(dec)
    BY <2>1 DEF Decoded, Astray
  <2>6. Len(replayed) \in Nat
    BY <2>5, AppendAny
  <2> QED BY <1>1, <2>1, <2>2, <2>3, <2>4, <2>5, <2>6 DEF Between, Encoded, IsPlace
<1>2. CASE style # "styled"
  <2>1. Written /\ (ReadBack \/ Misread)
    BY <1>2 DEF WInv
  <2>2. PICK n \in Nat : n = Len(asked) /\ Before(n) = enc.locals /\ n \in 0..n
    <3>1. Len(asked) \in Nat /\ Before(Len(asked)) = enc.locals
      BY <2>1, Composed
    <3>2. Len(asked) \in 0..Len(asked)
      BY <3>1
    <3> QED BY <3>1, <3>2
  <2>3. IsWordPlace(enc.locals, n) /\ enc.offset \in Nat
    BY <2>1, <2>2 DEF Written, WordPlaced
  <2>4. n <= MaxSteps /\ n \in 0..MaxSteps
    BY <2>1, <2>2, StepDrawsIs DEF Written
  <2>5. IsSeq(replayed) /\ IsDec(dec)
    BY <2>1 DEF ReadBack, Misread
  <2>6. PICK r \in Nat : r = Len(replayed)
    BY <2>5, AppendAny
  <2>7. ASSUME ~enc.cut PROVE r <= MaxSteps + 1
    <3>1. CASE ReadBack
      <4>1. Along(r) \/ PastWord(r)
        BY <2>6, <3>1, ReplayedWords
      <4>2. r <= n + 1
        BY <2>2, <2>6, <4>1 DEF Along, PastWord
      <4> QED BY <2>4, <4>2, StepDrawsIs
    <3>2. CASE Misread
      <4>1. replayed = <<>>
        BY <2>7, <3>2 DEF Misread
      <4>2. r = 0
        BY <2>6, <4>1
      <4> QED BY <4>2, StepDrawsIs
    <3> QED BY <2>1, <3>1, <3>2
  <2> QED BY <2>1, <2>2, <2>3, <2>4, <2>5, <2>6, <2>7 DEF Between, Written, IsWordPlace
<1> QED BY <1>1, <1>2

LEMMA TablesAsked ==
  ASSUME SInv, WInv, NEW prompt
  PROVE  /\ style = "styled" => Answers(prompt, Tables) \subseteq Tables
         /\ style # "styled" =>
              \A b : Answers(prompt, SyllableTables(b)) \subseteq Openings \cup Continuations
<1>1. ASSUME style = "styled" PROVE Answers(prompt, Tables) \subseteq Tables
  <2>1. Encoded
    BY <1>1 DEF SInv
  <2>2. PICK n \in Nat : n = Len(asked) /\ DOMAIN asked = 1..n
    <3>1. Len(asked) \in Nat /\ DOMAIN asked = 1..Len(asked)
      BY <2>1, Asked
    <3> QED BY <3>1, Zenon
  <2>3. \A i \in DOMAIN asked : asked[i].table \in Tables
    BY <2>1, <2>2 DEF Encoded, Follows
  <2> QED BY <2>3, AnswersAmong
<1>2. ASSUME style # "styled", NEW b
      PROVE  Answers(prompt, SyllableTables(b)) \subseteq Openings \cup Continuations
  <2>1. Written
    BY <1>2 DEF WInv
  <2>2. PICK n \in Nat : n = Len(asked) /\ DOMAIN asked = 1..n
    <3>1. Len(asked) \in Nat /\ DOMAIN asked = 1..Len(asked)
      BY <2>1, Composed
    <3> QED BY <3>1, Zenon
  <2>3. \A i \in 1..n : asked[i].table \in SyllableTables(Before(i - 1))
    BY <2>1, <2>2 DEF Written, Spells
  <2>4. \A i \in DOMAIN asked : asked[i].table \in Openings \cup Continuations
    BY <2>2, <2>3, SomeTable
  <2> QED BY <2>4, SomeTable, AnswersAmong, Zenon
<1> QED BY <1>1, <1>2

(* The encoder's variables within their bounds, and the decoder's.         *)
Sends ==
  /\ enc.status \in {"idle", "running", "OK"} \cup Errors
  /\ Bounded(enc.locals)
  /\ enc.offset <= IF style = "styled" THEN Len(Bits) + Beta ELSE Len(asked) * Beta

Hearing ==
  /\ dec.status \in {"idle", "running", "stopped", "OK", "NULL", "failed"}
  /\ IsLocals(dec.locals) /\ Bounded(dec.locals)
  /\ dec.locals.pos \in Nat /\ dec.locals.pos <= Limit(Len(replayed))
  /\ dec.locals.steps \in 0..MaxSteps
  /\ style = "styled" => /\ Len(replayed) <= MaxSteps
                         /\ dec.status \in {"idle", "running"} => dec.locals.steps = Len(replayed)
  /\ IsSeq(dec.bits) /\ Len(dec.bits) <= MaxRecoveredBits
  /\ style = "styled" \/ ~enc.cut => dec.bits \in Seq(Bit)

TInv == style \in Styles /\ Sends /\ Hearing

LEMMA BitsLong ==
  ASSUME Given
  PROVE  Len(Bits) \in Nat
<1>1. PICK b \in Seq(Bit) : b = Bits
  BY MessageBits DEF Given
<1> QED BY <1>1

LEMMA PhraseSent ==
  ASSUME SInv, Between, Sends, EncodePhrase
  PROVE  Sends'
<1>0. style = "styled" /\ EncoderRuns /\ UNCHANGED session /\ Given /\ Encoded
  BY DEF EncodePhrase, Styled, SInv
<1>1. PICK table, e : table \in Tables /\ Asks(table, e)
  <2>1. \E table \in Tables : \E e : Asks(table, e)
    BY EncodePhraseIs
  <2> QED BY <2>1
<1>2. PICK n, b, o : /\ n \in Nat /\ n = Len(asked) /\ b = enc.locals /\ o = enc.offset /\ o \in Nat
                     /\ Before(n) = b /\ n \in 0..n
  <2>1. Len(asked) \in Nat /\ Before(Len(asked)) = enc.locals /\ enc.offset \in Nat
    BY <1>0, Asked DEF Between
  <2>2. Len(asked) \in 0..Len(asked)
    BY <2>1
  <2> QED BY <2>1, <2>2
<1>3. IsPlace(b, n) /\ IsLocals(b) /\ b.steps = n /\ b.partial = <<>> /\ Bounded(b)
  BY <1>0, <1>2 DEF Encoded, Placed, IsPlace, Sends
<1>4. n < MaxSteps /\ o < Len(Bits) /\ enc.status = "running"
  BY <1>0, <1>2, <1>3 DEF EncoderRuns
<1>5. Forward(n, b, o, table)
  BY <1>0, <1>1, <1>2, <1>3, <1>4, StepForward
<1>6. PICK a, c : a = After(b, o, table) /\ c = Choice(b, o, table)
  OBVIOUS
<1>7. c.consumed \in 0..Beta /\ c.chosen \in Texts
  <2>1. c.consumed \in 0..Beta /\ \E i \in 1..Len(table) : c.chosen = table[i].text
    BY <1>5, <1>6 DEF Forward
  <2> QED BY <1>1, <2>1, TableIs, Zenon DEF Texts
<1>8. /\ enc'.status = "running" /\ enc'.locals = a /\ enc'.offset = o + c.consumed
  <2>1. enc' = [enc EXCEPT !.locals = a, !.offset = @ + c.consumed]
    BY <1>1, <1>2, <1>6 DEF Asks
  <2>2. IsEnc(enc)
    BY DEF Between
  <2> QED BY <1>2, <1>4, <2>1, <2>2 DEF IsEnc
<1>9. Bounded(a)
  <2>1. PICK s, ends : s = EncoderDraws(b).locals /\ ends = EncoderDraws(b).endClause
    OBVIOUS
  <2>2. Bounded(s) /\ (~ends => s.phrases + 1 \in 0..(MaxPhrases - 1))
    BY <1>3, <2>1, DrawsKeepBounds
  <2>3. IsLocals(s)
    BY <1>3, <2>1, DrawsIs
  <2>4. a = EncoderTakes(Advanced(s), c.chosen, ends)
    BY <1>6, <2>1 DEF After
  <2> QED BY <1>7, <2>2, <2>3, <2>4, TakesKeepBounds
<1>10. style' = "styled" /\ Bits' = Bits
  BY <1>0 DEF session, Bits
<1>11. enc'.offset <= Len(Bits) + Beta
  <2>1. Len(Bits) \in Nat /\ Beta \in Nat
    BY <1>0, BitsLong, StepDrawsIs
  <2> QED BY <1>2, <1>4, <1>7, <1>8, <2>1
<1>12. Bounded(enc.locals)'
  BY <1>8, <1>9 DEF Bounded
<1> QED BY <1>8, <1>10, <1>11, <1>12 DEF Sends

LEMMA SpellsKeepBounds ==
  ASSUME NEW b, IsLocals(b), Bounded(b), NEW syllable, NEW a, a = EncoderSpells(Advanced(b), syllable)
  PROVE  Bounded(a)
<1>1. a.hist = b.hist /\ a.words = b.words /\ a.phrases = b.phrases /\ a.topics = b.topics
  <2>1. CASE syllable = EowText
    BY <2>1 DEF EncoderSpells, Advanced, IsLocals
  <2>2. CASE syllable # EowText
    BY <2>2 DEF EncoderSpells, Advanced, IsLocals
  <2> QED BY <2>1, <2>2
<1> QED BY <1>1 DEF Bounded

LEMMA SyllableSent ==
  ASSUME WInv, Between, Sends, EncodeSyllable
  PROVE  Sends'
<1>0. style # "styled" /\ EncoderRuns /\ UNCHANGED session /\ Given /\ Written
  BY DEF EncodeSyllable, Styled, WInv
<1>2. PICK n, b, o : /\ n \in Nat /\ n = Len(asked) /\ b = enc.locals /\ o = enc.offset /\ o \in Nat
                     /\ Before(n) = b /\ n \in 0..n
  <2>1. Len(asked) \in Nat /\ Before(Len(asked)) = enc.locals /\ enc.offset \in Nat
    BY <1>0, Composed DEF Between
  <2>2. Len(asked) \in 0..Len(asked)
    BY <2>1
  <2> QED BY <2>1, <2>2
<1>1. PICK table, e : table \in SyllableTables(b) /\ AsksSyllable(table, e)
  <2>1. \E table \in SyllableTables(enc.locals) : \E e : AsksSyllable(table, e)
    BY <1>0, EncodeSyllableIs
  <2> QED BY <1>2, <2>1
<1>3. IsWordPlace(b, n) /\ IsLocals(b) /\ b.steps = n /\ Bounded(b)
  BY <1>0, <1>2 DEF Written, WordPlaced, IsWordPlace, Sends
<1>4. n < MaxSteps /\ enc.status = "running"
  BY <1>0, <1>2, <1>3 DEF EncoderRuns
<1>5. Onward(n, b, o, table)
  BY <1>0, <1>1, <1>2, <1>3, <1>4, StepOnward
<1>6. PICK a, c : a = Spelt(b, o, table) /\ c = Spelling(b, o, table)
  OBVIOUS
<1>7. c.consumed \in 0..Beta
  BY <1>5, <1>6 DEF Onward
<1>8. enc'.status = "running" /\ enc'.locals = a /\ enc'.offset = o + c.consumed
  <2>1. enc' = [enc EXCEPT !.locals = a, !.offset = @ + c.consumed, !.cut = @ \/ Loses(b, c.chosen)]
    BY <1>1, <1>2, <1>6 DEF AsksSyllable
  <2>2. IsEnc(enc)
    BY DEF Between
  <2> QED BY <1>2, <1>4, <2>1, <2>2 DEF IsEnc
<1>9. Bounded(a)
  BY <1>3, <1>6, SpellsKeepBounds DEF Spelt
<1>10. style' # "styled"
  BY <1>0 DEF session
<1>11. Len(asked') = n + 1
  BY <1>1, <1>2, AppendAny DEF AsksSyllable, Between
<1>12. o + c.consumed <= (n + 1) * Beta
  <2>1. PICK B \in Nat : B = Beta
    BY StepDrawsIs
  <2>2. PICK x \in Nat : x = n * B
    BY <1>2
  <2>3. o <= x
    BY <1>0, <1>2, <2>1, <2>2 DEF Sends
  <2>4. (n + 1) * B = x + B
    BY <1>2, <2>2
  <2>5. c.consumed \in 0..B
    BY <1>7, <2>1
  <2>6. o + c.consumed <= x + B
    BY <1>2, <2>3, <2>5
  <2> QED BY <2>1, <2>4, <2>6
<1>13. Bounded(enc.locals)'
  BY <1>8, <1>9 DEF Bounded
<1> QED BY <1>8, <1>10, <1>11, <1>12, <1>13 DEF Sends

LEMMA OtherSends ==
  ASSUME Between, Sends, BeginEncode \/ EncodeFails \/ EncodeReturns
  PROVE  Sends'
<1>1. /\ UNCHANGED <<session, asked>>
      /\ enc'.locals = enc.locals /\ enc'.offset = enc.offset
      /\ enc'.status \in {"running", "OK"} \cup Errors
  <2>1. IsEnc(enc)
    BY DEF Between
  <2>2. CASE BeginEncode
    BY <2>1, <2>2, EncoderBegins DEF Errors
  <2>3. CASE EncodeFails \/ EncodeReturns
    BY <2>1, <2>3, EncoderReturns DEF Errors
  <2> QED BY <2>2, <2>3
<1>2. style' = style /\ Bits' = Bits /\ asked' = asked
  BY <1>1 DEF session, Bits
<1>3. Bounded(enc.locals)'
  BY <1>1 DEF Sends, Bounded
<1> QED BY <1>1, <1>2, <1>3 DEF Sends

LEMMA LimitNext ==
  ASSUME NEW n \in Nat, NEW p \in Nat, p <= Limit(n)
  PROVE  p <= Limit(n + 1) /\ p + Beta <= Limit(n + 1)
<1>1. PICK D \in Nat, B \in Nat : D = StepDraws /\ B = Beta /\ B <= D
  <2>1. StepDraws = 31 + Beta /\ Beta \in Nat
    BY BetaAssumption DEF StepDraws, MaxRedraws
  <2> QED BY <2>1, StepDrawsIs
<1>2. PICK x \in Nat : x = n * D
  OBVIOUS
<1>3. (n + 1) * D = x + D
  BY <1>2
<1>4. p <= x /\ Limit(n + 1) = x + D
  BY <1>1, <1>2, <1>3 DEF Limit
<1> QED BY <1>1, <1>4

LEMMA PhraseHeard ==
  ASSUME SInv, WInv, Between, Hearing, DecodePhrase
  PROVE  Hearing'
<1>0. style = "styled" /\ style' = style /\ DecoderRuns /\ UNCHANGED session /\ Given
  BY DEF DecodePhrase, Styled, SInv, session
<1>1. PICK table, rest : table \in Tables /\ Hears(table, rest)
  <2>1. IsDec(dec)
    BY DEF Between
  <2>2. \E table \in Answers(AskedPrompt(dec.locals, dec.preamble), Tables) :
          \E rest \in Behind(dec.remaining, Recognised(table, dec.remaining)) : Hears(table, rest)
    BY <2>1, DecodePhraseIs
  <2>3. Answers(AskedPrompt(dec.locals, dec.preamble), Tables) \subseteq Tables
    BY <1>0, TablesAsked
  <2> QED BY <2>2, <2>3
<1>2. PICK n, b : n \in Nat /\ n = Len(replayed) /\ b = dec.locals
  BY DEF Between
<1>3. /\ IsLocals(b) /\ Bounded(b) /\ b.pos \in Nat /\ b.pos <= Limit(n) /\ b.steps = n
      /\ n < MaxSteps /\ dec.bits \in Seq(Bit)
  BY <1>0, <1>2 DEF Hearing, DecoderRuns, Styled
<1>4. PICK s, ends, phrase, mask, bits :
        /\ s = EncoderDraws(b).locals /\ ends = EncoderDraws(b).endClause
        /\ phrase = Recognised(table, dec.remaining) /\ mask = MaskOf(b)
        /\ bits = Recover(dec.bits, DecodeStep(table, phrase, mask))
  OBVIOUS
<1>5. s.pos \in Nat /\ s.pos + Beta <= Limit(n + 1) /\ mask \in [1..Beta -> Bit]
  BY <1>0, <1>2, <1>3, <1>4, MaskType DEF Given
<1>6. bits \in Seq(Bit) /\ Len(bits) <= MaxRecoveredBits
  <2>1. /\ Len(table) \in Nat \ {0} /\ DOMAIN table = 1..Len(table)
        /\ \A i \in 1..Len(table) : table[i].start \in Int /\ table[i].end \in Int
    BY <1>1, TableIs
  <2>2. DecodeStep(table, phrase, mask) \in Seq(Bit)
    BY <1>5, <2>1, StepBits
  <2> QED BY <1>3, <1>4, <2>2, RecoverType
<1>7. IsLocals(s) /\ s.steps = n /\ Bounded(s) /\ (~ends => s.phrases + 1 \in 0..(MaxPhrases - 1))
  BY <1>3, <1>4, DrawsIs, DrawsKeepBounds
<1>8. Len(replayed') = n + 1
  <2>1. \E e : replayed' = Append(replayed, e)
    BY <1>1 DEF Hears
  <2> QED BY <1>2, <2>1, AppendAny DEF Between
<1>9. /\ dec'.bits = bits
      /\ dec'.status = IF NullTerminatorFound(bits) THEN "stopped" ELSE "running"
      /\ NullTerminatorFound(bits) => dec'.locals = [s EXCEPT !.pos = @ + Beta]
      /\ ~NullTerminatorFound(bits) => dec'.locals = EncoderTakes(Advanced(s), phrase, ends)
  <2>1. DecoderTakes([s EXCEPT !.pos = @ + Beta], phrase, ends) = EncoderTakes(Advanced(s), phrase, ends)
    BY <1>7, TakesSame
  <2> QED BY <1>1, <1>2, <1>4, <2>1 DEF Hears
<1>10. PICK d : d = dec'.locals
  OBVIOUS
<1>11. /\ IsLocals(d) /\ Bounded(d) /\ d.pos = s.pos + Beta
       /\ d.steps = IF NullTerminatorFound(bits) THEN n ELSE n + 1
  <2>1. CASE NullTerminatorFound(bits)
    <3>1. d = [s EXCEPT !.pos = @ + Beta]
      BY <1>9, <1>10, <2>1
    <3>2. /\ IsLocals(d) /\ d.pos = s.pos + Beta /\ d.steps = s.steps
          /\ d.hist = s.hist /\ d.words = s.words /\ d.phrases = s.phrases /\ d.topics = s.topics
      BY <1>7, <3>1 DEF IsLocals
    <3> QED BY <1>7, <2>1, <3>2 DEF Bounded
  <2>2. CASE ~NullTerminatorFound(bits)
    <3>1. d = EncoderTakes(Advanced(s), phrase, ends)
      BY <1>9, <1>10, <2>2
    <3>2. IsLocals(d) /\ d.pos = s.pos + Beta /\ d.steps = s.steps + 1
      BY <1>7, <3>1, TakesIs
    <3>3. phrase \in Texts
      BY <1>1, <1>4, RecognisedText DEF Texts
    <3>4. Bounded(d)
      BY <1>7, <3>1, <3>3, TakesKeepBounds
    <3> QED BY <1>7, <2>2, <3>2, <3>4
  <2> QED BY <2>1, <2>2
<1>12. d.pos \in Nat /\ d.pos <= Limit(n + 1)
  BY <1>5, <1>11, StepDrawsIs
<1>13. d.steps \in 0..MaxSteps /\ n + 1 <= MaxSteps
  BY <1>2, <1>3, <1>11, StepDrawsIs
<1>14. dec'.status \in {"running", "stopped"} /\ (dec'.status = "running" => d.steps = n + 1)
  BY <1>9, <1>11
<1>15. Bounded(dec.locals)' /\ IsLocals(dec.locals)'
  BY <1>10, <1>11 DEF Bounded, IsLocals
<1> QED BY <1>0, <1>6, <1>8, <1>9, <1>10, <1>12, <1>13, <1>14, <1>15 DEF Hearing, Limit, IsSeq

(* A step of the other mode's decoder asks once and leaves the histories.  *)
LEMMA WordHeard ==
  ASSUME WInv, Between, Hearing, style # "styled", style' = style, AsksAgain(dec.locals),
         NEW b, b = dec.locals, NEW d, d = dec'.locals,
         dec'.status \in {"running", "stopped"},
         IsLocals(d), d.hist = b.hist, d.words = b.words, d.phrases = b.phrases, d.topics = b.topics,
         d.steps = b.steps, d.pos \in {b.pos, b.pos + Beta},
         IsSeq(dec'.bits), Len(dec'.bits) <= MaxRecoveredBits, enc' = enc, ~enc.cut => dec'.bits \in Seq(Bit)
  PROVE  Hearing'
<1>1. PICK n \in Nat : n = Len(replayed)
  BY DEF Between
<1>2. Len(replayed') = n + 1
  BY <1>1, AppendAny DEF AsksAgain, Between
<1>3. b.pos \in Nat /\ b.pos <= Limit(n)
  BY <1>1 DEF Hearing
<1>4. d.pos \in Nat /\ d.pos <= Limit(n + 1)
  <2>1. PICK p \in Nat : p = b.pos /\ p <= Limit(n)
    BY <1>3
  <2>2. p <= Limit(n + 1) /\ p + Beta <= Limit(n + 1)
    BY <2>1, LimitNext
  <2>3. d.pos = p \/ d.pos = p + Beta
    BY <2>1
  <2> QED BY <2>2, <2>3, StepDrawsIs
<1>5. Bounded(dec.locals)' /\ IsLocals(dec.locals)'
  BY DEF Hearing, Bounded, IsLocals
<1>6. d.steps \in 0..MaxSteps
  BY DEF Hearing
<1>7. IsSeq(dec.bits)'
  BY DEF IsSeq
<1> QED BY <1>2, <1>4, <1>5, <1>6, <1>7 DEF Hearing, Limit

LEMMA SyllableBits ==
  ASSUME WInv, style # "styled", Between, Hearing, NEW table \in Openings \cup Continuations, NEW text,
         NEW bits, bits = Recover(dec.bits, DecodeStep(table, text, SyllableMask(dec.locals)))
  PROVE  /\ IsSeq(bits) /\ Len(bits) <= MaxRecoveredBits
         /\ ~enc.cut /\ Len(replayed) <= MaxSteps => bits \in Seq(Bit)
<1>1. PICK n, b, mask : n \in Nat /\ n = Len(replayed) /\ b = dec.locals /\ mask = SyllableMask(b)
  BY DEF Between
<1>2. b.pos \in Nat /\ b.pos <= Limit(n) /\ IsSeq(dec.bits)
  BY <1>1 DEF Hearing
<1>3. /\ Len(table) \in Nat \ {0} /\ DOMAIN table = 1..Len(table)
      /\ \A i \in 1..Len(table) : table[i].start \in Int /\ table[i].end \in Int
  BY SyllablesIs, Zenon
<1>4. PICK more : more = DecodeStep(table, text, mask)
  OBVIOUS
<1>5. IsSeq(bits) /\ Len(bits) <= MaxRecoveredBits
  <2>1. PICK S : more \in Seq(S)
    BY <1>3, <1>4, StepBits, Zenon
  <2>2. PICK R : dec.bits \in Seq(R)
    BY <1>2 DEF IsSeq
  <2>3. PICK T : T = S \cup R
    BY Zenon
  <2>4. S \subseteq T /\ R \subseteq T
    BY <2>3
  <2>5. more \in Seq(T) /\ dec.bits \in Seq(T)
    BY <2>1, <2>2, <2>4, SeqMonotonic
  <2> QED BY <1>1, <1>4, <2>5, RecoverType DEF IsSeq
<1>6. ASSUME ~enc.cut, Len(replayed) <= MaxSteps PROVE bits \in Seq(Bit)
  <2>1. mask \in [1..Beta -> Bit]
    BY <1>1, <1>2, <1>6, DrawnWithin DEF WInv, Given
  <2>2. more \in Seq(Bit)
    BY <1>3, <1>4, <2>1, StepBits, Zenon
  <2>3. dec.bits \in Seq(Bit)
    BY <1>6 DEF Hearing
  <2> QED BY <1>1, <1>4, <2>2, <2>3, RecoverType
<1> QED BY <1>5, <1>6

LEMMA SyllableHeard ==
  ASSUME SInv, WInv, Between, Between', Hearing, DecodeSyllable \/ DecodeEndOfWord \/ SkipEndOfWord
  PROVE  Hearing'
<1>0. style # "styled" /\ style' = style /\ IsDec(dec) /\ enc' = enc
  BY Zenon DEF DecodeSyllable, DecodeEndOfWord, SkipEndOfWord, WordIsSpelled, Styled, session, Between
<1>1. PICK b, d : b = dec.locals /\ d = dec'.locals
  OBVIOUS
<1>2. /\ IsLocals(b) /\ IsSeq(dec.bits) /\ Len(dec.bits) <= MaxRecoveredBits
      /\ ~enc.cut => dec.bits \in Seq(Bit)
  BY <1>1 DEF Hearing
<1>3. ASSUME AsksAgain(dec.locals), ~enc.cut PROVE Len(replayed) <= MaxSteps
  <2>1. PICK n \in Nat : n = Len(replayed)
    BY DEF Between
  <2>2. Len(replayed') = n + 1
    BY <1>3, <2>1, AppendAny DEF AsksAgain, Between
  <2>3. Len(replayed') <= MaxSteps + 1
    BY <1>0, <1>3 DEF Between
  <2> QED BY <2>1, <2>2, <2>3, StepDrawsIs
<1>4. CASE DecodeSyllable
  <2>1. PICK table \in Openings \cup Continuations : SpellsMore(table)
    <3>1. \E table \in Answers(SyllablePrompt(dec.locals), SyllableTables(dec.locals)) : SpellsMore(table)
      BY <1>0, <1>4, DecodeSyllableIs
    <3> QED BY <1>0, <3>1, TablesAsked
  <2>2. PICK heard, bits : /\ heard = Syllable(table, dec.remaining)
                           /\ bits = Recover(dec.bits, DecodeStep(table, heard.text, SyllableMask(b)))
    OBVIOUS
  <2>3. /\ AsksAgain(dec.locals) /\ dec'.bits = bits
        /\ dec'.status = IF NullTerminatorFound(bits) THEN "stopped" ELSE "running"
        /\ NullTerminatorFound(bits) => d = [b EXCEPT !.pos = @ + Beta]
        /\ ~NullTerminatorFound(bits) => d = [[b EXCEPT !.pos = @ + Beta] EXCEPT !.partial = Cut(Cat(@, heard.text))]
    BY <1>1, <2>1, <2>2 DEF SpellsMore
  <2>4. IsSeq(bits) /\ Len(bits) <= MaxRecoveredBits /\ (~enc.cut => bits \in Seq(Bit))
    BY <1>0, <1>1, <1>3, <2>2, <2>3, SyllableBits
  <2>5. /\ IsLocals(d) /\ d.hist = b.hist /\ d.words = b.words /\ d.phrases = b.phrases
        /\ d.topics = b.topics /\ d.steps = b.steps /\ d.pos = b.pos + Beta
    <3>1. CASE NullTerminatorFound(bits)
      BY <1>2, <2>3, <3>1 DEF IsLocals
    <3>2. CASE ~NullTerminatorFound(bits)
      <4>1. PICK moved : moved = [b EXCEPT !.pos = @ + Beta]
        OBVIOUS
      <4>2. PICK part : part = Cut(Cat(moved.partial, heard.text))
        OBVIOUS
      <4>3. d = [moved EXCEPT !.partial = part]
        BY <2>3, <3>2, <4>1, <4>2
      <4> QED BY <1>2, <4>1, <4>3, Zenon DEF IsLocals
    <3> QED BY <3>1, <3>2
  <2>6. dec'.status \in {"running", "stopped"}
    BY <2>3
  <2> QED BY <1>0, <1>1, <2>3, <2>4, <2>5, <2>6, WordHeard
<1>5. ASSUME NEW p, ToNextWord(p)
      PROVE  /\ IsLocals(d) /\ d.hist = b.hist /\ d.words = b.words /\ d.phrases = b.phrases
             /\ d.topics = b.topics /\ d.steps = b.steps /\ d.pos = p
  <2>1. d = [b EXCEPT !.pos = p, !.text = Joined(@, Head(dec.todo)), !.partial = <<>>]
    BY <1>1, <1>5 DEF ToNextWord
  <2> QED BY <1>2, <2>1, Zenon DEF IsLocals
<1>6. CASE DecodeEndOfWord
  <2>1. PICK table \in Openings \cup Continuations : ClosesWord(table)
    <3>1. \E table \in Answers(SyllablePrompt(dec.locals), SyllableTables(dec.locals)) : ClosesWord(table)
      BY <1>0, <1>6, DecodeEndOfWordIs
    <3> QED BY <1>0, <3>1, TablesAsked
  <2>2. PICK bits : bits = Recover(dec.bits, DecodeStep(table, EowText, SyllableMask(b)))
    OBVIOUS
  <2>3. /\ AsksAgain(dec.locals) /\ dec'.bits = bits
        /\ dec'.status = IF NullTerminatorFound(bits) THEN "stopped" ELSE "running"
        /\ NullTerminatorFound(bits) => d = [b EXCEPT !.pos = @ + Beta]
        /\ ~NullTerminatorFound(bits) => ToNextWord(b.pos + Beta)
    BY <1>1, <2>1, <2>2 DEF ClosesWord
  <2>4. IsSeq(bits) /\ Len(bits) <= MaxRecoveredBits /\ (~enc.cut => bits \in Seq(Bit))
    BY <1>0, <1>1, <1>3, <2>2, <2>3, SyllableBits
  <2>5. /\ IsLocals(d) /\ d.hist = b.hist /\ d.words = b.words /\ d.phrases = b.phrases
        /\ d.topics = b.topics /\ d.steps = b.steps /\ d.pos = b.pos + Beta
    <3>1. CASE NullTerminatorFound(bits)
      BY <1>2, <2>3, <3>1 DEF IsLocals
    <3>2. CASE ~NullTerminatorFound(bits)
      BY <1>5, <2>3, <3>2
    <3> QED BY <3>1, <3>2
  <2>6. dec'.status \in {"running", "stopped"}
    BY <2>3
  <2> QED BY <1>0, <1>1, <2>3, <2>4, <2>5, <2>6, WordHeard
<1>7. CASE SkipEndOfWord
  <2>1. SkipsClosing /\ dec'.bits = dec.bits
    BY <1>0, <1>7, SkipEndOfWordIs
  <2>2. AsksAgain(dec.locals) /\ dec'.status \in {"running", "stopped"} /\ ToNextWord(b.pos)
    BY <1>1, <2>1 DEF SkipsClosing
  <2>3. /\ IsLocals(d) /\ d.hist = b.hist /\ d.words = b.words /\ d.phrases = b.phrases
        /\ d.topics = b.topics /\ d.steps = b.steps /\ d.pos = b.pos
    BY <1>5, <2>2
  <2> QED BY <1>0, <1>1, <1>2, <2>1, <2>2, <2>3, WordHeard
<1> QED BY <1>4, <1>6, <1>7

(* What the decoder's other steps leave of its locals.                     *)
LEMMA DecoderElse ==
  ASSUME IsDec(dec), BeginDecode \/ DecodeFails \/ DecodeReturns
  PROVE  /\ UNCHANGED <<session, asked, replayed, enc>>
         /\ dec'.locals = dec.locals /\ dec'.bits = dec.bits
         /\ dec'.status \in {"running", "OK", "NULL", "failed"}
         /\ dec'.status = "running" => dec.status = "idle"
<1>1. UNCHANGED <<session, asked, replayed, enc>>
  BY Zenon DEF BeginDecode, DecodeFails, DecodeReturns
<1>2. CASE dec' = [dec EXCEPT !.status = "failed"]
  BY <1>1, <1>2 DEF IsDec
<1>3. CASE dec' = [dec EXCEPT !.status = "NULL"]
  BY <1>1, <1>3 DEF IsDec
<1>4. CASE dec' = [dec EXCEPT !.status = "OK", !.result = BitsToBytes(dec.bits)]
  BY <1>1, <1>4 DEF IsDec
<1>5. CASE BeginDecode
  <2>1. dec.status = "idle"
    BY <1>5, Zenon DEF BeginDecode
  <2>2. ASSUME NEW built, NEW todo, NEW w, NEW rest,
               dec' = [dec EXCEPT !.status = "running", !.preamble = built, !.todo = todo, !.wordless = w,
                                  !.remaining = rest]
        PROVE  dec'.locals = dec.locals /\ dec'.bits = dec.bits /\ dec'.status = "running"
    BY <2>2 DEF IsDec
  <2>3. ASSUME NEW built, NEW todo,
               dec' = [dec EXCEPT
                 !.status    = "running",
                 !.preamble  = built,
                 !.todo      = todo,
                 !.wordless  = ~Styled /\ todo # ExtractWords(enc.cover),
                 !.remaining = IF Styled THEN SkipSpaces(enc.cover)
                               ELSE IF todo = <<>> THEN <<>> ELSE Head(todo)]
        PROVE  dec'.locals = dec.locals /\ dec'.bits = dec.bits /\ dec'.status = "running"
    <3>1. PICK w, rest : dec' = [dec EXCEPT !.status = "running", !.preamble = built, !.todo = todo,
                                            !.wordless = w, !.remaining = rest]
      BY <2>3, Zenon
    <3> QED BY <2>2, <3>1
  <2>4. \/ dec' = [dec EXCEPT !.status = "failed"]
        \/ \E built \in Preambles, todo \in WordsFound :
              dec' = [dec EXCEPT
                !.status    = "running",
                !.preamble  = built,
                !.todo      = todo,
                !.wordless  = ~Styled /\ todo # ExtractWords(enc.cover),
                !.remaining = IF Styled THEN SkipSpaces(enc.cover)
                              ELSE IF todo = <<>> THEN <<>> ELSE Head(todo)]
    BY <1>5, Zenon DEF BeginDecode
  <2>5. CASE dec'.locals = dec.locals /\ dec'.bits = dec.bits /\ dec'.status = "running"
    BY <1>1, <2>1, <2>5
  <2> QED BY <1>2, <2>3, <2>4, <2>5, Zenon
<1>6. CASE DecodeFails \/ DecodeReturns
  BY <1>2, <1>3, <1>4, <1>6, Zenon DEF DecodeFails, DecodeReturns
<1> QED BY <1>5, <1>6

LEMMA OtherHearing ==
  ASSUME Between, Hearing, BeginDecode \/ DecodeFails \/ DecodeReturns
  PROVE  Hearing'
<1>1. /\ style' = style /\ replayed' = replayed /\ enc' = enc
      /\ dec'.locals = dec.locals /\ dec'.bits = dec.bits
      /\ dec'.status \in {"running", "OK", "NULL", "failed"}
      /\ dec'.status = "running" => dec.status = "idle"
  BY DecoderElse DEF Between, session
<1>2. Bounded(dec.locals)' /\ IsLocals(dec.locals)'
  BY <1>1 DEF Hearing, Bounded, IsLocals
<1>3. dec'.status \in {"idle", "running"} => dec.status = "idle"
  BY <1>1
<1>4. style' = "styled" => /\ Len(replayed') <= MaxSteps
                           /\ dec'.status \in {"idle", "running"} => dec'.locals.steps = Len(replayed')
  BY <1>1, <1>3 DEF Hearing
<1>5. /\ dec'.locals.pos \in Nat /\ dec'.locals.pos <= Limit(Len(replayed)) /\ dec'.locals.steps \in 0..MaxSteps
      /\ IsSeq(dec.bits)' /\ Len(dec'.bits) <= MaxRecoveredBits
      /\ style' = "styled" \/ ~enc'.cut => dec'.bits \in Seq(Bit)
  BY <1>1 DEF Hearing, IsSeq
<1>6. Limit(Len(replayed))' = Limit(Len(replayed))
  BY <1>1 DEF Limit
<1>7. dec'.status \in {"idle", "running", "stopped", "OK", "NULL", "failed"}
  BY <1>1
<1> QED BY <1>1, <1>2, <1>4, <1>5, <1>6, <1>7 DEF Hearing

LEMMA SendsStays ==
  ASSUME Sends, UNCHANGED <<session, asked, enc>>
  PROVE  Sends'
<1>1. style' = style /\ Bits' = Bits /\ asked' = asked /\ enc' = enc
  BY DEF session, Bits
<1>2. Bounded(enc.locals)'
  BY <1>1 DEF Sends, Bounded
<1> QED BY <1>1, <1>2 DEF Sends

LEMMA HearingStays ==
  ASSUME Hearing, UNCHANGED <<session, replayed, dec>>, style # "styled" /\ enc.cut => enc'.cut
  PROVE  Hearing'
<1>1. style' = style /\ replayed' = replayed /\ dec' = dec
  BY DEF session
<1>2. Bounded(dec.locals)' /\ IsLocals(dec.locals)' /\ IsSeq(dec.bits)'
  BY <1>1 DEF Hearing, Bounded, IsLocals, IsSeq
<1>3. style' = "styled" \/ ~enc'.cut => dec'.bits \in Seq(Bit)
  BY <1>1 DEF Hearing
<1> QED BY <1>1, <1>2, <1>3 DEF Hearing, Limit

(* A letter that was lost stays lost.                                      *)
LEMMA CutStays ==
  ASSUME WInv, Between, style # "styled", enc.cut,
         EncodePhrase \/ EncodeSyllable \/ BeginEncode \/ EncodeFails \/ EncodeReturns
  PROVE  enc'.cut
<1>1. IsEnc(enc) /\ Written
  BY DEF Between, WInv
<1>2. CASE EncodeSyllable
  <2>1. PICK table, e : AsksSyllable(table, e)
    BY <1>1, <1>2, EncodeSyllableIs
  <2>2. PICK l, o, lost : enc' = [enc EXCEPT !.locals = l, !.offset = o, !.cut = @ \/ lost]
    BY <2>1, Zenon DEF AsksSyllable
  <2>3. enc' = [status |-> enc.status, preamble |-> enc.preamble, locals |-> l, offset |-> o,
                cut |-> (enc.cut \/ lost), cover |-> enc.cover]
    BY <1>1, <2>2, Zenon DEF IsEnc
  <2>4. enc'.cut = (enc.cut \/ lost)
    BY <2>3, Zenon
  <2> QED BY <2>4, Zenon
<1>3. CASE BeginEncode
  BY <1>1, <1>3, EncoderBegins
<1>4. CASE EncodeFails \/ EncodeReturns
  BY <1>1, <1>4, EncoderReturns
<1>5. ~EncodePhrase
  BY Zenon DEF EncodePhrase, Styled
<1> QED BY <1>2, <1>3, <1>4, <1>5

LEMMA InitTInv == Init => TInv
<1> SUFFICES ASSUME Init PROVE TInv
  OBVIOUS
<1>1. PICK s : s = FreshLocals(style)
  OBVIOUS
<1>2. IsLocals(s) /\ Bounded(s) /\ s.pos = 0 /\ s.steps = 0
  BY <1>1, FreshBounded
<1>3. /\ style \in Styles /\ asked = <<>> /\ replayed = <<>>
      /\ enc.status = "idle" /\ enc.locals = s /\ enc.offset = 0
      /\ dec.status = "idle" /\ dec.locals = s /\ dec.bits = <<>>
  BY <1>1 DEF Init
<1>4. Len(asked) = 0 /\ Len(replayed) = 0 /\ dec.bits \in Seq(Bit) /\ Len(dec.bits) = 0 /\ IsSeq(dec.bits)
  <2>1. dec.bits \in Seq(Bit)
    BY <1>3
  <2> QED BY <1>3, <2>1 DEF IsSeq
<1>5. 0 <= Len(Bits) + Beta /\ 0 <= 0 * Beta /\ 0 <= Limit(0)
  <2>1. Given
    BY DEF Init, Given
  <2>2. Len(Bits) \in Nat
    BY <2>1, BitsLong
  <2> QED BY <2>2, StepDrawsIs DEF Limit
<1>6. Sends
  BY <1>2, <1>3, <1>4, <1>5 DEF Sends
<1>7. Hearing
  BY <1>2, <1>3, <1>4, <1>5, StepDrawsIs, SessionAssumption DEF Hearing
<1> QED BY <1>3, <1>6, <1>7 DEF TInv

LEMMA NextTInv ==
  SInv /\ WInv /\ SInv' /\ WInv' /\ TInv /\ [Next]_vars => TInv'
<1> SUFFICES ASSUME SInv, WInv, SInv', WInv', TInv, [Next]_vars PROVE TInv'
  OBVIOUS
<1>1. Between
  BY BetweenHolds
<1>2. Between'
  BY BetweenHolds, PTL
<1>3. style \in Styles /\ Sends /\ Hearing
  BY DEF TInv
<1>4. UNCHANGED session
  BY Zenon DEF Next, vars, session, BeginEncode, EncodePhrase, EncodeSyllable, EncodeFails, EncodeReturns,
         BeginDecode, DecodePhrase, DecodeSyllable, DecodeEndOfWord, SkipEndOfWord, DecodeFails, DecodeReturns
<1>5. style' \in Styles
  BY <1>3, <1>4 DEF session
<1>6. CASE EncodePhrase \/ EncodeSyllable \/ BeginEncode \/ EncodeFails \/ EncodeReturns
  <2>1. Sends'
    BY <1>1, <1>3, <1>6, PhraseSent, SyllableSent, OtherSends
  <2>2. UNCHANGED <<replayed, dec>>
    BY <1>6, Zenon DEF EncodePhrase, EncodeSyllable, BeginEncode, EncodeFails, EncodeReturns
  <2>3. style # "styled" /\ enc.cut => enc'.cut
    BY <1>1, <1>6, CutStays
  <2>4. Hearing'
    BY <1>3, <1>4, <2>2, <2>3, HearingStays
  <2> QED BY <1>5, <2>1, <2>4 DEF TInv
<1>7. CASE DecodePhrase \/ DecodeSyllable \/ DecodeEndOfWord \/ SkipEndOfWord
           \/ BeginDecode \/ DecodeFails \/ DecodeReturns
  <2>1. Hearing'
    BY <1>1, <1>2, <1>3, <1>7, PhraseHeard, SyllableHeard, OtherHearing
  <2>2. UNCHANGED <<asked, enc>>
    BY <1>7, Zenon DEF DecodePhrase, DecodeSyllable, DecodeEndOfWord, SkipEndOfWord, BeginDecode, DecodeFails, DecodeReturns
  <2>3. Sends'
    BY <1>3, <1>4, <2>2, SendsStays
  <2> QED BY <1>5, <2>1, <2>3 DEF TInv
<1>8. CASE UNCHANGED vars
  <2>1. UNCHANGED <<session, asked, replayed, enc, dec>>
    BY <1>4, <1>8 DEF vars
  <2>2. Sends' /\ Hearing'
    BY <1>3, <2>1, SendsStays, HearingStays
  <2> QED BY <1>5, <2>2 DEF TInv
<1> QED BY <1>6, <1>7, <1>8 DEF Next

LEMMA WithinBounds ==
  ASSUME SInv, WInv, TInv
  PROVE  TypeOK
<1>1. Between /\ Sends /\ Hearing /\ style \in Styles /\ Given
  BY BetweenHolds DEF TInv, SInv
<1>2. ASSUME NEW n \in Nat, n <= MaxSteps + 1, NEW p \in Nat, p <= Limit(n)
      PROVE  p \in 0..Len(stream)
  <2>1. PICK D \in Nat, M \in Nat : D = StepDraws /\ M = MaxSteps + 1
    BY StepDrawsIs
  <2>2. D * n <= D * M /\ D * n \in Nat /\ D * M \in Nat
    BY <1>2, <2>1, Monotone
  <2>3. PICK x \in Nat, y \in Nat : x = D * n /\ y = D * M /\ x <= y
    BY <2>2
  <2>4. Limit(n) = x /\ M * D = y
    BY <2>1, <2>3 DEF Limit
  <2>5. PICK l \in Nat : l = Len(stream) /\ y <= l
    <3>1. stream \in Seq(Bit) /\ Len(stream) >= M * D
      BY <1>1, <2>1, SessionAssumption DEF stream, Given
    <3>2. Len(stream) \in Nat
      BY <3>1
    <3> QED BY <2>4, <3>1, <3>2
  <2>6. p <= x
    BY <1>2, <2>4
  <2> QED BY <2>3, <2>5, <2>6
<1>3. /\ enc.locals.steps \in 0..MaxSteps /\ enc.locals.pos \in 0..Len(stream)
      /\ dec.locals.steps \in 0..MaxSteps
      /\ ~enc.cut => dec.locals.pos \in 0..Len(stream) /\ dec.bits \in Seq(Bit)
  <2>1. PICK n \in Nat : n = Len(asked) /\ n \in 0..MaxSteps /\ n <= MaxSteps + 1
    BY <1>1, StepDrawsIs DEF Between
  <2>2. enc.locals.pos \in 0..Len(stream) /\ enc.locals.steps \in 0..MaxSteps
    BY <1>1, <1>2, <2>1 DEF Between
  <2>3. dec.locals.steps \in 0..MaxSteps
    BY <1>1 DEF Hearing
  <2>4. ASSUME ~enc.cut PROVE dec.locals.pos \in 0..Len(stream) /\ dec.bits \in Seq(Bit)
    <3>1. PICK r \in Nat : r = Len(replayed) /\ r <= MaxSteps + 1
      <4>1. Len(replayed) \in Nat
        BY <1>1 DEF Between
      <4>2. Len(replayed) <= MaxSteps + 1
        BY <1>1, <2>4, <4>1, StepDrawsIs DEF Between, Hearing
      <4> QED BY <4>1, <4>2
    <3> QED BY <1>1, <1>2, <2>4, <3>1 DEF Hearing
  <2> QED BY <2>2, <2>3, <2>4
<1>4. enc.offset \in 0..(IF Styled THEN Len(Bits) + Beta ELSE MaxSteps * Beta)
  <2>1. PICK o \in Nat : o = enc.offset
    BY <1>1 DEF Between
  <2>2. CASE Styled
    <3>1. o <= Len(Bits) + Beta /\ Len(Bits) \in Nat
      BY <1>1, <2>1, <2>2, BitsLong DEF Sends, Styled
    <3> QED BY <2>1, <2>2, <3>1, StepDrawsIs
  <2>3. CASE ~Styled
    <3>1. PICK n \in Nat, M \in Nat, B \in Nat : n = Len(asked) /\ M = MaxSteps /\ B = Beta /\ n <= M
      BY <1>1, StepDrawsIs DEF Between
    <3>2. B * n <= B * M /\ B * n \in Nat /\ B * M \in Nat
      BY <3>1, Monotone
    <3>3. PICK x \in Nat, y \in Nat : x = B * n /\ y = B * M /\ x <= y
      BY <3>2
    <3>4. n * B = x /\ M * B = y
      BY <3>3
    <3>5. o <= n * B
      BY <1>1, <2>1, <2>3, <3>1 DEF Sends, Styled
    <3>6. o \in 0..(M * B)
      BY <3>3, <3>4, <3>5
    <3> QED BY <2>1, <2>3, <3>1, <3>6
  <2> QED BY <2>2, <2>3
<1>5. ASSUME NEW s \in {enc.locals, dec.locals}
      PROVE  /\ s.steps \in 0..MaxSteps
             /\ Len(s.hist) <= PhraseHistory /\ Len(s.words) <= WordHistory
             /\ s.phrases \in 0..(MaxPhrases - 1) /\ s.topics \in Nat
  BY <1>1, <1>3, Zenon DEF Sends, Hearing, Bounded
<1>6. /\ message \in Messages /\ key \in Keys
      /\ enc.status \in {"idle", "running", "OK"} \cup Errors
      /\ dec.status \in {"idle", "running", "stopped", "OK", "NULL", "failed"}
      /\ Len(dec.bits) <= MaxRecoveredBits
  BY <1>1 DEF Sends, Hearing, Given
<1> QED BY <1>1, <1>3, <1>4, <1>5, <1>6 DEF TypeOK

(* Type correctness, in either mode and with every bound: neither loop     *)
(* makes more steps than the budget, reads the keystream behind what it    *)
(* was given, or lets a history or the bit buffer outgrow its array        *)
(* (encode.c, decode.c, meteor_core.c).  A decoder that spells a word the  *)
(* encoder cut off is only held to its arrays.                             *)
THEOREM TypeCorrect == Spec => []TypeOK
<1>1. Init => TInv
  BY InitTInv
<1>2. SInv /\ WInv /\ SInv' /\ WInv' /\ TInv /\ [Next]_vars => TInv'
  BY NextTInv
<1>3. SInv /\ WInv /\ TInv => TypeOK
  BY WithinBounds
<1> QED BY <1>1, <1>2, <1>3, StyledSound, SyllableSound, PTL DEF Spec
=============================================================================
