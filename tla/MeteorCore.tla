----------------------------- MODULE MeteorCore -----------------------------
(***************************************************************************)
(* The rest of the codec's stateless half, meteor_stego/src/bits.c and     *)
(* meteor_core.c: the message as a string of bits and the pseudo-random    *)
(* draws that steer the style loop.  encode.c and decode.c both call these *)
(* functions, so they are written once; the loops are written out for each *)
(* side.                                                                   *)
(***************************************************************************)
EXTENDS SlotCoding

CONSTANTS
  ByteBits,        \* bits per message byte (8 in the code)
  PhraseHistory,   \* phrases remembered for the blacklist (PHRASE_HISTORY, 6)
  WordHistory,     \* words remembered for the blacklist (CONTENT_WORD_HISTORY, 8)
  IsContentWord(_) \* 3 <= length < 24 and not a stop word

ASSUME CoreAssumption ==
  /\ ByteBits \in Nat \ {0}
  /\ PhraseHistory \in Nat \ {0}
  /\ WordHistory \in Nat \ {0}

(***************************************************************************)
(* bits.c: a message is a sequence of bytes; its bits end with one zero    *)
(* byte, and reading them back stops at the first byte that is zero.       *)
(***************************************************************************)
BitsFromBytes(msg) ==
  [i \in 1..((Len(msg) + 1) * ByteBits) |->
     IF i > Len(msg) * ByteBits THEN 0
     ELSE BitsOf(msg[(i - 1) \div ByteBits + 1], ByteBits)[((i - 1) % ByteBits) + 1]]

BitsToAllBytes(bits) ==   \* mutant: the zero byte does not end the message
  [k \in 1..(Len(bits) \div ByteBits) |->
     ValueOf(SubSeq(bits, (k - 1) * ByteBits + 1, k * ByteBits))]

BitsToBytes(bits) ==
  LET byte(k)  == ValueOf(SubSeq(bits, (k - 1) * ByteBits + 1, k * ByteBits))
      whole    == 1..(Len(bits) \div ByteBits)
      length   == CHOOSE n \in {0} \cup whole :
                    /\ \A k \in 1..n : byte(k) # 0
                    /\ n + 1 \in whole => byte(n + 1) = 0
  IN [k \in 1..length |-> byte(k)]

(* decode.c looks at the last ByteBits bits wherever the step left off: it *)
(* does not require the run of zeros to fill one byte of the message.      *)
NullTerminatorFound(bits) ==
  /\ Len(bits) >= ByteBits
  /\ \A i \in (Len(bits) - ByteBits + 1)..Len(bits) : bits[i] = 0

(***************************************************************************)
(* The keystream is a string of bits read from left to right (prng.c); a   *)
(* position is the number of bits already drawn.                           *)
(***************************************************************************)
NextBits(stream, pos, n) == [i \in 1..n |-> stream[pos + i]]

Draw(stream, pos, n) == ValueOf(NextBits(stream, pos, n))

QuestionCount == 5      \* STYLE_Q_COUNT = DIGRESS_AXIS_COUNT
MaxRedraws    == 4      \* STYLE_Q_MAX_REDRAWS = DIGRESS_AXIS_MAX_REDRAWS
MinPhrases    == 2      \* CLAUSE_END_MIN_PHRASES
MaxPhrases    == 2      \* CLAUSE_END_MAX_PHRASES
MinTopicSentences == 1  \* DIGRESS_MIN_TOPIC_SENTENCES

(* One of five values, drawn again while it is a recent one, at most four  *)
(* draws.  The number of bits spent depends on the values drawn.           *)
DrawUnlikeRecent(stream, pos, recent) ==
  LET value(k) == Draw(stream, pos + 3 * (k - 1), 3) % QuestionCount
      draws    == CHOOSE k \in 1..MaxRedraws :
                    /\ value(k) \notin recent \/ k = MaxRedraws
                    /\ \A j \in 1..(k - 1) : value(j) \in recent
  IN [value |-> value(draws), pos |-> pos + 3 * draws]

(* Three bits are always drawn; they decide only between the bounds.       *)
DrawClauseEnd(stream, pos, phrases) ==
  [value |-> \/ phrases + 1 >= MinPhrases /\ phrases + 1 >= MaxPhrases
             \/ phrases + 1 >= MinPhrases /\ Draw(stream, pos, 3) = 0,
   pos   |-> pos + 3]

DrawDigressAgain(stream, pos, topics, lastWasDigression) ==   \* mutant: last_was_digression is not looked at
  [value |-> topics >= MinTopicSentences /\ Draw(stream, pos, 3) = 0, pos |-> pos + 3]

DrawDigressMode(stream, pos, topics, lastWasDigression) ==
  [value |-> topics >= MinTopicSentences /\ ~lastWasDigression /\ Draw(stream, pos, 3) = 0,
   pos   |-> pos + 3]

DrawVariant(stream, pos) == [value |-> Draw(stream, pos, 1), pos |-> pos + 1]

(***************************************************************************)
(* The two histories that go into every prompt.                            *)
(***************************************************************************)
PushUnbounded(hist, e, bound) == Append(hist, e)   \* mutant: nothing is dropped

PushBounded(hist, e, bound) == IF Len(hist) < bound THEN Append(hist, e) ELSE Append(Tail(hist), e)

Space == " "

(* The maximal runs of characters of a kind, in order: a character joins   *)
(* the run of the one before it or opens a run of its own.                 *)
Prolonged(runs, c) == [runs EXCEPT ![Len(runs)] = Append(@, c)]

Runs(text, OfKind(_)) ==
  LET runs[k \in 0..Len(text)] ==
        IF k = 0 THEN <<>>
        ELSE IF ~OfKind(text[k]) THEN runs[k - 1]
        ELSE IF k > 1 /\ OfKind(text[k - 1]) THEN Prolonged(runs[k - 1], text[k])
        ELSE Append(runs[k - 1], <<text[k]>>)
  IN runs[Len(text)]

WordsOf(phrase) == Runs(phrase, LAMBDA c : c # Space)

IsAlpha(c) == c \notin {Space, ".", "-"}

(* A word joins the history unless it is there.                            *)
Noted(hist, word) ==
  IF IsContentWord(word) /\ ~Contains(hist, word) THEN PushBounded(hist, word, WordHistory) ELSE hist

WordHistoryAdd(hist, phrase) ==
  LET words == WordsOf(phrase)
      noted[k \in 0..Len(words)] == IF k = 0 THEN hist ELSE Noted(noted[k - 1], words[k])
  IN noted[Len(words)]
=============================================================================
