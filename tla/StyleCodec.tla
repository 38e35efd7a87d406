----------------------------- MODULE StyleCodec -----------------------------
(***************************************************************************)
(* The style mode: the phrase-level loops of encode.c and decode.c.  One   *)
(* iteration of a loop is one action.                                      *)
(***************************************************************************)
EXTENDS CodecSession

CONSTANT Tables   \* the slot tables the model may answer a phrase request with

(* Phrases start with a word, as the grammars of both requests have it; no *)
(* candidate of a list is a prefix of another, and the slots are laid out. *)
ASSUME TablesAssumption ==
  \A table \in Tables :
    /\ table \in Seq([text : Seq(Char), start : Int, end : Int]) /\ LaidOut(table)
    /\ \A i \in DOMAIN table : table[i].text # <<>> /\ Head(table[i].text) # Space
    /\ \A i, j \in DOMAIN table : IsPrefix(table[i].text, table[j].text) => i = j

(* The prompt of the phrase request.  A digression's opening replaces the  *)
(* preamble by one on the answer to a first request, which is a function   *)
(* of the text so far, the axis and the variant; that one is checked.      *)
PromptOf(s, question, preamble) ==
  [topic    |-> IF s.anchor = NoPhrase /\ s.dig THEN <<s.text, s.digAxis, s.variant>>
                ELSE IF preamble THEN <<"topic">> ELSE <<>>,
   text     |-> s.text,
   phrases  |-> s.hist,
   words    |-> s.words,
   anchor   |-> s.anchor,
   question |-> IF s.anchor = NoPhrase THEN 0 ELSE question]

(***************************************************************************)
(* encode.c                                                                *)
(***************************************************************************)

(* The draws of one iteration, in the order encode.c makes them, pushed on *)
(* the histories and latched when a sentence opens.                        *)
EncoderDraws(s) ==
  LET q == DrawUnlikeRecent(stream, s.pos, s.question)
      e == DrawClauseEnd(stream, q.pos, s.phrases)
      d == DrawDigressMode(stream, e.pos, s.topics, s.lastDig)
      a == DrawUnlikeRecent(stream, d.pos, s.axis)
      v == DrawVariant(stream, a.pos)
      opening == s.anchor = NoPhrase
  IN [question |-> q.value, endClause |-> e.value,
      locals   |-> [s EXCEPT !.pos = v.pos, !.question = {q.value}, !.axis = {a.value},
                             !.dig     = IF opening THEN d.value ELSE @,
                             !.digAxis = IF opening THEN a.value ELSE @,
                             !.variant = IF opening THEN v.value ELSE @]]

(* What an iteration does with the phrase it chose.                        *)
EncoderTakes(s, phrase, endClause) ==
  LET spoken == Joined(s.text, phrase)
      t      == [s EXCEPT !.anchor = IF @ = NoPhrase THEN phrase ELSE @,
                          !.words  = WordHistoryAdd(@, phrase),
                          !.hist   = PushBounded(@, phrase, PhraseHistory),
                          !.text   = spoken,
                          !.phrases = @ + 1]
  IN IF endClause
     THEN [t EXCEPT !.text = Append(@, Period), !.anchor = NoPhrase, !.phrases = 0,
                    !.lastDig = s.dig, !.topics = IF s.dig THEN @ ELSE @ + 1]
     ELSE t

EncodePhrase ==
  /\ Styled /\ EncoderRuns
  /\ LET drawn  == EncoderDraws(enc.locals)
         s      == drawn.locals
         prompt == PromptOf(s, drawn.question, enc.preamble)
         mask   == NextBits(stream, s.pos, Beta)
     IN \E table \in Tables :
          LET step == EncodeStep(table, Bits, enc.offset, mask)
              next == EncoderTakes([s EXCEPT !.pos = @ + Beta, !.steps = @ + 1],
                                   step.chosen, drawn.endClause)
          IN /\ enc' = [enc EXCEPT !.locals = next, !.offset = @ + step.consumed]
             /\ asked' = Append(asked, [before |-> enc.locals, prompt |-> prompt, maskAt |-> s.pos,
                                        table |-> table, opening |-> s.anchor = NoPhrase, digression |-> s.dig,
                                        offset |-> enc.offset + step.consumed])
  /\ UNCHANGED <<session, replayed, dec>>

(***************************************************************************)
(* decode.c                                                                *)
(***************************************************************************)
DecoderDrawsSparingly(s) ==   \* mutant: the variant is drawn only where it is used
  LET drawn == EncoderDraws(s)
  IN IF s.anchor = NoPhrase THEN drawn ELSE [drawn EXCEPT !.locals.pos = @ - 1]

DecoderDraws(s) ==
  LET q == DrawUnlikeRecent(stream, s.pos, s.question)
      e == DrawClauseEnd(stream, q.pos, s.phrases)
      d == DrawDigressMode(stream, e.pos, s.topics, s.lastDig)
      a == DrawUnlikeRecent(stream, d.pos, s.axis)
      v == DrawVariant(stream, a.pos)
      opening == s.anchor = NoPhrase
  IN [question |-> q.value, endClause |-> e.value,
      locals   |-> [s EXCEPT !.pos = v.pos, !.question = {q.value}, !.axis = {a.value},
                             !.dig     = IF opening THEN d.value ELSE @,
                             !.digAxis = IF opening THEN a.value ELSE @,
                             !.variant = IF opening THEN v.value ELSE @]]

DecoderTakesNoWords(s, phrase, endClause) ==   \* mutant: the word history is not kept
  [EncoderTakes(s, phrase, endClause) EXCEPT !.words = s.words, !.steps = @ + 1]

DecoderTakes(s, phrase, endClause) ==
  LET heard == Joined(s.text, phrase)
      t     == [s EXCEPT !.anchor = IF @ = NoPhrase THEN phrase ELSE @,
                         !.words  = WordHistoryAdd(@, phrase),
                         !.hist   = PushBounded(@, phrase, PhraseHistory),
                         !.text   = heard,
                         !.phrases = @ + 1,
                         !.steps  = @ + 1]
  IN IF endClause
     THEN [t EXCEPT !.text = Append(@, Period), !.anchor = NoPhrase, !.phrases = 0,
                    !.lastDig = s.dig, !.topics = IF s.dig THEN @ ELSE @ + 1]
     ELSE t

RestAfterPhrase(rest, endClause) == SkipSpaces(rest)   \* mutant: the period is not consumed

(* The covertext after the phrase, without the period the encoder put      *)
(* behind it if it ended a sentence and the space before the next one.     *)
RestAfter(rest, endClause) ==
  SkipSpaces(IF endClause /\ rest # <<>> /\ Head(rest) = Period THEN Tail(rest) ELSE rest)

(* Where the pointer into the covertext may be after the phrase: stepping  *)
(* over one longer than what is left takes it out of the string.           *)
Behind(remaining, phrase) ==
  IF Len(phrase) > Len(remaining) THEN Beyond
  ELSE {SubSeq(remaining, Len(phrase) + 1, Len(remaining))}

(* With no match the code takes the first candidate and steps over its     *)
(* length.                                                                 *)
Recognised(table, remaining) ==
  table[IF Matching(table, remaining) = {} THEN 1 ELSE LongestMatch(table, remaining)].text

DecodePhrase ==
  /\ Styled /\ DecoderRuns
  /\ LET drawn  == DecoderDraws(dec.locals)
         s      == drawn.locals
         prompt == PromptOf(s, drawn.question, dec.preamble)
         mask   == NextBits(stream, s.pos, Beta)
     IN \E table \in Answers(prompt, Tables) :
        \E rest \in Behind(dec.remaining, Recognised(table, dec.remaining)) :
          LET phrase == Recognised(table, dec.remaining)
              bits   == Recover(dec.bits, DecodeStep(table, phrase, mask))
              moved  == [s EXCEPT !.pos = @ + Beta]
              read   == [dec EXCEPT !.bits = bits, !.locals = moved,
                                    !.unmatched = @ \/ Matching(table, dec.remaining) = {}]
          IN /\ replayed' = Append(replayed, [prompt |-> prompt, maskAt |-> s.pos])
             /\ dec' = IF NullTerminatorFound(bits) THEN [read EXCEPT !.status = "stopped"]
                       ELSE [read EXCEPT !.locals    = DecoderTakes(moved, phrase, drawn.endClause),
                                         !.remaining = RestAfter(rest, drawn.endClause)]
  /\ UNCHANGED <<session, asked, enc>>
=============================================================================
