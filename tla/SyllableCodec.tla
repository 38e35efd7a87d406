--------------------------- MODULE SyllableCodec ---------------------------
(***************************************************************************)
(* The syllable mode (METEOR_STYLE_NONE): the loops of encode.c and        *)
(* decode.c that spell words out of syllables.  The encoder ends a word    *)
(* when the bits select the end-of-word candidate, which leaves no trace   *)
(* in the covertext but the space behind the word: the decoder, who finds  *)
(* the words first and spells them again, makes that step up.              *)
(*                                                                         *)
(* Both sides keep a word they spell in a buffer of 512 bytes and cut off  *)
(* what does not fit.  Nothing but the step budget bounds a word, so the   *)
(* encoder may lose a syllable that carries bits (enc.cut).                *)
(***************************************************************************)
EXTENDS CodecSession

CONSTANTS
  Openings,        \* the tables the model may open a word with: syllables
  Continuations,   \* and go on with: syllables and, in the end, the end of word
  EowText,         \* EOW_TOKEN
  MaxPartial       \* letters of a word the buffers hold (MAX_PARTIAL_LEN - 1, 511)

(* What the grammars of the two requests leave the model: a word opens     *)
(* with a syllable, and an end of word comes last wherever a word goes on. *)
OpensWord(table) == \A i \in DOMAIN table : table[i].text # EowText

ContinuesWord(table) ==
  Len(table) >= 2 /\ \A i \in DOMAIN table : table[i].text = EowText <=> i = Len(table)

(* A syllable is of letters, as the grammars have it; no candidate of a    *)
(* list is a prefix of another, and the slots are laid out.                *)
ASSUME SyllableAssumption ==
  /\ MaxPartial \in Nat \ {0}
  /\ Openings # {} /\ \A table \in Openings : OpensWord(table)
  /\ Continuations # {} /\ \A table \in Continuations : ContinuesWord(table)
  /\ \A table \in Openings \cup Continuations :
       /\ table \in Seq([text : Seq(Char), start : Int, end : Int]) /\ LaidOut(table)
       /\ \A i \in DOMAIN table :
            /\ table[i].text # <<>>
            /\ table[i].text # EowText => \A k \in DOMAIN table[i].text : IsAlpha(table[i].text[k])
       /\ \A i, j \in DOMAIN table : IsPrefix(table[i].text, table[j].text) => i = j

(* What the request is built from.                                         *)
SyllablePrompt(s) == [text |-> s.text, partial |-> s.partial]

SyllableTables(s) == IF s.partial = <<>> THEN Openings ELSE Continuations

SyllableMask(s) == NextBits(stream, s.pos, Beta)

Overflows(word) == Len(word) > MaxPartial

Cut(word) == IF Overflows(word) THEN SubSeq(word, 1, MaxPartial) ELSE word

(***************************************************************************)
(* encode.c                                                                *)
(***************************************************************************)
EncoderSpells(s, syllable) ==
  IF syllable = EowText
  THEN [s EXCEPT !.text = Joined(@, s.partial), !.partial = <<>>]
  ELSE [s EXCEPT !.partial = Cut(@ \o syllable)]

EncodeSyllable ==
  /\ ~Styled /\ EncoderRuns
  /\ LET s == enc.locals
     IN \E table \in Answers(SyllablePrompt(s), SyllableTables(s)) :
          LET step == EncodeStep(table, Bits, enc.offset, SyllableMask(s))
              next == EncoderSpells([s EXCEPT !.pos = @ + Beta, !.steps = @ + 1], step.chosen)
              lost == step.chosen # EowText /\ Overflows(s.partial \o step.chosen)
          IN /\ enc' = [enc EXCEPT !.locals = next, !.offset = @ + step.consumed, !.cut = @ \/ lost]
             /\ asked' = Append(asked, [before |-> enc.locals, prompt |-> SyllablePrompt(s), maskAt |-> s.pos,
                                        table |-> table, opening |-> FALSE, digression |-> FALSE,
                                        offset |-> enc.offset + step.consumed])
  /\ UNCHANGED <<session, replayed, dec>>

(***************************************************************************)
(* decode.c                                                                *)
(***************************************************************************)

(* The syllable the word goes on with.  With none the code takes the first *)
(* candidate for all that is left of the word.                             *)
Syllable(table, remaining) ==
  LET hits  == Matching(table, remaining)
      match == table[LongestMatch(table, remaining)].text
  IN IF hits = {} THEN [text |-> table[1].text, length |-> Len(remaining)]
     ELSE [text |-> match, length |-> Len(match)]

DecodeSyllable ==
  /\ ~Styled /\ DecoderRuns /\ dec.remaining # <<>>
  /\ LET s == dec.locals
     IN \E table \in Answers(SyllablePrompt(s), SyllableTables(s)) :
          LET heard == Syllable(table, dec.remaining)
              bits  == Recover(dec.bits, DecodeStep(table, heard.text, SyllableMask(s)))
              read  == [dec EXCEPT !.bits = bits, !.locals.pos = @ + Beta,
                                   !.unmatched = @ \/ Matching(table, dec.remaining) = {}]
          IN dec' = IF NullTerminatorFound(bits) THEN [read EXCEPT !.status = "stopped"]
                    ELSE [read EXCEPT !.locals.partial = Cut(@ \o heard.text),
                                      !.remaining = SubSeq(@, heard.length + 1, Len(@))]
  /\ replayed' = Append(replayed, [prompt |-> SyllablePrompt(dec.locals), maskAt |-> dec.locals.pos])
  /\ UNCHANGED <<session, asked, enc>>

(* On to the next word of the covertext.                                   *)
NextWord(d) ==
  LET todo == Tail(d.todo)
  IN [d EXCEPT !.locals.text = Joined(@, Head(d.todo)), !.locals.partial = <<>>,
               !.todo = todo, !.remaining = IF todo = <<>> THEN <<>> ELSE Head(todo)]

WordIsSpelled == ~Styled /\ DecoderRuns /\ dec.remaining = <<>>

DecodeEndOfWord ==
  /\ WordIsSpelled
  /\ LET s == dec.locals
     IN \E table \in Answers(SyllablePrompt(s), SyllableTables(s)) :
          LET bits  == Recover(dec.bits, DecodeStep(table, EowText, SyllableMask(s)))
              moved == [dec EXCEPT !.bits = bits, !.locals.pos = @ + Beta]
          IN dec' = IF NullTerminatorFound(bits) THEN [moved EXCEPT !.status = "stopped"]
                    ELSE NextWord(moved)
  /\ replayed' = Append(replayed, [prompt |-> SyllablePrompt(dec.locals), maskAt |-> dec.locals.pos])
  /\ UNCHANGED <<session, asked, enc>>

(* The model answers but an allocation or the table fails: the step is     *)
(* left out, draw included, and the loop goes on.                          *)
SkipEndOfWord ==
  /\ WordIsSpelled
  /\ dec' = [NextWord(dec) EXCEPT !.skipped = TRUE]
  /\ replayed' = Append(replayed, [prompt |-> SyllablePrompt(dec.locals), maskAt |-> dec.locals.pos])
  /\ UNCHANGED <<session, asked, enc>>
=============================================================================
