---------------------------- MODULE CodecSession ----------------------------
(***************************************************************************)
(* What both modes of the codec share: meteor_encode_impl and              *)
(* meteor_decode_impl up to their loops and from the loops on, run one     *)
(* after the other over the same key and the same language model.          *)
(*                                                                         *)
(* The sender picks a message and encodes it into a covertext; the         *)
(* receiver, who has only the covertext, the key and the model, decodes    *)
(* it.  Nothing is transmitted but the covertext: the receiver rebuilds    *)
(* every prompt and every draw from the covertext, so the two loops of a   *)
(* mode, written twice in the code, have to move in lockstep.              *)
(*                                                                         *)
(* The model is a function from prompts to slot tables.  It is filled in   *)
(* as the encoder asks (asked); a prompt the encoder never sent may be     *)
(* answered by any table.                                                  *)
(***************************************************************************)
EXTENDS MeteorCore

CONSTANTS
  Char,              \* what texts are made of
  Styles,            \* the modes: "styled" for any style, "none" for the syllable mode
  Context,           \* starting_context, which opens the covertext in the syllable mode
  Messages,          \* the messages a caller may encode: sequences of nonzero bytes
  Keys,              \* the keys sender and receiver may share
  Keystream,         \* the bits each key expands to
  MaxSteps,          \* MeteorConfig.max_steps
  MaxRecoveredBits,  \* the decoder's buffer (MAX_RECOVERED_BITS, 8192)
  Beyond,            \* what the decoder may find in memory behind the covertext
  PreambleBuilt      \* how building a preamble may come out: {TRUE} where memory never lacks

Period == "."
NoPhrase == <<>>

(* No step of either mode draws more bits than this; and no side makes     *)
(* more steps than the encoder may, but for the end of a word it cut off.  *)
StepDraws == 2 * (3 * MaxRedraws) + 3 + 3 + 1 + Beta

ASSUME SessionAssumption ==
  /\ {Space, Period} \subseteq Char
  /\ Styles \subseteq {"styled", "none"}
  /\ Context \in Seq(Char)
  /\ \A m \in Messages : m \in Seq(1..(PowerOfTwo(ByteBits) - 1))
  /\ \A k \in Keys : Keystream[k] \in Seq(Bit) /\ Len(Keystream[k]) >= (MaxSteps + 1) * StepDraws
  /\ MaxSteps \in Nat
  /\ MaxRecoveredBits \in Nat
  /\ PreambleBuilt \subseteq BOOLEAN
  /\ Beyond # {} /\ \A rest \in Beyond : rest \in Seq(Char)

VARIABLES
  style,     \* MeteorCtx.style
  message,   \* what the sender encodes
  key,       \* what both sides seed the keystream from
  asked,     \* the encoder's loop so far: per step [prompt, maskAt, opening, digression, offset, table],
             \* and its locals before the step
  replayed,  \* the decoder's loop so far: one [prompt, maskAt] per step
  enc,       \* the encoder's locals
  dec        \* the decoder's locals

vars == <<style, message, key, asked, replayed, enc, dec>>

session == <<style, message, key>>

Styled == style = "styled"

Bits == BitsFromBytes(message)

stream == Keystream[key]

(***************************************************************************)
(* The locals both sides declare: those of the function, of its style loop *)
(* and of its syllable loop.                                               *)
(***************************************************************************)
FreshLocals(mode) ==
  [pos      |-> 0,        \* MeteorPRNG: bits drawn
   text     |-> IF mode = "styled" THEN <<>> ELSE Context,   \* full_text / full_recon
   steps    |-> 0,
   question |-> {},       \* q_hist: at most the last question
   axis     |-> {},       \* axis_hist: at most the last axis
   phrases  |-> 0,        \* clause_state.phrases_in_sentence
   topics   |-> 0,        \* digress_state.topic_sentences_completed
   lastDig  |-> FALSE,    \* digress_state.last_was_digression
   anchor   |-> NoPhrase, \* subject_anchor, empty at the opening of a sentence
   dig      |-> FALSE,    \* sentence_is_digression
   digAxis  |-> 0,        \* sentence_axis
   variant  |-> 0,        \* sentence_variant
   hist     |-> <<>>,     \* phrase_history
   words    |-> <<>>,     \* content_hist
   partial  |-> <<>>]     \* partial_word / partial, empty at the start of a word

(* Phrases and words are joined by a space, on either side of the text.    *)
Joined(text, unit) == IF text = <<>> THEN unit ELSE text \o <<Space>> \o unit

(* What the model may answer: always the same to the same prompt.          *)
Answers(prompt, tables) ==
  LET known == {i \in DOMAIN asked : asked[i].prompt = prompt}
  IN IF known = {} THEN tables ELSE {asked[i].table : i \in known}

(***************************************************************************)
(* meteor_encode_impl before and after the loop.                           *)
(***************************************************************************)
EncoderRuns ==
  /\ enc.status = "running" /\ enc.locals.steps < MaxSteps
  /\ enc.offset < Len(Bits) \/ enc.locals.partial # <<>>

(* Whether the text that tells the model what to paraphrase was built: its *)
(* allocation may fail, and nobody looks.  Without a style there is none.  *)
Preambles == IF Styled THEN PreambleBuilt ELSE {FALSE}

(* Key setup and, with a style, the check that rejects a message the       *)
(* budget cannot hold.                                                     *)
BeginEncode ==
  /\ enc.status = "idle"
  /\ \/ /\ Styled /\ MaxSteps * Beta < Len(Bits)
        /\ enc' = [enc EXCEPT !.status = "ERR_CAPACITY"]
     \/ /\ Styled => MaxSteps * Beta >= Len(Bits)
        /\ \E built \in Preambles :
             enc' = [enc EXCEPT !.status = "running", !.preamble = built]
     \/ enc' = [enc EXCEPT !.status = "failed"]
  /\ UNCHANGED <<session, asked, replayed, dec>>

(* Any request, parse or allocation of an iteration may fail; no part of   *)
(* the covertext survives.                                                 *)
EncodeFails ==
  /\ EncoderRuns
  /\ enc' = [enc EXCEPT !.status = "failed"]
  /\ UNCHANGED <<session, asked, replayed, dec>>

(* A sentence the loop left open gets its period.                          *)
ClosedSentence(text) ==
  IF text # <<>> /\ Last(text) # Period THEN Append(text, Period) ELSE text

(* A word the loop left open is written though no end of word was chosen.  *)
ClosedWord(text, partial) == IF partial = <<>> THEN text ELSE Joined(text, partial)

Closed(s) == IF Styled THEN ClosedSentence(s.text) ELSE ClosedWord(s.text, s.partial)

(* There may be no memory for what has to be added.                        *)
EncodeReturns ==
  /\ enc.status = "running" /\ ~EncoderRuns
  /\ \/ enc' = [enc EXCEPT !.status = "OK", !.cover = Closed(enc.locals)]
     \/ /\ Closed(enc.locals) # enc.locals.text
        /\ enc' = [enc EXCEPT !.status = "failed"]
  /\ UNCHANGED <<session, asked, replayed, dec>>

(***************************************************************************)
(* meteor_decode_impl before and after the loop.                           *)
(***************************************************************************)
SkipSpaces(text) ==
  LET blank == CHOOSE n \in 0..Len(text) :
                 /\ \A i \in 1..n : text[i] = Space
                 /\ n < Len(text) => text[n + 1] # Space
  IN SubSeq(text, blank + 1, Len(text))

(* The words behind those of the context; its letters are all that counts. *)
ExtractWords(text) ==
  LET all == Runs(text, IsAlpha)
  IN SubSeq(all, Len(Runs(Context, IsAlpha)) + 1, Len(all))

DecoderRuns ==
  /\ dec.status = "running"
  /\ IF Styled THEN dec.remaining # <<>> /\ dec.locals.steps < MaxSteps
                ELSE dec.todo # <<>>

(* No memory for the words looks the same as no words.                     *)
WordsFound == IF Styled THEN {<<>>} ELSE {ExtractWords(enc.cover), <<>>}

(* Key setup and the buffers may fail, and are checked.                    *)
BeginDecode ==
  /\ dec.status = "idle" /\ enc.status = "OK"
  /\ \/ \E built \in Preambles, todo \in WordsFound :
          dec' = [dec EXCEPT
            !.status    = "running",
            !.preamble  = built,
            !.todo      = todo,
            !.wordless  = ~Styled /\ todo # ExtractWords(enc.cover),
            !.remaining = IF Styled THEN SkipSpaces(enc.cover)
                          ELSE IF todo = <<>> THEN <<>> ELSE Head(todo)]
     \/ dec' = [dec EXCEPT !.status = "failed"]
  /\ UNCHANGED <<session, asked, replayed, enc>>

DecodeFails ==
  /\ DecoderRuns
  /\ dec' = [dec EXCEPT !.status = "failed"]
  /\ UNCHANGED <<session, asked, replayed, enc>>

(* A stop at the terminator, the end of the covertext and the end of the   *)
(* step budget are all reported as success, and so is a message there is   *)
(* no memory for: the caller is given a null pointer.                      *)
DecodeReturns ==
  /\ \/ dec.status = "stopped"
     \/ dec.status = "running" /\ ~DecoderRuns
  /\ \/ dec' = [dec EXCEPT !.status = "OK", !.result = BitsToBytes(dec.bits)]
     \/ dec' = [dec EXCEPT !.status = "NULL"]
  /\ UNCHANGED <<session, asked, replayed, enc>>

(* The candidates the covertext goes on with; the longest one is taken.    *)
Matching(table, remaining) ==
  {i \in DOMAIN table : table[i].text # <<>> /\ IsPrefix(table[i].text, remaining)}

LongestMatch(table, remaining) ==
  LET hits == Matching(table, remaining)
  IN CHOOSE i \in hits : \A j \in hits : \/ Len(table[j].text) < Len(table[i].text)
                                         \/ Len(table[j].text) = Len(table[i].text) /\ i <= j

(* The recovered bits with those of a step, as far as the buffer goes.     *)
Recover(bits, more) ==
  LET all == bits \o more
  IN SubSeq(all, 1, IF Len(all) < MaxRecoveredBits THEN Len(all) ELSE MaxRecoveredBits)

-----------------------------------------------------------------------------
Init ==
  /\ style \in Styles /\ message \in Messages /\ key \in Keys
  /\ asked = <<>> /\ replayed = <<>>
  /\ enc = [status |-> "idle", preamble |-> FALSE, locals |-> FreshLocals(style), offset |-> 0,
            cut |-> FALSE, cover |-> <<>>]
  /\ dec = [status |-> "idle", preamble |-> FALSE, locals |-> FreshLocals(style), remaining |-> <<>>,
            todo |-> <<>>, bits |-> <<>>, unmatched |-> FALSE, skipped |-> FALSE, wordless |-> FALSE,
            result |-> <<>>]
=============================================================================
