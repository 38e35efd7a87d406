-------------------------------- MODULE Codec --------------------------------
(***************************************************************************)
(* The codec, meteor_encode_impl and meteor_decode_impl as a whole: what   *)
(* both modes share and the loops of either, and what the codec promises.  *)
(***************************************************************************)
EXTENDS StyleCodec, SyllableCodec

Next ==
  \/ BeginEncode \/ EncodePhrase \/ EncodeSyllable \/ EncodeFails \/ EncodeReturns
  \/ BeginDecode \/ DecodePhrase \/ DecodeSyllable \/ DecodeEndOfWord \/ SkipEndOfWord
  \/ DecodeFails \/ DecodeReturns

Spec == Init /\ [][Next]_vars
-----------------------------------------------------------------------------
Errors == {"ERR_CAPACITY", "failed"}

(* The variables hold what encode.c and decode.c declare: bits in their    *)
(* buffers, steps within the budget, a history no longer than its bound.   *)
(* Only a decoder that spells a word the encoder cut off may draw more of  *)
(* the keystream than the budget foresees.                                 *)
TypeOK ==
  /\ style \in Styles /\ message \in Messages /\ key \in Keys
  /\ enc.status \in {"idle", "running", "OK"} \cup Errors
  /\ dec.status \in {"idle", "running", "stopped", "OK", "NULL", "failed"}
  /\ enc.offset \in 0..(IF Styled THEN Len(Bits) + Beta ELSE MaxSteps * Beta)
  /\ Len(dec.bits) <= MaxRecoveredBits
  /\ enc.locals.pos \in 0..Len(stream)
  /\ ~enc.cut => dec.locals.pos \in 0..Len(stream) /\ dec.bits \in Seq(Bit)
  /\ \A s \in {enc.locals, dec.locals} :
       /\ s.steps \in 0..MaxSteps
       /\ Len(s.hist) <= PhraseHistory /\ Len(s.words) <= WordHistory
       /\ s.phrases \in 0..(MaxPhrases - 1) /\ s.topics \in Nat

(***************************************************************************)
(* In the syllable mode the decoder may part from the encoder in two ways, *)
(* which the properties name where they matter.  An encoder that runs out  *)
(* of steps inside a word closes it without an end-of-word step, and the   *)
(* decoder makes one up all the same.  And a decoder that cannot build     *)
(* that step's table goes on without it (dec.skipped): it has sent the     *)
(* same prompts, but is one draw behind, and reports no error.             *)
(***************************************************************************)
Dangling == enc.status = "OK" /\ enc.locals.partial # <<>>

(***************************************************************************)
(* With a style it parts from the encoder in one.  When the message is     *)
(* longer than its buffer, its zero byte is never recovered, and the       *)
(* decoder goes on to the period that closes a sentence the encoder left   *)
(* open, which is no candidate's text.                                     *)
(***************************************************************************)
PastTheEnd == Styled /\ Len(Bits) > MaxRecoveredBits /\ Len(replayed) > Len(asked)

(***************************************************************************)
(* And either may be led astray by what nobody notices: one side had no    *)
(* memory for the preamble, so the model is told to paraphrase on the      *)
(* other side only, or a word was longer than the encoder's buffer.        *)
(***************************************************************************)
Parted == dec.status # "idle" /\ dec.preamble # enc.preamble

Misled == Parted \/ enc.cut

(* The decoder sends the model, step for step, the prompts the encoder     *)
(* sent.  Text, histories, anchor, digression, question and partial word   *)
(* all go into the prompt and each is rebuilt by code of decode.c's own.   *)
PromptLockstep ==
  \A i \in DOMAIN replayed :
    \/ i \in DOMAIN asked /\ replayed[i].prompt = asked[i].prompt
    \/ Dangling /\ i = Len(asked) + 1
    \/ PastTheEnd /\ i > Len(asked)
    \/ Misled

(* Both sides draw each step's mask at the same place of the keystream,    *)
(* though the number of bits drawn before it depends on earlier draws, and *)
(* whatever the model is asked and answers.                                *)
KeystreamLockstep ==
  ~dec.skipped =>
    \A i \in DOMAIN replayed : i \in DOMAIN asked => replayed[i].maskAt = asked[i].maskAt

(* The decoder always recognises a candidate in the covertext, and never   *)
(* falls through to the first one, whose length it would skip whatever the *)
(* covertext holds there.                                                  *)
AlwaysRecognised == dec.unmatched => PastTheEnd \/ Misled

(* What the decoder has recovered is at any time a prefix of the message's *)
(* bits and of the zeros the encoder pads them with.  What the end of a    *)
(* word that was cut off yields comes behind all that was sent.            *)
RecoveredIsPrefix ==
  ~dec.skipped /\ ~Misled =>
    \A i \in DOMAIN dec.bits :
      \/ dec.bits[i] = IF i <= Len(Bits) THEN Bits[i] ELSE 0
      \/ Dangling /\ i > enc.offset

(* Some step ended inside the message just behind a byte's worth of zeros. *)
StopsInsideMessage ==
  \E i \in DOMAIN asked : /\ asked[i].offset < ByteBits * Len(message)
                          /\ NullTerminatorFound(SubSeq(Bits, 1, asked[i].offset))

(* A message the encoder embedded to its last bit comes back unchanged,    *)
(* unless a step ended behind a run of zeros inside the message, the       *)
(* message does not fit into the decoder's buffer, or something failed     *)
(* that nobody noticed: a step was skipped, the words were lost, or one    *)
(* side was led astray.                                                    *)
RoundTrip ==
  /\ dec.status = "OK" /\ enc.offset >= Len(Bits)
  /\ ~dec.skipped /\ ~dec.wordless /\ ~Misled
  /\ ~StopsInsideMessage /\ Len(Bits) <= MaxRecoveredBits
  => dec.result = message

(* The model is asked to digress only after a sentence on the topic: never *)
(* in the first sentence and never in two sentences in a row.              *)
DigressionsAreIsolated ==
  \A i \in DOMAIN asked : asked[i].opening /\ asked[i].digression =>
    \E j \in 1..(i - 1) :
      /\ asked[j].opening /\ ~asked[j].digression
      /\ \A k \in (j + 1)..(i - 1) : ~asked[k].opening

(* ARCHITECTURE.md 4.7: the decoder stops at the message's terminator, a   *)
(* zero byte, so what it has read before it is the message.                *)
StopMeansWhole == dec.status = "OK" /\ enc.offset >= Len(Bits) => dec.result = message
=============================================================================
