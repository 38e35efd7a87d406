------------------------------- MODULE MCCodec -------------------------------
(***************************************************************************)
(* Instances of Codec for TLC: bytes and words of two bits, phrases and    *)
(* syllables over a three-letter alphabet.                                 *)
(***************************************************************************)
EXTENDS Codec

MCIsContentWord(w) == Len(w) >= 2 /\ w # <<"c", "c">>

Slot(text, start, end) == [text |-> text, start |-> start, end |-> end]

(* Each has candidates of two bits a step; a phrase of two words in the    *)
(* one gives no bit, and the likely candidate of the other gives one bit.  *)
Broken == << Slot(<<"a", "b">>, 0, 0), Slot(<<"a", "a", " ", "b">>, 1, 2), Slot(<<"a", "c">>, 3, 3) >>
Mixed  == << Slot(<<"c", "c">>, 0, 1), Slot(<<"b", "a">>, 2, 2), Slot(<<"b", "c">>, 3, 3) >>

MCTables == {Broken, Mixed}

(* Openings and continuations of a word, each of one or two bits and of    *)
(* none or two.  The context is two words to the decoder, one to a reader. *)
MCChar == {"a", "b", "c", "-", ".", " ", "eow"}
MCBeyond == {<<>>, <<"a", "b">>}
MCEowText == <<"eow">>
MCContext == <<"c", "-", "b">>

MCOpenings == { << Slot(<<"a">>, 0, 1), Slot(<<"b">>, 2, 3) >>,
                << Slot(<<"b", "a">>, 0, 0), Slot(<<"c">>, 1, 3) >> }

MCContinuations == { << Slot(<<"b">>, 0, 0), Slot(<<"c">>, 1, 1), Slot(MCEowText, 2, 3) >>,
                     << Slot(<<"a", "b">>, 0, 2), Slot(MCEowText, 3, 3) >> }

(* Pseudo-random bits, and the streams of equal bits.                      *)
Generated(k, length) == [i \in 1..length |-> (((k * i * i * i + 17 * i + k) % 251) \div 16) % 2]

Constant(b, length) == [i \in 1..length |-> b]

MCKeys == {0, 3, 8, 9}
MCKeystream == [k \in MCKeys |-> IF k = 0 THEN Constant(0, 240) ELSE Generated(k, 240)]

MCMessages == {<<>>, <<2, 1>>, <<3, 2, 1>>, <<3, 1, 3, 1>>}
==============================================================================
