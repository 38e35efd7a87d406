--------------------------- MODULE MCSyllabifier ---------------------------
(***************************************************************************)
(* Texts of up to five characters, words of up to six: one vowel, the      *)
(* cluster of three consonants with two digraphs in it, a capital and a    *)
(* blank.                                                                  *)
(***************************************************************************)
EXTENDS Syllabifier

MCLetter == {"a", "s", "t", "r", "A"}
MCLower == [c \in MCLetter |-> IF c = "A" THEN "a" ELSE c]
MCDigraphs == {<<"s", "t">>, <<"t", "r">>}

MCCalls ==
  {[of |-> "text", text |-> t] : t \in BoundedSeq({"a", "s", "t", "A", " "}, 5)}
    \cup {[of |-> "word", text |-> t] : t \in BoundedSeq({"a", "s", "t", "r"}, 6)
                                              \cup {<<" ", "a", " ", "A">>, <<" ">>}}
=============================================================================
