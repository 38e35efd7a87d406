---------------------------- MODULE MCLLMClient ----------------------------
(***************************************************************************)
(* Replies of up to three keys over two letters and the end-of-word mark,  *)
(* in a body of three pieces.                                              *)
(***************************************************************************)
EXTENDS LLMClient

MCLetter == {"a", "b", "dot", "eow"}
MCEowMark == <<"dot">>
MCEowText == <<"eow">>

MCKeysOfReplies ==
  {<<>>, <<"a">>, <<"a", "b">>, <<"a", "b", "a">>, <<"b">>, <<"b", "a">>, <<"dot">>}

MCRepliesOf(n, probs) == [1..n -> [key : MCKeysOfReplies, prob : probs]]

MCReplies ==
  UNION {MCRepliesOf(n, {-1, 2, NotANumber}) : n \in 0..2} \cup MCRepliesOf(3, {2, NotANumber})

MCGarbled == MCRepliesOf(1, {2})

MCTails == {<<>>, <<"b">>, <<"b", "a">>, <<"a", "b", "a">>}
=============================================================================
