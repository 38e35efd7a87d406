---------------------------- MODULE CandidateSet ----------------------------
(***************************************************************************)
(* parse_llm_response (llm_client.c): the model's reply, a JSON object of  *)
(* candidate texts and probabilities, becomes the list of candidates both  *)
(* sides build their slot tables from.  The loop over the reply keeps a    *)
(* text only if the list stays prefix-free, because the receiver finds the *)
(* sender's choice again as the longest candidate the covertext goes on    *)
(* with.  The last two actions are that transmission: encode.c writes one  *)
(* of the candidates, decode.c looks for it.                               *)
(***************************************************************************)
EXTENDS Integers, Sequences

CONSTANTS
  Letter,         \* what texts are made of
  Replies,        \* replies of the model: sequences of [key, prob] in JSON order
  NotANumber,     \* the prob of a key whose value is no number
  MaxCandidates,  \* max_candidates, what the request asked for
  TextLimit,      \* letters a candidate's buffer holds (63)
  EowMark,        \* the key that means end of word, a middle dot
  EowText,        \* the text it is stored as, \x01
  Tails           \* what the covertext may go on with after a candidate

Text == Seq(Letter)

KeyValue == [key : Text, prob : Int \cup {NotANumber}]

ASSUME CandidateAssumption ==
  /\ \A r \in Replies : r \in Seq(KeyValue)
  /\ MaxCandidates \in Nat
  /\ TextLimit \in Nat \ {0}
  /\ EowText \in Text
  /\ \A t \in Tails : t \in Text

VARIABLES
  reply,      \* the object in "content"
  pos,        \* keys the loop has looked at
  kept,       \* resp->candidates: sequence of [text, weight]
  status,     \* "reading", then "null" or "returned"
  said,       \* the candidate the encoder wrote, 0 before it has
  covertext,  \* what the decoder has from there on
  heard       \* the candidate the decoder recognised, 0 before it has

vars == <<reply, pos, kept, status, said, covertext, heard>>

(* strncpy into the buffer, then map_eow.                                  *)
StoredText(key) ==
  LET cut == SubSeq(key, 1, IF Len(key) < TextLimit THEN Len(key) ELSE TextLimit)
  IN IF cut = EowMark THEN EowText ELSE cut

SameAsFarAs(a, b, n) == \A k \in 1..n : a[k] = b[k]

(* strncmp over the text's length.                                         *)
GoesOnWith(remaining, text) == Len(text) <= Len(remaining) /\ SameAsFarAs(remaining, text, Len(text))

(* memcmp over the shorter length: one text is a prefix of the other.      *)
ConflictDuplicatesOnly(a, b) == a = b   \* mutant: what was handled before the fix

Conflict(a, b) == SameAsFarAs(a, b, IF Len(a) < Len(b) THEN Len(a) ELSE Len(b))

LimitOfReply == Len(reply)   \* mutant: max_candidates is not applied

Limit == IF Len(reply) > MaxCandidates THEN MaxCandidates ELSE Len(reply)

Reading == status = "reading" /\ pos < Len(reply) /\ Len(kept) < Limit

Item == reply[pos + 1]

(* The reply is no JSON, has no "content", or its object is empty.         *)
Reject ==
  /\ status = "reading" /\ pos = 0
  /\ status' = "null"
  /\ UNCHANGED <<reply, pos, kept, said, covertext, heard>>

SkipNotPositive ==   \* mutant: a negative number is skipped, not clamped
  /\ Reading /\ (IF Item.prob = NotANumber THEN TRUE ELSE Item.prob < 0)
  /\ pos' = pos + 1
  /\ UNCHANGED <<reply, kept, status, said, covertext, heard>>

SkipNotANumber ==
  /\ Reading /\ Item.prob = NotANumber
  /\ pos' = pos + 1
  /\ UNCHANGED <<reply, kept, status, said, covertext, heard>>

DropConflict ==
  /\ Reading /\ Item.prob # NotANumber
  /\ \E j \in 1..Len(kept) : Conflict(kept[j].text, StoredText(Item.key))
  /\ pos' = pos + 1
  /\ UNCHANGED <<reply, kept, status, said, covertext, heard>>

Keep ==
  /\ Reading /\ Item.prob # NotANumber
  /\ \A j \in 1..Len(kept) : ~Conflict(kept[j].text, StoredText(Item.key))
  /\ kept' = Append(kept, [text   |-> StoredText(Item.key),
                           weight |-> IF Item.prob < 0 THEN 0 ELSE Item.prob])
  /\ pos' = pos + 1
  /\ UNCHANGED <<reply, status, said, covertext, heard>>

(* The division of the weights by their sum is left out: only their ratio  *)
(* is used from here on.                                                   *)
Return ==
  /\ status = "reading" /\ ~Reading /\ Len(reply) > 0
  /\ status' = "returned"
  /\ UNCHANGED <<reply, pos, kept, said, covertext, heard>>

(* encode.c: the candidate the message bits select goes into the covertext. *)
Say ==
  /\ status = "returned" /\ said = 0
  /\ \E i \in 1..Len(kept), tail \in Tails :
       said' = i /\ covertext' = kept[i].text \o tail
  /\ UNCHANGED <<reply, pos, kept, status, heard>>

(* decode.c: the longest candidate that prefixes the covertext, the first  *)
(* one if there are several of that length.                                *)
Longest(i) ==
  /\ Len(kept[i].text) > 0 /\ GoesOnWith(covertext, kept[i].text)
  /\ \A j \in 1..Len(kept) : GoesOnWith(covertext, kept[j].text) =>
       \/ Len(kept[j].text) < Len(kept[i].text)
       \/ Len(kept[j].text) = Len(kept[i].text) /\ i <= j

Hear ==
  /\ said # 0 /\ heard = 0
  /\ \/ \E i \in 1..Len(kept) : Longest(i) /\ heard' = i
     \/ (\A i \in 1..Len(kept) : ~Longest(i)) /\ heard' = 1
  /\ UNCHANGED <<reply, pos, kept, status, said, covertext>>

Init ==
  /\ reply \in Replies
  /\ pos = 0 /\ kept = <<>> /\ status = "reading"
  /\ said = 0 /\ covertext = <<>> /\ heard = 0

Next == Reject \/ SkipNotANumber \/ DropConflict \/ Keep \/ Return \/ Say \/ Hear

Spec == Init /\ [][Next]_vars
-----------------------------------------------------------------------------
Candidate == [text : Text, weight : Nat]

(* The loop's locals have their types; no more candidates are kept than    *)
(* were asked for or looked at.                                            *)
TypeOK ==
  /\ reply \in Replies
  /\ pos \in 0..Len(reply)
  /\ kept \in Seq(Candidate)
  /\ Len(kept) <= pos /\ Len(kept) <= MaxCandidates
  /\ status \in {"reading", "null", "returned"}
  /\ said \in 0..Len(kept) /\ heard \in 0..Len(kept)
  /\ covertext \in Text

(* llm_client.h: no candidate is a prefix of any other, equality included. *)
PrefixFree ==
  \A i, j \in 1..Len(kept) : i # j => ~GoesOnWith(kept[j].text, kept[i].text)

(* llm_client.h: keys that would violate this are dropped, keeping the     *)
(* earliest.  So a key with a number that the loop has passed is among the *)
(* candidates, or in conflict with one that came before it.                *)
EarliestKept ==
  \A p \in 1..pos : reply[p].prob # NotANumber =>
    \E j \in 1..Len(kept) : /\ Conflict(kept[j].text, StoredText(reply[p].key))
                            /\ \E q \in 1..p : kept[j].text = StoredText(reply[q].key)

(* The decoder recognises the candidate the encoder wrote, whatever the    *)
(* covertext goes on with.                                                 *)
HeardIsSaid == heard # 0 => heard = said
=============================================================================
