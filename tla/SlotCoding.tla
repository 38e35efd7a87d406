----------------------------- MODULE SlotCoding -----------------------------
(***************************************************************************)
(* One step of the code, meteor_stego/src/meteor_core.c: a slot table maps *)
(* the words of Beta bits to candidates, the encoder turns message bits    *)
(* into a candidate and the decoder turns the candidate back into bits.    *)
(*                                                                         *)
(* A word of Beta bits is a number in 0..2^Beta-1, a string of bits a      *)
(* sequence over {0, 1}, most significant bit first.                       *)
(***************************************************************************)
EXTENDS Integers, Sequences, SequencesExt

CONSTANT Beta   \* bits of the keystream spent on one slot choice

ASSUME BetaAssumption == Beta \in 1..31

Bit == {0, 1}

(* v >> k, and 1 << k.                                                     *)
Shifted(v, k) ==
  LET h[j \in 0..k] == IF j = 0 THEN v ELSE h[j - 1] \div 2
  IN h[k]

PowerOfTwo(k) ==
  LET p[j \in 0..k] == IF j = 0 THEN 1 ELSE 2 * p[j - 1]
  IN p[k]

(* The bits of v, most significant first, in a field of n bits.            *)
BitsOf(v, n) == [i \in 1..n |-> Shifted(v, n - i) % 2]

ValueOf(bits) ==
  LET v[i \in 0..Len(bits)] == IF i = 0 THEN 0 ELSE 2 * v[i - 1] + bits[i]
  IN v[Len(bits)]

Xor(a, b) == [i \in DOMAIN a |-> (a[i] + b[i]) % 2]

(***************************************************************************)
(* A slot table is a sequence of [text, start, end]: the candidate's text  *)
(* and the range of words it stands for.  A candidate without slots has    *)
(* end = start - 1.                                                        *)
(***************************************************************************)

(* Number of leading bits all the words of start..end share.               *)
CommonPrefixLen(start, end) ==
  IF start = end
  THEN Beta
  ELSE CHOOSE k \in 0..Beta :
         /\ SubSeq(BitsOf(start, Beta), 1, k) = SubSeq(BitsOf(end, Beta), 1, k)
         /\ k < Beta => BitsOf(start, Beta)[k + 1] # BitsOf(end, Beta)[k + 1]

(* The range test is made on unsigned 32-bit numbers, so an end of -1 is   *)
(* above every word.                                                       *)
InSlot(r, slot) == r >= slot.start /\ (slot.end < 0 \/ r <= slot.end)

SlotOf(table, r) ==
  LET hits == {i \in DOMAIN table : InSlot(r, table[i])}
  IN IF hits = {} THEN Len(table) ELSE CHOOSE i \in hits : \A j \in hits : i <= j

(* What meteor_build_dist leaves behind: ranges one after the other, empty *)
(* ones among them, that cover all the words; every text once.             *)
LaidOut(table) ==
  /\ table # <<>>
  /\ table[1].start = 0 /\ Last(table).end = PowerOfTwo(Beta) - 1
  /\ \A i \in DOMAIN table : table[i].start <= table[i].end + 1
  /\ \A i \in 2..Len(table) : table[i].start = table[i - 1].end + 1
  /\ \A i, j \in DOMAIN table : table[i].text = table[j].text => i = j

(* The message bits at offset, padded with zeros past the end.             *)
WindowAt(bits, offset) ==
  [i \in 1..Beta |-> IF offset + i <= Len(bits) THEN bits[offset + i] ELSE 0]

EncodeStep(table, bits, offset, mask) ==
  LET slot == table[SlotOf(table, ValueOf(Xor(WindowAt(bits, offset), mask)))]
  IN [chosen |-> slot.text, consumed |-> CommonPrefixLen(slot.start, slot.end)]

DecodeStepUnmasked(table, text, mask) ==   \* mutant: the mask is not taken off
  LET slot == CHOOSE s \in ToSet(table) : s.text = text
  IN SubSeq(BitsOf(slot.start, Beta), 1, CommonPrefixLen(slot.start, slot.end))

(* The bits the choice of this text reveals.                               *)
DecodeStep(table, text, mask) ==
  LET hits == {i \in DOMAIN table : table[i].text = text}
      slot == table[IF hits = {} THEN Len(table) ELSE CHOOSE i \in hits : \A j \in hits : i <= j]
      n    == CommonPrefixLen(slot.start, slot.end)
  IN Xor(SubSeq(BitsOf(slot.start, Beta), 1, n), SubSeq(mask, 1, n))
=============================================================================
