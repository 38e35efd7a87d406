------------------------------ MODULE Capacity ------------------------------
(***************************************************************************)
(* What meteor_estimate_capacity (capacity.c) makes of one sampled reply:  *)
(* the bits a step is expected to carry, by a second copy of the length of *)
(* a common prefix and by the slot counts.  A sampled table is one that    *)
(* meteor_build_dist has built.                                            *)
(***************************************************************************)
EXTENDS SlotTable

BitAt(v, place) == Shifted(v, place) % 2

slot_cp_len_everywhere(a, b) ==   \* mutant: counting goes on past the first difference
  IF a = b THEN Beta
  ELSE FoldLeft(LAMBDA cp, place : IF BitAt(a, place) = BitAt(b, place) THEN cp + 1 ELSE cp,
                0, [k \in 1..Beta |-> Beta - k])

(* Down from the highest bit, up to the first that differs.                *)
slot_cp_len(a, b) ==
  IF a = b THEN Beta
  ELSE CHOOSE cp \in 0..(Beta - 1) :
         /\ BitAt(a, Beta - 1 - cp) # BitAt(b, Beta - 1 - cp)
         /\ \A place \in (Beta - cp)..(Beta - 1) : BitAt(a, place) = BitAt(b, place)

(* The expectation, in units of one over the number of slots.              *)
expected_cp_len(slots, slot_counts) ==
  Sum([c \in 1..Len(slots) |->
         IF slot_counts[c] = 0 THEN 0
         ELSE slot_counts[c] * slot_cp_len(slots[c].start, slots[c].end)])
-----------------------------------------------------------------------------
(* The estimate of a step is the mean of what the encoder counts as sent,  *)
(* over all values of the keystream: the two copies of the prefix length   *)
(* agree, and counts and ranges say the same.                              *)
EstimateIsMean ==
  Done /\ counts[1] > 0 =>
    \A bits \in {[k \in 1..Beta |-> 0], [k \in 1..Beta |-> k % 2]} :
      expected_cp_len(table, counts)
        = Sum([r \in 1..Slots |-> EncodeStep(table, bits, 0, BitsOf(r - 1, Beta)).consumed])
=============================================================================
