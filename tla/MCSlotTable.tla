---------------------------- MODULE MCSlotTable ----------------------------
(***************************************************************************)
(* Tables of eight slots.  Replies of up to five candidates, with weights  *)
(* that divide evenly, that leave remainders, that vanish; and replies of  *)
(* nine, one more than there are slots.                                    *)
(***************************************************************************)
EXTENDS Capacity

MCWeights == UNION {[1..n -> {0, 1, 3, 4, 20}] : n \in 1..5} \cup [1..9 -> {0, 1}]
=============================================================================
