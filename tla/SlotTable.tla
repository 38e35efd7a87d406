------------------------------ MODULE SlotTable ------------------------------
(***************************************************************************)
(* meteor_build_dist (meteor_core.c): the candidates' probabilities become *)
(* a slot table of 2^Beta slots, by the largest-remainder method and a     *)
(* second pass that takes slots from the rich to give every candidate one. *)
(* One iteration of a loop is one action.                                  *)
(*                                                                         *)
(* A probability is its integer weight over the sum of the weights; a      *)
(* fraction is in units of one over that sum.  Candidates are named by     *)
(* their index, and a table entry's text is that name.                     *)
(***************************************************************************)
EXTENDS SlotCoding

CONSTANT Weights   \* the sequences of weights a reply may carry

ASSUME WeightsAssumption == \A w \in Weights : w \in Seq(Nat) /\ w # <<>>

VARIABLES
  weights,   \* the input
  pc,        \* the loop: "floor", "topup", "steal", "layout", "done"
  i,         \* its index
  counts,    \* slots per candidate
  fracs,     \* what flooring took from each
  cursor,    \* the first slot not yet laid out
  table      \* dist->slots

vars == <<weights, pc, i, counts, fracs, cursor, table>>

Slots == PowerOfTwo(Beta)

SumTo(s, k) ==
  LET sum[j \in 0..k] == IF j = 0 THEN 0 ELSE sum[j - 1] + s[j]
  IN sum[k]

Sum(s) == SumTo(s, Len(s))

total == Sum(counts)

(* Without any weight the code divides by one.                             *)
Divisor == IF Sum(weights) = 0 THEN 1 ELSE Sum(weights)

Candidates == DOMAIN weights

FirstSmallest(s) == CHOOSE c \in Candidates : \A d \in Candidates :   \* mutant
                      s[d] > s[c] \/ (s[d] = s[c] /\ c <= d)

(* The first of the largest, as the scans with > find it.                  *)
FirstLargest(s) == CHOOSE c \in Candidates : \A d \in Candidates :
                     s[d] < s[c] \/ (s[d] = s[c] /\ c <= d)

FloorAtLeastOne ==   \* mutant: the minimum is forced before the remainders are dealt out
  /\ pc = "floor"
  /\ IF i > Len(weights)
     THEN pc' = "topup" /\ UNCHANGED <<i, counts, fracs>>
     ELSE LET ideal == (weights[i] * Slots) \div Divisor
          IN /\ counts' = [counts EXCEPT ![i] = IF ideal = 0 THEN 1 ELSE ideal]
             /\ fracs'  = [fracs EXCEPT ![i] = (weights[i] * Slots) % Divisor]
             /\ i' = i + 1
             /\ UNCHANGED pc
  /\ UNCHANGED <<weights, cursor, table>>

Floor ==
  /\ pc = "floor"
  /\ IF i > Len(weights)
     THEN pc' = "topup" /\ UNCHANGED <<i, counts, fracs>>
     ELSE /\ counts' = [counts EXCEPT ![i] = (weights[i] * Slots) \div Divisor]
          /\ fracs'  = [fracs EXCEPT ![i] = (weights[i] * Slots) % Divisor]
          /\ i' = i + 1
          /\ UNCHANGED pc
  /\ UNCHANGED <<weights, cursor, table>>

TopUpSame ==   \* mutant: the fraction is not lowered
  /\ pc = "topup"
  /\ IF total < Slots
     THEN counts' = [counts EXCEPT ![FirstLargest(fracs)] = @ + 1] /\ UNCHANGED <<pc, i, fracs>>
     ELSE pc' = "steal" /\ i' = 1 /\ UNCHANGED <<counts, fracs>>
  /\ UNCHANGED <<weights, cursor, table>>

TopUp ==
  /\ pc = "topup"
  /\ IF total < Slots
     THEN LET best == FirstLargest(fracs)
          IN /\ counts' = [counts EXCEPT ![best] = @ + 1]
             /\ fracs'  = [fracs EXCEPT ![best] = @ - Divisor]
             /\ UNCHANGED <<pc, i>>
     ELSE pc' = "steal" /\ i' = 1 /\ UNCHANGED <<counts, fracs>>
  /\ UNCHANGED <<weights, cursor, table>>

StealExceptLast ==   \* mutant: the pass misses the last candidate
  /\ pc = "steal"
  /\ IF i >= Len(weights)
     THEN pc' = "layout" /\ i' = 1 /\ UNCHANGED counts
     ELSE LET donor == FirstLargest(counts)
          IN /\ i' = i + 1
             /\ counts' = IF counts[i] < 1 /\ counts[donor] > 1
                          THEN [counts EXCEPT ![donor] = @ - 1, ![i] = @ + 1] ELSE counts
             /\ UNCHANGED pc
  /\ UNCHANGED <<weights, fracs, cursor, table>>

(* One slot is all a candidate without any needs; it goes without when     *)
(* nobody has two.                                                         *)
Steal ==
  /\ pc = "steal"
  /\ IF i > Len(weights)
     THEN pc' = "layout" /\ i' = 1 /\ UNCHANGED counts
     ELSE LET donor == FirstLargest(counts)
          IN /\ i' = i + 1
             /\ counts' = IF counts[i] < 1 /\ counts[donor] > 1
                          THEN [counts EXCEPT ![donor] = @ - 1, ![i] = @ + 1] ELSE counts
             /\ UNCHANGED pc
  /\ UNCHANGED <<weights, fracs, cursor, table>>

LayoutOverlapping ==   \* mutant: a slot range ends where the next one starts
  /\ pc = "layout"
  /\ IF i > Len(weights)
     THEN pc' = "done" /\ UNCHANGED <<i, cursor, table>>
     ELSE /\ table' = Append(table, [text |-> i, start |-> cursor, end |-> cursor + counts[i]])
          /\ cursor' = cursor + counts[i]
          /\ i' = i + 1
          /\ UNCHANGED pc
  /\ UNCHANGED <<weights, counts, fracs>>

Layout ==
  /\ pc = "layout"
  /\ IF i > Len(weights)
     THEN pc' = "done" /\ UNCHANGED <<i, cursor, table>>
     ELSE /\ table' = Append(table, [text |-> i, start |-> cursor, end |-> cursor + counts[i] - 1])
          /\ cursor' = cursor + counts[i]
          /\ i' = i + 1
          /\ UNCHANGED pc
  /\ UNCHANGED <<weights, counts, fracs>>

Init ==
  /\ weights \in Weights
  /\ pc = "floor" /\ i = 1
  /\ counts = [c \in Candidates |-> 0]
  /\ fracs = [c \in Candidates |-> 0]
  /\ cursor = 0 /\ table = <<>>

Next == Floor \/ TopUp \/ Steal \/ Layout

Spec == Init /\ [][Next]_vars
-----------------------------------------------------------------------------
Done == pc = "done"

(* The table is big enough for every candidate to have a slot.             *)
Fits == Len(weights) <= Slots

(* The locals have their types; the passes never hand out more slots than  *)
(* there are, and have handed out all of them when the stealing starts.    *)
TypeOK ==
  /\ weights \in Weights
  /\ i \in 1..(Len(weights) + 1) /\ cursor \in 0..Slots
  /\ counts \in [Candidates -> 0..Slots] /\ fracs \in [Candidates -> Int]
  /\ total <= Slots
  /\ pc \in {"steal", "layout", "done"} => total = Slots
  /\ Len(table) <= Len(weights)

(* The topping up gives no candidate two of the slots flooring left over.  *)
(* (Every weight zero is the exception: then the slots go round.)          *)
LargestRemainder ==
  pc = "steal" /\ i = 1 /\ Sum(weights) > 0 =>
    \A c \in Candidates : counts[c] - (weights[c] * Slots) \div Divisor \in {0, 1}

(* meteor_core.c, the comment on the second pass: every candidate keeps at *)
(* least one slot.  The pass must not empty a donor again either.          *)
EveryCandidateReachable == Done /\ Fits => \A c \in Candidates : table[c].start <= table[c].end

(* Rank survives both passes but for one slot: the stealing may take one   *)
(* from the first of several equal donors, never two below a less probable *)
(* candidate.                                                              *)
RankKept ==
  Done => \A c, d \in Candidates : weights[c] > weights[d] => counts[c] >= counts[d] - 1

(* Whatever the message bits and the mask: the decoder, given the text the *)
(* encoder chose, gets the bits the encoder counts as sent.  More          *)
(* candidates than slots leave some without any; if the first is one of    *)
(* them, the lookup takes its end of -1 for every word, and no bit is sent.*)
StepsInvert ==
  Done => \A bits, mask \in [1..Beta -> Bit] :
    LET sent == EncodeStep(table, bits, 0, mask)
    IN DecodeStep(table, sent.chosen, mask) = SubSeq(bits, 1, sent.consumed)
=============================================================================
