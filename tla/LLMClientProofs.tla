--------------------------- MODULE LLMClientProofs ---------------------------
(***************************************************************************)
(* First the loop over a reply, for every reply, every limit and every     *)
(* alphabet: the candidates are prefix-free, and the decoder recognises    *)
(* what the encoder wrote.  Then the request around it, for a body in any  *)
(* number of pieces and any number of failures of the network and of       *)
(* allocations: what it gives its caller, in either build, and that the    *)
(* loop inside it keeps what it has alone.                                 *)
(***************************************************************************)
EXTENDS LLMClient, TLAPS, FiniteSetTheorems

(* What is kept once the encoder has spoken: the list no longer changes,   *)
(* and the covertext goes on with the candidate it wrote.                  *)
Transmission ==
  /\ said # 0 => status = "returned" /\ GoesOnWith(covertext, kept[said].text)
  /\ heard # 0 => said # 0

IInv == TypeOK /\ PrefixFree /\ Transmission

-----------------------------------------------------------------------------
(* What strncpy and map_eow store is a text.                               *)
LEMMA StoredTextType ==
  ASSUME NEW key \in Text
  PROVE  StoredText(key) \in Text
<1>1. CASE Len(key) < TextLimit
  <2>1. SubSeq(key, 1, Len(key)) \in Text
    BY DEF Text
  <2> QED BY <1>1, <2>1, CandidateAssumption DEF StoredText
<1>2. CASE ~(Len(key) < TextLimit)
  <2>1. Len(key) \in Nat /\ TextLimit \in Nat /\ TextLimit >= 1 /\ TextLimit <= Len(key)
    BY <1>2, CandidateAssumption DEF Text
  <2>2. SubSeq(key, 1, TextLimit) \in Text
    BY <2>1 DEF Text
  <2> QED BY <1>2, <2>2, CandidateAssumption DEF StoredText
<1> QED BY <1>1, <1>2

(* The test the loop makes with memcmp is the prefix test, either way.     *)
LEMMA ConflictIsPrefix ==
  ASSUME NEW a \in Text, NEW b \in Text
  PROVE  Conflict(a, b) <=> GoesOnWith(b, a) \/ GoesOnWith(a, b)
<1>1. Len(a) \in Nat /\ Len(b) \in Nat
  BY DEF Text
<1>2. CASE Len(a) < Len(b)
  BY <1>1, <1>2 DEF Conflict, GoesOnWith, SameAsFarAs
<1>3. CASE ~(Len(a) < Len(b))
  BY <1>1, <1>3 DEF Conflict, GoesOnWith, SameAsFarAs
<1> QED BY <1>2, <1>3

(* Two texts a covertext goes on with: one is a prefix of the other.       *)
LEMMA PrefixesAreComparable ==
  ASSUME NEW a \in Text, NEW b \in Text, NEW rest \in Text,
         GoesOnWith(rest, a), GoesOnWith(rest, b)
  PROVE  GoesOnWith(b, a) \/ GoesOnWith(a, b)
<1>1. Len(a) \in Nat /\ Len(b) \in Nat
  BY DEF Text
<1>2. CASE Len(a) <= Len(b)
  BY <1>1, <1>2 DEF GoesOnWith, SameAsFarAs
<1>3. CASE Len(b) <= Len(a)
  BY <1>1, <1>3 DEF GoesOnWith, SameAsFarAs
<1> QED BY <1>1, <1>2, <1>3

(* What is written before a tail is what the covertext goes on with.       *)
LEMMA WrittenIsPrefix ==
  ASSUME NEW t \in Text, NEW tail \in Text
  PROVE  t \o tail \in Text /\ GoesOnWith(t \o tail, t)
BY DEF Text, GoesOnWith, SameAsFarAs

LEMMA InitIInv == Init => IInv
<1> SUFFICES ASSUME Init PROVE IInv
  OBVIOUS
<1>1. reply \in Seq(KeyValue) /\ Len(reply) \in Nat
  BY CandidateAssumption DEF Init
<1>2. <<>> \in Seq(Candidate) /\ <<>> \in Text /\ Len(<<>>) = 0
  BY DEF Text
<1>3. TypeOK
  BY <1>1, <1>2, CandidateAssumption DEF Init, TypeOK
<1>4. PrefixFree
  BY <1>2 DEF Init, PrefixFree
<1> QED BY <1>3, <1>4 DEF Init, IInv, Transmission

-----------------------------------------------------------------------------
(* Keeping a candidate is the one step that changes the list.              *)
LEMMA KeepIInv == IInv /\ Keep => IInv'
<1> SUFFICES ASSUME IInv, Keep PROVE IInv'
  OBVIOUS
<1> DEFINE text == StoredText(Item.key)
           entry == [text |-> text, weight |-> IF Item.prob < 0 THEN 0 ELSE Item.prob]
           n == Len(kept)
<1>1. /\ reply \in Seq(KeyValue) /\ Len(reply) \in Nat /\ pos \in Nat /\ pos + 1 \in 1..Len(reply)
      /\ kept \in Seq(Candidate) /\ n \in Nat
  BY CandidateAssumption DEF IInv, TypeOK, Keep, Reading
<1>2. Item \in KeyValue
  BY <1>1 DEF Item
<1>3. Item.key \in Text /\ Item.prob \in Int
  BY <1>2 DEF Keep, KeyValue
<1>4. text \in Text
  BY <1>3, StoredTextType
<1>5. entry \in Candidate
  BY <1>3, <1>4 DEF Candidate
<1> HIDE DEF entry
<1>6. kept' = Append(kept, entry)
  BY DEF Keep, entry
<1>7. /\ kept' \in Seq(Candidate) /\ Len(kept') = n + 1
      /\ \A i \in 1..n : kept'[i] = kept[i]
      /\ kept'[n + 1] = entry
  BY <1>1, <1>5, <1>6
<1>8. entry.text = text
  BY DEF entry
<1> HIDE DEF text
<1>9. said = 0 /\ heard = 0
  BY DEF IInv, Transmission, Keep, Reading
<1>10. TypeOK'
  <2>1. n < MaxCandidates
    BY <1>1, CandidateAssumption DEF Keep, Reading, Limit
  <2> QED
    BY <1>1, <1>7, <1>9, <2>1, CandidateAssumption DEF IInv, TypeOK, Keep
<1>11. ASSUME NEW i \in 1..n
       PROVE  ~GoesOnWith(text, kept[i].text) /\ ~GoesOnWith(kept[i].text, text)
  <2>1. kept[i] \in Candidate
    BY <1>1
  <2>2. kept[i].text \in Text
    BY <2>1 DEF Candidate
  <2>3. ~Conflict(kept[i].text, text)
    BY DEF Keep, text
  <2> QED BY <1>4, <2>2, <2>3, ConflictIsPrefix
<1>12. PrefixFree'
  <2> SUFFICES ASSUME NEW i \in 1..(n + 1), NEW j \in 1..(n + 1), i # j
               PROVE  ~GoesOnWith(kept'[j].text, kept'[i].text)
    BY <1>7 DEF PrefixFree
  <2>1. CASE i \in 1..n /\ j \in 1..n
    BY <1>7, <2>1 DEF IInv, PrefixFree
  <2>2. CASE i = n + 1 /\ j \in 1..n
    BY <1>7, <1>8, <1>11, <2>2
  <2>3. CASE j = n + 1 /\ i \in 1..n
    BY <1>7, <1>8, <1>11, <2>3
  <2> QED BY <1>1, <2>1, <2>2, <2>3
<1>13. Transmission'
  BY <1>9 DEF Keep, Transmission
<1> QED BY <1>10, <1>12, <1>13 DEF IInv

(* Writing a candidate: the covertext goes on with it.                     *)
LEMMA SayIInv == IInv /\ Say => IInv'
<1> SUFFICES ASSUME IInv, Say PROVE IInv'
  OBVIOUS
<1>1. PICK i \in 1..Len(kept), tail \in Tails : said' = i /\ covertext' = kept[i].text \o tail
  BY DEF Say
<1>2. kept \in Seq(Candidate) /\ Len(kept) \in Nat
  BY DEF IInv, TypeOK
<1>3. kept[i] \in Candidate
  BY <1>2
<1>4. kept[i].text \in Text /\ tail \in Text
  BY <1>3, CandidateAssumption DEF Candidate
<1>5. covertext' \in Text /\ GoesOnWith(covertext', kept[i].text)
  BY <1>1, <1>4, WrittenIsPrefix
<1>6. TypeOK'
  BY <1>1, <1>2, <1>5 DEF IInv, TypeOK, Say
<1>7. PrefixFree'
  BY DEF IInv, PrefixFree, Say
<1>8. Transmission'
  BY <1>1, <1>2, <1>5 DEF IInv, Transmission, Say
<1> QED BY <1>6, <1>7, <1>8 DEF IInv

(* The other steps leave the list and the covertext alone.                 *)
LEMMA OtherIInv ==
  IInv /\ (Reject \/ SkipNotANumber \/ DropConflict \/ Return \/ Hear \/ UNCHANGED vars) => IInv'
<1> SUFFICES ASSUME IInv,
                    Reject \/ SkipNotANumber \/ DropConflict \/ Return \/ Hear \/ UNCHANGED vars
             PROVE  IInv'
  OBVIOUS
<1>1. /\ reply \in Seq(KeyValue) /\ Len(reply) \in Nat /\ pos \in Nat /\ pos <= Len(reply)
      /\ kept \in Seq(Candidate) /\ Len(kept) \in Nat
  BY CandidateAssumption DEF IInv, TypeOK
<1>2. UNCHANGED <<reply, kept>>
  BY DEF Reject, SkipNotANumber, DropConflict, Return, Hear, vars
<1>3. PrefixFree'
  BY <1>2 DEF IInv, PrefixFree
<1>4. CASE Reject
  BY <1>1, <1>3, <1>4 DEF IInv, TypeOK, Transmission, Reject
<1>5. CASE SkipNotANumber \/ DropConflict
  <2>1. pos' = pos + 1 /\ pos < Len(reply) /\ UNCHANGED <<reply, kept, status, said, covertext, heard>>
    BY <1>5 DEF SkipNotANumber, DropConflict, Reading
  <2>2. pos' \in 0..Len(reply) /\ Len(kept) <= pos'
    BY <1>1, <2>1 DEF IInv, TypeOK
  <2>3. TypeOK'
    BY <1>1, <2>1, <2>2 DEF IInv, TypeOK
  <2> QED BY <1>3, <2>1, <2>3 DEF IInv, Transmission
<1>6. CASE Return
  BY <1>1, <1>3, <1>6 DEF IInv, TypeOK, Transmission, Return
<1>7. CASE Hear
  <2>1. /\ UNCHANGED <<reply, pos, kept, status, said, covertext>>
        /\ said # 0 /\ heard' \in 1..Len(kept) \cup {1}
    BY <1>7 DEF Hear
  <2>2. said \in 1..Len(kept) /\ heard' \in 0..Len(kept)
    BY <1>1, <2>1 DEF IInv, TypeOK
  <2> QED BY <1>1, <1>3, <2>1, <2>2 DEF IInv, TypeOK, Transmission
<1>8. CASE UNCHANGED vars
  BY <1>1, <1>3, <1>8 DEF IInv, TypeOK, Transmission, vars
<1> QED BY <1>4, <1>5, <1>6, <1>7, <1>8

LEMMA IInvStep == IInv /\ [Next]_vars => IInv'
BY KeepIInv, SayIInv, OtherIInv DEF Next

LEMMA IInvInvariant == Spec => []IInv
BY InitIInv, IInvStep, PTL DEF Spec

(* The list has its type and its bounds in every reachable state.          *)
THEOREM TypeCorrect == Spec => []TypeOK
<1>1. IInv => TypeOK
  BY DEF IInv
<1> QED BY IInvInvariant, <1>1, PTL

(* The candidates are prefix-free, whatever the model replies.             *)
THEOREM CandidatesPrefixFree == Spec => []PrefixFree
<1>1. IInv => PrefixFree
  BY DEF IInv
<1> QED BY IInvInvariant, <1>1, PTL

(* At most one candidate is a prefix of the covertext: the one written.    *)
LEMMA OnlySaidFits ==
  ASSUME IInv, said # 0, NEW i \in 1..Len(kept), GoesOnWith(covertext, kept[i].text)
  PROVE  i = said
<1>1. kept \in Seq(Candidate) /\ said \in 1..Len(kept) /\ covertext \in Text
  BY DEF IInv, TypeOK
<1>2. kept[i] \in Candidate /\ kept[said] \in Candidate
  BY <1>1
<1>3. kept[i].text \in Text /\ kept[said].text \in Text
  BY <1>2 DEF Candidate
<1>4. GoesOnWith(covertext, kept[said].text)
  BY DEF IInv, Transmission
<1>5. GoesOnWith(kept[said].text, kept[i].text) \/ GoesOnWith(kept[i].text, kept[said].text)
  BY <1>1, <1>3, <1>4, PrefixesAreComparable
<1> QED BY <1>1, <1>5 DEF IInv, PrefixFree

LEMMA HearSaid == IInv /\ Hear => heard' = said
<1> SUFFICES ASSUME IInv, Hear PROVE heard' = said
  OBVIOUS
<1>1. kept \in Seq(Candidate) /\ Len(kept) \in Nat /\ said # 0 /\ said \in 1..Len(kept)
  BY DEF IInv, TypeOK, Hear
<1>2. kept[said] \in Candidate /\ kept[1] \in Candidate
  BY <1>1
<1>3. kept[said].text \in Text /\ kept[1].text \in Text
  BY <1>2 DEF Candidate
<1>4. Len(kept[said].text) \in Nat /\ Len(kept[1].text) \in Nat
  BY <1>3 DEF Text
<1>5. GoesOnWith(covertext, kept[said].text)
  BY <1>1 DEF IInv, Transmission
<1>6. CASE \E i \in 1..Len(kept) : Longest(i) /\ heard' = i
  <2>1. PICK i \in 1..Len(kept) : Longest(i) /\ heard' = i
    BY <1>6
  <2>2. GoesOnWith(covertext, kept[i].text)
    BY <2>1 DEF Longest
  <2> QED BY <1>1, <2>1, <2>2, OnlySaidFits
<1>7. CASE (\A i \in 1..Len(kept) : ~Longest(i)) /\ heard' = 1
  <2>1. Len(kept[said].text) = 0
    <3>1. SUFFICES ASSUME Len(kept[said].text) # 0 PROVE Longest(said)
      BY <1>1, <1>7
    <3>2. \A j \in 1..Len(kept) : GoesOnWith(covertext, kept[j].text) => j = said
      BY <1>1, OnlySaidFits
    <3> QED BY <1>1, <1>4, <1>5, <3>1, <3>2 DEF Longest
  <2>2. GoesOnWith(kept[1].text, kept[said].text)
    BY <1>4, <2>1 DEF GoesOnWith, SameAsFarAs
  <2>3. said = 1
    BY <1>1, <2>2 DEF IInv, PrefixFree
  <2> QED BY <1>7, <2>3
<1> QED BY <1>6, <1>7 DEF Hear

LEMMA HeardStep == IInv /\ HeardIsSaid /\ [Next]_vars => HeardIsSaid'
<1> SUFFICES ASSUME IInv, HeardIsSaid, [Next]_vars PROVE HeardIsSaid'
  OBVIOUS
<1>1. CASE Hear
  BY <1>1, HearSaid DEF Hear, HeardIsSaid
<1>2. CASE Say
  BY <1>2 DEF IInv, Transmission, Say, HeardIsSaid
<1>3. CASE ~Hear /\ ~Say
  BY <1>3 DEF Next, Reject, SkipNotANumber, DropConflict, Keep, Return, vars, HeardIsSaid
<1> QED BY <1>1, <1>2, <1>3

(* The receiver recognises the candidate the sender wrote, whatever the    *)
(* candidates and whatever text comes behind it.                           *)
THEOREM DecoderHearsEncoder == Spec => []HeardIsSaid
<1>1. Init => HeardIsSaid
  BY DEF Init, HeardIsSaid
<1> QED BY IInvInvariant, HeardStep, <1>1, PTL DEF Spec

-----------------------------------------------------------------------------
(* EarliestKept is not inductive: a key is dropped because of a candidate, *)
(* and that this one came first is known only if all of them came from     *)
(* keys that the loop has passed.                                          *)
Sources ==
  \A j \in 1..Len(kept) : \E q \in 1..pos : kept[j].text = StoredText(reply[q].key)

EarliestInv == Sources /\ EarliestKept

LEMMA EarliestInit == Init => EarliestInv
<1> SUFFICES ASSUME Init PROVE EarliestInv
  OBVIOUS
<1>1. 1..Len(kept) = {} /\ 1..pos = {}
  BY DEF Init
<1> QED BY <1>1 DEF EarliestInv, Sources, EarliestKept

(* A step that passes no key.                                              *)
LEMMA EarliestUntouched ==
  ASSUME EarliestInv, UNCHANGED <<reply, pos, kept>>
  PROVE  EarliestInv'
BY DEF EarliestInv, Sources, EarliestKept

(* A key that is not kept had better be in conflict with one that is.      *)
LEMMA EarliestPassed ==
  ASSUME IInv, EarliestInv, pos' = pos + 1, UNCHANGED <<reply, kept>>,
         \/ reply[pos + 1].prob = NotANumber
         \/ \E j \in 1..Len(kept) : Conflict(kept[j].text, StoredText(reply[pos + 1].key))
  PROVE  EarliestInv'
<1>1. pos \in Nat /\ 1..pos' = (1..pos) \cup {pos + 1}
  BY DEF IInv, TypeOK
<1>2. Sources'
  BY <1>1 DEF EarliestInv, Sources
<1>3. ASSUME NEW p \in 1..pos', reply[p].prob # NotANumber
      PROVE  \E j \in 1..Len(kept) : /\ Conflict(kept[j].text, StoredText(reply[p].key))
                                     /\ \E q \in 1..p : kept[j].text = StoredText(reply[q].key)
  <2>1. CASE p \in 1..pos
    BY <1>3, <2>1 DEF EarliestInv, EarliestKept
  <2>2. CASE p = pos + 1
    <3>1. PICK j \in 1..Len(kept) : Conflict(kept[j].text, StoredText(reply[p].key))
      BY <1>3, <2>2
    <3>2. PICK q \in 1..pos : kept[j].text = StoredText(reply[q].key)
      BY DEF EarliestInv, Sources
    <3>3. q \in 1..p
      BY <1>1, <2>2
    <3> QED BY <3>1, <3>2, <3>3
  <2> QED BY <1>1, <2>1, <2>2
<1>4. EarliestKept'
  BY <1>3 DEF EarliestKept
<1> QED BY <1>2, <1>4 DEF EarliestInv

LEMMA EarliestAppended ==
  ASSUME IInv, EarliestInv, Keep
  PROVE  EarliestInv'
<1> DEFINE text == StoredText(Item.key)
           n == Len(kept)
<1>1. pos \in Nat /\ n \in Nat /\ kept \in Seq(Candidate) /\ pos' = pos + 1 /\ reply' = reply
  BY DEF IInv, TypeOK, Keep
<1>2. /\ Len(kept') = n + 1 /\ kept'[n + 1].text = text
      /\ \A j \in 1..n : kept'[j] = kept[j]
  BY <1>1 DEF Keep
<1>3. text = StoredText(reply[pos + 1].key)
  BY DEF Item
<1> HIDE DEF text, n
<1>4. 1..pos' = (1..pos) \cup {pos + 1} /\ 1..Len(kept') = (1..n) \cup {n + 1}
  BY <1>1, <1>2
<1>5. Sources'
  <2>1. ASSUME NEW j \in 1..Len(kept')
        PROVE  \E q \in 1..pos' : kept'[j].text = StoredText(reply[q].key)
    <3>1. CASE j \in 1..n
      BY <1>2, <1>4, <3>1 DEF EarliestInv, Sources, n
    <3>2. CASE j = n + 1
      BY <1>2, <1>3, <1>4, <3>2
    <3> QED BY <1>4, <3>1, <3>2
  <2> QED BY <1>1, <2>1 DEF Sources
<1>6. ASSUME NEW p \in 1..pos', reply[p].prob # NotANumber
      PROVE  \E j \in 1..Len(kept') : /\ Conflict(kept'[j].text, StoredText(reply[p].key))
                                      /\ \E q \in 1..p : kept'[j].text = StoredText(reply[q].key)
  <2>1. CASE p \in 1..pos
    <3>1. PICK j \in 1..n : /\ Conflict(kept[j].text, StoredText(reply[p].key))
                            /\ \E q \in 1..p : kept[j].text = StoredText(reply[q].key)
      BY <1>6, <2>1 DEF EarliestInv, EarliestKept, n
    <3> QED BY <1>2, <1>4, <3>1
  <2>2. CASE p = pos + 1
    <3>1. n + 1 \in 1..Len(kept') /\ p \in 1..p
      BY <1>1, <1>4, <2>2
    <3>2. Conflict(text, text)
      BY DEF Conflict, SameAsFarAs
    <3> QED BY <1>2, <1>3, <2>2, <3>1, <3>2
  <2> QED BY <1>4, <2>1, <2>2
<1>7. EarliestKept'
  BY <1>1, <1>6 DEF EarliestKept
<1> QED BY <1>5, <1>7 DEF EarliestInv

LEMMA EarliestStep == IInv /\ EarliestInv /\ [Next]_vars => EarliestInv'
<1> SUFFICES ASSUME IInv, EarliestInv, [Next]_vars PROVE EarliestInv'
  OBVIOUS
<1>1. CASE Reject \/ Return \/ Say \/ Hear \/ UNCHANGED vars
  BY <1>1, EarliestUntouched DEF Reject, Return, Say, Hear, vars
<1>2. CASE SkipNotANumber \/ DropConflict
  BY <1>2, EarliestPassed DEF SkipNotANumber, DropConflict, Item
<1>3. CASE Keep
  BY <1>3, EarliestAppended
<1> QED BY <1>1, <1>2, <1>3 DEF Next

(* Of the keys that are in one another's way the earliest is kept, for     *)
(* every reply and every limit.                                            *)
THEOREM EarliestWins == Spec => []EarliestKept
<1>1. EarliestInv => EarliestKept
  BY DEF EarliestInv
<1> QED BY IInvInvariant, EarliestInit, EarliestStep, <1>1, PTL DEF Spec

-----------------------------------------------------------------------------
(* The request.                                                            *)

(* The loop has not looked at anything.                                    *)
Untouched == pos = 0 /\ kept = <<>> /\ said = 0 /\ covertext = <<>> /\ heard = 0

RequestTypeOK ==
  /\ backend \in {"winhttp", "curl"} /\ conn \in {"none", "live", "stale"}
  /\ phase \in {"begin", "reading", "parsing", "garbled", "failed", "answered"}
  /\ attempt \in {1, 2} /\ at \in 0..Pieces /\ got \subseteq 1..at
  /\ spent \in [faults : Nat, oom : Nat]

(* Only an allocation that failed leaves a hole in the body, and libcurl   *)
(* stops there.                                                            *)
HoleInv ==
  /\ spent.oom = 0 => got = 1..at
  /\ backend = "curl" /\ phase # "failed" => got = 1..at
  /\ phase = "garbled" => backend = "winhttp" /\ spent.oom > 0

(* The loop begins when the body is whole or taken to be.                  *)
LoopInv ==
  /\ phase \in {"begin", "reading"} => Untouched /\ status = "reading"
  /\ phase = "parsing" /\ ~Whole => Untouched

(* A stale connection is met on the first attempt only; and it takes a     *)
(* fault for a body to end too early.                                      *)
ConnInv ==
  /\ phase = "begin" /\ conn = "stale" => attempt = 1
  /\ phase = "parsing" /\ spent.faults = 0 /\ spent.oom = 0 => Whole

RequestInv ==
  RequestTypeOK /\ HoleInv /\ LoopInv /\ ConnInv /\ AnswerIsModels /\ StaleIsForgiven

-----------------------------------------------------------------------------
LEMMA PiecesIsNat == Pieces \in Nat \ {0} /\ MaxFaults \in Nat /\ MaxOutOfMemory \in Nat
BY ClientAssumption

(* A body that ends too early but has no hole counts up to where it ends.  *)
LEMMA NoHole ==
  ASSUME NEW n \in Nat
  PROVE  Cardinality(1..n) = n
BY FS_Interval

LEMMA RequestInit == ClientInit => RequestInv
<1> SUFFICES ASSUME ClientInit PROVE RequestInv
  OBVIOUS
<1>1. 1..0 = {}
  OBVIOUS
<1>2. RequestTypeOK
  BY PiecesIsNat DEF ClientInit, RequestTypeOK
<1>3. HoleInv /\ LoopInv /\ ConnInv
  BY <1>1 DEF ClientInit, HoleInv, LoopInv, ConnInv, Untouched
<1>4. AnswerIsModels /\ StaleIsForgiven
  BY DEF ClientInit, AnswerIsModels, StaleIsForgiven
<1> QED BY <1>2, <1>3, <1>4 DEF RequestInv

(* How the history counts.                                                 *)
LEMMA FaultCounts ==
  ASSUME RequestInv, Fault
  PROVE  spent' \in [faults : Nat, oom : Nat] /\ spent'.faults > 0 /\ spent'.oom = spent.oom
<1>1. spent \in [faults : Nat, oom : Nat] /\ spent' = [spent EXCEPT !.faults = spent.faults + 1]
  BY DEF RequestInv, RequestTypeOK, Fault
<1>2. spent.faults + 1 \in Nat /\ spent.faults + 1 > 0
  BY <1>1
<1> QED BY <1>1, <1>2

(* The steps before a response: nothing but attempts and connections.      *)
LEMMA ConnectionSteps ==
  ASSUME RequestInv, OpenConn \/ OpenFails \/ SendFails \/ PerformFails \/ Send
  PROVE  RequestInv'
<1>1. phase = "begin" /\ UNCHANGED <<parsing, backend, at, got>>
  BY DEF OpenConn, OpenFails, SendFails, PerformFails, Send, ConnError
<1>2. RequestTypeOK /\ HoleInv /\ LoopInv /\ ConnInv
  BY DEF RequestInv
<1>3. \/ spent' = spent
      \/ spent' \in [faults : Nat, oom : Nat] /\ spent'.faults > 0 /\ spent'.oom = spent.oom
  BY FaultCounts DEF OpenConn, OpenFails, SendFails, PerformFails, Send, NoFault
<1>4. \/ phase' = "failed" /\ (spent'.faults > 0) /\ conn' = conn /\ attempt' = attempt
      \/ phase' = "begin" /\ attempt' = 2 /\ conn' = "none"
      \/ phase' = "begin" /\ attempt' = attempt /\ conn' = "live"
      \/ phase' = "reading" /\ attempt' = attempt /\ conn' = conn
  <2>1. CASE OpenConn
    BY <1>1, <2>1 DEF OpenConn
  <2>2. CASE OpenFails
    BY <1>1, <2>2, FaultCounts DEF OpenFails, ConnError
  <2>3. CASE SendFails
    <3>1. conn = "stale" => attempt = 1
      BY <1>1, <1>2 DEF ConnInv
    <3> QED BY <1>1, <2>3, <3>1, FaultCounts DEF SendFails, ConnError
  <2>4. CASE PerformFails
    BY <2>4, FaultCounts DEF PerformFails
  <2>5. CASE Send
    BY <2>5 DEF Send
  <2> QED BY <2>1, <2>2, <2>3, <2>4, <2>5
<1>5. RequestTypeOK'
  BY <1>1, <1>2, <1>3, <1>4 DEF RequestTypeOK
<1>6. HoleInv'
  BY <1>1, <1>2, <1>3, <1>4 DEF HoleInv
<1>7. LoopInv'
  BY <1>1, <1>2, <1>4 DEF LoopInv, Untouched, parsing, Whole
<1>8. ConnInv'
  BY <1>4 DEF ConnInv
<1>9. AnswerIsModels'
  BY <1>4 DEF AnswerIsModels
<1>10. StaleIsForgiven'
  BY <1>4 DEF StaleIsForgiven
<1> QED BY <1>5, <1>6, <1>7, <1>8, <1>9, <1>10 DEF RequestInv

(* A piece arrives, and is in the buffer or not.                           *)
LEMMA PieceSteps ==
  ASSUME RequestInv, ReadPiece \/ AppendFails
  PROVE  RequestInv'
<1>1. phase = "reading" /\ UNCHANGED <<parsing, backend, conn, attempt>>
  BY DEF ReadPiece, AppendFails
<1>2. RequestTypeOK /\ HoleInv /\ LoopInv
  BY DEF RequestInv
<1>3. at' = at + 1 /\ at' \in 0..Pieces /\ at \in Nat /\ 1..at' = (1..at) \cup {at'}
  <2>1. at' = at + 1 /\ at < Pieces /\ at \in 0..Pieces
    BY <1>2 DEF RequestTypeOK, ReadPiece, AppendFails
  <2> QED BY <2>1, PiecesIsNat
<1>4. CASE ReadPiece
  <2>1. got' = got \cup {at'} /\ phase' = phase /\ spent' = spent
    BY <1>3, <1>4 DEF ReadPiece
  <2>2. RequestTypeOK' /\ HoleInv'
    BY <1>1, <1>2, <1>3, <2>1 DEF RequestTypeOK, HoleInv
  <2>3. LoopInv' /\ ConnInv' /\ AnswerIsModels' /\ StaleIsForgiven'
    BY <1>1, <1>2, <2>1 DEF LoopInv, Untouched, parsing, ConnInv, AnswerIsModels, StaleIsForgiven
  <2> QED BY <2>2, <2>3 DEF RequestInv
<1>5. CASE AppendFails
  <2>1. spent' \in [faults : Nat, oom : Nat] /\ spent'.oom > 0
    <3>1. spent \in [faults : Nat, oom : Nat] /\ spent' = [spent EXCEPT !.oom = spent.oom + 1]
      BY <1>2, <1>5 DEF RequestTypeOK, AppendFails
    <3>2. spent.oom + 1 \in Nat /\ spent.oom + 1 > 0
      BY <3>1
    <3> QED BY <3>1, <3>2
  <2>2. got' = got /\ phase' = IF backend = "curl" THEN "failed" ELSE "reading"
    BY <1>1, <1>5 DEF AppendFails
  <2>3. RequestTypeOK' /\ HoleInv'
    BY <1>1, <1>2, <1>3, <2>1, <2>2 DEF RequestTypeOK, HoleInv
  <2>4. LoopInv' /\ ConnInv' /\ AnswerIsModels' /\ StaleIsForgiven'
    BY <1>1, <1>2, <2>1, <2>2 DEF LoopInv, Untouched, parsing, ConnInv, AnswerIsModels, StaleIsForgiven
  <2> QED BY <2>3, <2>4 DEF RequestInv
<1> QED BY <1>4, <1>5

(* The body ends: with a failure, or with all that will ever be there.     *)
LEMMA EndSteps ==
  ASSUME RequestInv, ReadFails \/ ReadAll
  PROVE  RequestInv'
<1>1. phase = "reading" /\ UNCHANGED <<pos, kept, status, said, covertext, heard, backend, attempt, at, got>>
  BY DEF ReadFails, ReadAll, parsing
<1>2. RequestTypeOK /\ HoleInv /\ LoopInv
  BY DEF RequestInv
<1>3. phase' \in {"failed", "parsing"} /\ conn' \in {"none", "live", "stale"}
  BY <1>2 DEF ReadFails, ReadAll, BodyEnds, RequestTypeOK
<1>4. \/ spent' \in [faults : Nat, oom : Nat] /\ spent'.faults > 0 /\ spent'.oom = spent.oom
      \/ spent' = spent /\ at = Pieces /\ phase' = IF got = {} THEN "failed" ELSE "parsing"
  BY FaultCounts DEF ReadFails, ReadAll, BodyEnds
<1>5. RequestTypeOK' /\ HoleInv'
  BY <1>1, <1>2, <1>3, <1>4 DEF RequestTypeOK, HoleInv
<1>6. LoopInv' /\ AnswerIsModels'
  BY <1>1, <1>2, <1>3 DEF LoopInv, Untouched, AnswerIsModels
<1>7. spent'.faults = 0 /\ spent'.oom = 0 => Whole' /\ phase' # "failed"
  <2> SUFFICES ASSUME spent'.faults = 0, spent'.oom = 0 PROVE Whole' /\ phase' # "failed"
    OBVIOUS
  <2>1. spent' = spent /\ at = Pieces /\ phase' = IF got = {} THEN "failed" ELSE "parsing"
    BY <1>4
  <2>2. got = 1..Pieces
    BY <1>2, <2>1 DEF HoleInv
  <2>3. 1 \in got
    BY <2>2, PiecesIsNat
  <2> QED BY <1>1, <2>1, <2>2, <2>3 DEF Whole
<1>8. ConnInv' /\ StaleIsForgiven'
  BY <1>3, <1>7 DEF ConnInv, StaleIsForgiven
<1> QED BY <1>5, <1>6, <1>8 DEF RequestInv

(* A body without a hole is never taken for something else.                *)
LEMMA ParsingSteps ==
  ASSUME RequestInv, RejectDamaged \/ MissTheHole \/ Parse
  PROVE  RequestInv'
<1>1. phase \in {"parsing", "garbled"} /\ UNCHANGED <<backend, conn, attempt, at, got, spent>>
  BY DEF RejectDamaged, MissTheHole, Parse, client
<1>2. RequestTypeOK /\ HoleInv /\ LoopInv /\ ConnInv
  BY DEF RequestInv
<1>3. CASE RejectDamaged
  <2>1. phase' = phase /\ UNCHANGED <<reply, pos, kept, said, covertext, heard>>
    BY <1>3 DEF RejectDamaged, Reject, client
  <2>2. RequestTypeOK' /\ HoleInv' /\ LoopInv' /\ ConnInv'
    BY <1>1, <1>2, <2>1 DEF RequestTypeOK, HoleInv, LoopInv, Untouched, ConnInv, Whole
  <2>3. AnswerIsModels' /\ StaleIsForgiven'
    BY <1>1, <2>1 DEF AnswerIsModels, StaleIsForgiven
  <2> QED BY <2>2, <2>3 DEF RequestInv
<1>4. CASE MissTheHole
  <2>1. phase' = "garbled" /\ got # 1..Cardinality(got)
    BY <1>4 DEF MissTheHole
  <2>2. got # 1..at
    <3>1. at \in Nat
      BY <1>2 DEF RequestTypeOK
    <3> QED BY <2>1, <3>1, NoHole
  <2>3. backend = "winhttp" /\ spent.oom > 0
    <3>1. spent.oom # 0 /\ backend # "curl" /\ spent.oom \in Nat
      BY <1>1, <1>2, <2>2 DEF HoleInv, RequestTypeOK
    <3> QED BY <1>2, <3>1 DEF RequestTypeOK
  <2>4. RequestTypeOK' /\ HoleInv' /\ LoopInv' /\ ConnInv'
    BY <1>1, <1>2, <2>1, <2>3 DEF RequestTypeOK, HoleInv, LoopInv, ConnInv
  <2>5. AnswerIsModels' /\ StaleIsForgiven'
    BY <2>1 DEF AnswerIsModels, StaleIsForgiven
  <2> QED BY <2>4, <2>5 DEF RequestInv
<1>5. CASE Parse
  <2>1. phase' = phase /\ (Whole \/ phase = "garbled")
    BY <1>5 DEF Parse, client
  <2>2. RequestTypeOK' /\ HoleInv' /\ LoopInv' /\ ConnInv'
    BY <1>1, <1>2, <2>1 DEF RequestTypeOK, HoleInv, LoopInv, ConnInv, Whole
  <2>3. AnswerIsModels' /\ StaleIsForgiven'
    BY <1>1, <2>1 DEF AnswerIsModels, StaleIsForgiven
  <2> QED BY <2>2, <2>3 DEF RequestInv
<1> QED BY <1>3, <1>4, <1>5

LEMMA LastSteps ==
  ASSUME RequestInv, Give \/ Transmit \/ UNCHANGED <<vars, client>>
  PROVE  RequestInv'
<1>1. RequestTypeOK /\ HoleInv /\ LoopInv /\ ConnInv /\ AnswerIsModels /\ StaleIsForgiven
  BY DEF RequestInv
<1>2. UNCHANGED <<reply, pos, kept, backend, conn, attempt, at, got, spent>>
  BY DEF Give, Transmit, Say, Hear, client, vars, parsing
<1>3. CASE Give
  <2>1. /\ phase \in {"parsing", "garbled"}
        /\ phase' = IF status = "null" \/ kept = <<>> THEN "failed" ELSE "answered"
    BY <1>3 DEF Give
  <2>2. RequestTypeOK' /\ HoleInv' /\ LoopInv' /\ ConnInv'
    BY <1>1, <1>2, <2>1 DEF RequestTypeOK, HoleInv, LoopInv, ConnInv
  <2>3. AnswerIsModels'
    BY <1>1, <1>2, <2>1 DEF AnswerIsModels, HoleInv, LoopInv, Untouched, Whole
  <2>4. StaleIsForgiven'
    BY <1>1, <1>2, <2>1 DEF StaleIsForgiven, ConnInv, HoleInv, Whole
  <2> QED BY <2>2, <2>3, <2>4 DEF RequestInv
<1>4. CASE Transmit
  <2>1. phase = "answered" /\ phase' = phase
    BY <1>4 DEF Transmit, client
  <2>2. RequestTypeOK' /\ HoleInv' /\ LoopInv' /\ ConnInv'
    BY <1>1, <1>2, <2>1 DEF RequestTypeOK, HoleInv, LoopInv, ConnInv
  <2>3. AnswerIsModels' /\ StaleIsForgiven'
    BY <1>1, <1>2, <2>1 DEF AnswerIsModels, StaleIsForgiven, Whole
  <2> QED BY <2>2, <2>3 DEF RequestInv
<1>5. CASE UNCHANGED <<vars, client>>
  BY <1>1, <1>5 DEF RequestInv, RequestTypeOK, HoleInv, LoopInv, Untouched, ConnInv, AnswerIsModels,
                    StaleIsForgiven, Whole, vars, client
<1> QED BY <1>3, <1>4, <1>5

LEMMA RequestStep == RequestInv /\ [ClientNext]_<<vars, client>> => RequestInv'
BY ConnectionSteps, PieceSteps, EndSteps, ParsingSteps, LastSteps DEF ClientNext

LEMMA RequestInvariant == ClientSpec => []RequestInv
BY RequestInit, RequestStep, PTL DEF ClientSpec

-----------------------------------------------------------------------------
(***************************************************************************)
(* The loop inside the request.  Each step of a request is one of the loop *)
(* in CandidateSet, or none, or puts another reply before a loop that has  *)
(* not begun; so what is an invariant there is one here.                   *)
(***************************************************************************)
ParsedInv == IInv /\ EarliestInv /\ HeardIsSaid

LEMMA LoopSteps ==
  ASSUME RequestInv, [ClientNext]_<<vars, client>>
  PROVE  [Next]_vars \/ Init'
<1>1. CASE RejectDamaged \/ Parse \/ Transmit
  BY <1>1 DEF RejectDamaged, Parse, Transmit, Next
<1>2. CASE MissTheHole
  <2>1. phase = "parsing" /\ ~Whole /\ status = "reading"
        /\ reply' \in Garbled /\ UNCHANGED <<pos, kept, status, said, covertext, heard>>
    BY <1>2 DEF MissTheHole
  <2>2. Untouched
    BY <2>1 DEF RequestInv, LoopInv
  <2> QED BY <2>1, <2>2, ClientAssumption DEF Untouched, Init
<1>3. CASE ReadAll
  <2>1. phase = "reading" /\ UNCHANGED <<pos, kept, status, said, covertext, heard>>
        /\ (reply' = reply \/ reply' \in Replies)
    BY <1>3 DEF ReadAll
  <2>2. Untouched /\ status = "reading"
    BY <2>1 DEF RequestInv, LoopInv
  <2> QED BY <2>1, <2>2 DEF Untouched, Init, vars
<1>4. CASE OpenConn \/ OpenFails \/ SendFails \/ PerformFails \/ Send \/ ReadPiece \/ AppendFails
             \/ ReadFails \/ Give
  <2>1. UNCHANGED parsing
    BY <1>4 DEF OpenConn, OpenFails, SendFails, PerformFails, Send, ReadPiece, AppendFails,
                ReadFails, Give, ConnError
  <2> QED BY <2>1 DEF parsing, vars
<1>5. CASE UNCHANGED <<vars, client>>
  BY <1>5 DEF vars
<1> QED BY <1>1, <1>2, <1>3, <1>4, <1>5 DEF ClientNext

LEMMA ParsedInit == Init => ParsedInv
BY InitIInv, EarliestInit DEF ParsedInv, Init, HeardIsSaid

LEMMA ParsedAfter == Init' => ParsedInv'
BY ParsedInit, PTL

LEMMA ParsedStep == RequestInv /\ ParsedInv /\ [ClientNext]_<<vars, client>> => ParsedInv'
<1>1. ParsedInv /\ [Next]_vars => ParsedInv'
  BY IInvStep, EarliestStep, HeardStep DEF ParsedInv
<1> QED BY <1>1, LoopSteps, ParsedAfter

LEMMA ParsedInvariant == ClientSpec => []ParsedInv
<1>1. ClientInit => Init
  BY ClientAssumption DEF ClientInit, Init
<1> QED BY <1>1, ParsedInit, ParsedStep, RequestInvariant, PTL DEF ClientSpec

-----------------------------------------------------------------------------
(* What a caller is given comes from the whole body and is not empty,      *)
(* except in a WinHTTP build that ran out of memory.                       *)
THEOREM AnswerIsWhole == ClientSpec => []AnswerIsModels
BY RequestInvariant, PTL DEF RequestInv

(* A server that closes the connection between two requests makes none of  *)
(* them fail.                                                              *)
THEOREM StaleForgiven == ClientSpec => []StaleIsForgiven
BY RequestInvariant, PTL DEF RequestInv

(* In any state of a request, whatever was lost on the way, no candidate   *)
(* is a prefix of another one.                                             *)
THEOREM RequestPrefixFree == ClientSpec => []PrefixFree
BY ParsedInvariant, PTL DEF ParsedInv, IInv

(* Nor is a key dropped but for one that came before it.                   *)
THEOREM RequestKeepsEarliest == ClientSpec => []EarliestKept
BY ParsedInvariant, PTL DEF ParsedInv, EarliestInv

(* And the decoder recognises the candidate the encoder wrote.             *)
THEOREM RequestIsHeard == ClientSpec => []HeardIsSaid
BY ParsedInvariant, PTL DEF ParsedInv

-----------------------------------------------------------------------------
(***************************************************************************)
(* Words end.  The loop has looked at every key of a continuation, for the *)
(* grammar gives no more of them than are kept at most; so the mark is     *)
(* kept, or dropped for an earlier candidate in conflict with its text.    *)
(* But those begin with a letter.                                          *)
(***************************************************************************)
LoopEnds ==
  /\ status = "returned" => ~(pos < Len(reply) /\ Len(kept) < Limit)
  /\ phase = "answered" => status = "returned"

LEMMA LoopEndsStep ==
  ASSUME RequestInv, IInv, LoopEnds, [ClientNext]_<<vars, client>>
  PROVE  LoopEnds'
<1>1. CASE OpenConn \/ OpenFails \/ SendFails \/ PerformFails \/ Send \/ ReadPiece \/ AppendFails
             \/ ReadFails
  <2>1. UNCHANGED <<reply, pos, kept, status>>
    BY <1>1 DEF OpenConn, OpenFails, SendFails, PerformFails, Send, ReadPiece, AppendFails,
                ReadFails, ConnError, parsing
  <2>2. phase' # "answered"
    BY <1>1 DEF OpenConn, OpenFails, SendFails, PerformFails, Send, ReadPiece, AppendFails,
                ReadFails, ConnError, BodyEnds
  <2> QED BY <2>1, <2>2 DEF LoopEnds, Limit
<1>2. CASE ReadAll \/ MissTheHole
  <2>1. status = "reading" /\ status' = status
    BY <1>2 DEF ReadAll, MissTheHole, RequestInv, LoopInv
  <2>2. phase' # "answered"
    BY <1>2 DEF ReadAll, MissTheHole, BodyEnds
  <2> QED BY <2>1, <2>2 DEF LoopEnds
<1>3. CASE RejectDamaged \/ Parse
  <2>1. phase' = phase /\ phase # "answered"
    BY <1>3 DEF RejectDamaged, Parse, client
  <2>2. Reject \/ SkipNotANumber \/ DropConflict \/ Keep \/ Return
    BY <1>3 DEF RejectDamaged, Parse
  <2>3. \/ status' # "returned"
        \/ ~(pos < Len(reply) /\ Len(kept) < Limit) /\ UNCHANGED <<reply, pos, kept>>
    BY <2>2 DEF Reject, SkipNotANumber, DropConflict, Keep, Return, Reading
  <2> QED BY <2>1, <2>3 DEF LoopEnds, Limit
<1>4. CASE Give
  <2>1. UNCHANGED <<reply, pos, kept, status>>
    BY <1>4 DEF Give, parsing
  <2>2. phase' = "answered" => status = "returned"
    BY <1>4 DEF Give, IInv, TypeOK
  <2> QED BY <2>1, <2>2 DEF LoopEnds, Limit
<1>5. CASE Transmit \/ UNCHANGED <<vars, client>>
  <2>1. UNCHANGED <<reply, pos, kept, status, phase>>
    BY <1>5 DEF Transmit, Say, Hear, client, vars
  <2> QED BY <2>1 DEF LoopEnds, Limit
<1> QED BY <1>1, <1>2, <1>3, <1>4, <1>5 DEF ClientNext

(* What a syllable or the mark is stored as.                               *)
LEMMA StoredIs ==
  ASSUME NEW key \in Text, key # <<>>
  PROVE  /\ key = EowMark => StoredText(key) = EowText
         /\ Head(key) # Head(EowMark) =>
              /\ StoredText(key) \in Text /\ Len(StoredText(key)) >= 1
              /\ StoredText(key)[1] = Head(key)
<1>1. Len(key) \in Nat /\ Len(key) >= 1 /\ TextLimit \in Nat /\ TextLimit >= 1
  BY CandidateAssumption DEF Text
<1>2. PICK n \in Nat : n = IF Len(key) < TextLimit THEN Len(key) ELSE TextLimit
  BY <1>1
<1>3. n >= 1 /\ n <= Len(key)
  BY <1>1, <1>2
<1>4. PICK cut : cut = SubSeq(key, 1, n)
  OBVIOUS
<1>5. cut \in Text /\ Len(cut) = n /\ cut[1] = key[1]
  BY <1>1, <1>3, <1>4 DEF Text
<1>6. StoredText(key) = IF cut = EowMark THEN EowText ELSE cut
  BY <1>2, <1>4 DEF StoredText
<1>7. ASSUME key = EowMark PROVE StoredText(key) = EowText
  <2>1. n = Len(key)
    BY <1>1, <1>2, <1>7, MarkAssumption
  <2>2. cut = key
    BY <1>1, <1>4, <2>1 DEF Text
  <2> QED BY <1>6, <1>7, <2>2
<1>8. ASSUME Head(key) # Head(EowMark) PROVE cut # EowMark
  <2>1. Head(key) = key[1] /\ Head(cut) = cut[1]
    BY <1>1, <1>3, <1>5 DEF Text
  <2> QED BY <1>5, <1>8, <2>1
<1>9. Head(key) = key[1]
  BY <1>1 DEF Text
<1> QED BY <1>3, <1>5, <1>6, <1>7, <1>8, <1>9

LEMMA LoopEndsInvariant == ClientSpec => []LoopEnds
<1>1. ClientInit => LoopEnds
  BY DEF ClientInit, LoopEnds
<1>2. RequestInv /\ ParsedInv /\ LoopEnds /\ [ClientNext]_<<vars, client>> => LoopEnds'
  BY LoopEndsStep DEF ParsedInv
<1> QED BY <1>1, <1>2, RequestInvariant, ParsedInvariant, PTL DEF ClientSpec

(* A reply that follows the grammar of a continuation lets the word end,   *)
(* whatever its syllables are, unless just one candidate was asked for     *)
(* (llm_client.c:529-545 against the loop of parse_llm_response).          *)
THEOREM EveryWordCanEnd ==
  ASSUME MaxCandidates # 1
  PROVE  ClientSpec => []WordsCanEnd
<1>1. ASSUME RequestInv, ParsedInv, LoopEnds, phase = "answered", IsContinuation(reply)
      PROVE  \E j \in 1..Len(kept) : kept[j].text = EowText
  <2>1. /\ reply \in Seq(KeyValue) /\ kept \in Seq(Candidate) /\ pos \in Nat /\ Len(kept) \in Nat
        /\ pos <= Len(reply) /\ Len(kept) <= pos /\ Len(kept) <= MaxCandidates
    BY <1>1, CandidateAssumption DEF ParsedInv, IInv, TypeOK
  <2>2. PICK n \in Nat : n = Len(reply)
    BY <2>1
  <2>3. /\ n \in 2..(SyllablesAskedFor + 1) /\ reply[n].key = EowMark
        /\ \A k \in 1..n : reply[k].prob # NotANumber
        /\ \A k \in 1..(n - 1) :
             reply[k].key # <<>> /\ Head(reply[k].key) \notin {Head(EowMark), Head(EowText)}
    BY <1>1, <2>2 DEF IsContinuation
  <2>4. ASSUME NEW k \in 1..n PROVE reply[k].key \in Text
    <3>1. reply[k] \in KeyValue
      BY <2>1, <2>2
    <3> QED BY <3>1 DEF KeyValue
  <2>5. MaxCandidates >= 2
    <3>1. kept # <<>>
      BY <1>1 DEF RequestInv, AnswerIsModels
    <3>2. Len(kept) # 0
      BY <2>1, <3>1
    <3> QED BY <2>1, <3>2, CandidateAssumption
  <2>6. pos = n
    <3>1. n <= MaxCandidates
      BY <2>3, <2>5, CandidateAssumption DEF SyllablesAskedFor
    <3>2. Limit = n
      BY <2>2, <3>1, CandidateAssumption DEF Limit
    <3>3. ~(pos < n /\ Len(kept) < n)
      BY <1>1, <2>2, <3>2 DEF LoopEnds
    <3> QED BY <2>1, <2>2, <3>3
  <2>7. n \in 1..pos /\ reply[n].prob # NotANumber
    BY <2>2, <2>3, <2>6
  <2>8. PICK j \in 1..Len(kept) : /\ Conflict(kept[j].text, StoredText(EowMark))
                                 /\ \E q \in 1..n : kept[j].text = StoredText(reply[q].key)
    BY <1>1, <2>3, <2>7 DEF ParsedInv, EarliestInv, EarliestKept
  <2>9. StoredText(EowMark) = EowText /\ EowText \in Text /\ Len(EowText) >= 1
    <3>1. EowMark # <<>> /\ EowMark \in Text
      BY <2>2, <2>3, <2>4, MarkAssumption, CandidateAssumption DEF Text
    <3>2. Len(EowText) >= 1
      BY MarkAssumption, CandidateAssumption DEF Text
    <3> QED BY <3>1, <3>2, StoredIs, CandidateAssumption
  <2>10. PICK q \in 1..n : kept[j].text = StoredText(reply[q].key)
    BY <2>8
  <2>11. CASE q = n
    BY <2>3, <2>9, <2>10, <2>11
  <2>12. CASE q # n
    <3>1. PICK text : text = StoredText(reply[q].key)
      OBVIOUS
    <3>2. q \in 1..(n - 1) /\ reply[q].key \in Text
      BY <2>4, <2>10, <2>12
    <3>3. reply[q].key # <<>> /\ Head(reply[q].key) \notin {Head(EowMark), Head(EowText)}
      BY <2>3, <3>2
    <3>4. text \in Text /\ Len(text) >= 1 /\ text[1] = Head(reply[q].key)
      BY <3>1, <3>2, <3>3, StoredIs
    <3>5. Head(EowText) = EowText[1]
      BY <2>9 DEF Text
    <3>6. text[1] # EowText[1]
      BY <3>3, <3>4, <3>5
    <3>7. Conflict(text, EowText)
      BY <2>8, <2>9, <2>10, <3>1
    <3>8. Len(text) \in Nat /\ Len(EowText) \in Nat
      BY <2>9, <3>4 DEF Text
    <3> QED BY <2>9, <3>4, <3>6, <3>7, <3>8 DEF Conflict, SameAsFarAs
  <2> QED BY <2>11, <2>12
<1>2. RequestInv /\ ParsedInv /\ LoopEnds => WordsCanEnd
  BY <1>1 DEF WordsCanEnd
<1> QED BY <1>2, RequestInvariant, ParsedInvariant, LoopEndsInvariant, PTL
=============================================================================
