----------------------------- MODULE Syllabifier -----------------------------
(***************************************************************************)
(* The heuristic of syllabifier.c and its two callers: syllabify_text,     *)
(* which turns a text into a flat list of tokens, and                      *)
(* meteor_syllabify_word (meteor.c), which joins the syllables of one word *)
(* with middle dots.  A word is cut at one break per pair of neighbouring  *)
(* vowels.  Positions count letters from 0, as in the code: a break at b   *)
(* has b letters in front of it.                                           *)
(***************************************************************************)
EXTENDS Integers, Sequences, SequencesExt, FiniteSetsExt

CONSTANTS
  Letter,         \* what isalpha accepts
  Lower,          \* tolower
  Vowels,         \* of is_vowel, lower case
  Digraphs,       \* of is_digraph: pairs of lower-case letters
  Dot,            \* what meteor_syllabify_word puts between syllables
  Calls,          \* [of |-> "text" or "word", text |-> sequence of characters]
  SyllableLimit   \* letters a token holds (63)

ASSUME SyllabifierAssumption ==
  /\ Lower \in [Letter -> Letter]
  /\ Vowels \subseteq Letter /\ Digraphs \subseteq Letter \X Letter
  /\ \A d \in Digraphs : d[1] \notin Vowels   \* they open with a consonant, the list's all do
  /\ Dot \notin Letter
  /\ \A c \in Calls : c.of \in {"text", "word"} /\ c.text \in Seq(ToSet(c.text))
  /\ SyllableLimit \in Nat \ {0}

VARIABLES
  call,     \* the call being served
  pc,       \* "scan", "breaks" or "cut" inside the loops, then "returned"
  p,        \* characters of the text that were read
  words,    \* word_index
  word,     \* clean: the letters of the current word
  vi,       \* pairs of neighbouring vowels of it that were looked at
  breaks,   \* break positions, in the order found
  tokens,   \* what syllabify_text returns
  joined    \* what meteor_syllabify_word returns, <<>> for NULL

vars == <<call, pc, p, words, word, vi, breaks, tokens, joined>>

(* What is of a kind, in order.                                            *)
Only(s, kind) ==
  LET kept[k \in 0..Len(s)] ==
        IF k = 0 THEN <<>>
        ELSE IF s[k] \in kind THEN Append(kept[k - 1], s[k])
        ELSE kept[k - 1]
  IN kept[Len(s)]

(* What is no letter is stripped, the rest lowered.                        *)
LettersOf(text) ==
  LET letters == Only(text, Letter)
  IN [i \in 1..Len(letters) |-> Lower[letters[i]]]

(***************************************************************************)
(* syllabify_heuristic: the break between two neighbouring vowels.         *)
(***************************************************************************)
VowelAt(w, i) == w[i + 1] \in Vowels

VPos(w) == Only([k \in 1..Len(w) |-> k - 1], {i \in 0..(Len(w) - 1) : VowelAt(w, i)})

(* From the vowel on, as long as vowels follow and the next one in v_pos   *)
(* is not reached.                                                         *)
NucEnd(w, k) ==
  Max({i \in VPos(w)[k]..(VPos(w)[k + 1] - 1) : \A j \in VPos(w)[k]..i : VowelAt(w, j)})

(* From the next vowel back, as long as there are vowels: past the first   *)
(* of the two if they touch.                                               *)
NextNuc(w, k) ==
  Min({i \in 0..VPos(w)[k + 1] : \A j \in i..VPos(w)[k + 1] : VowelAt(w, j)})

HalfDown(n) == n \div 2   \* mutant: rounds towards minus infinity

(* Division in C rounds towards zero.                                      *)
Half(n) == IF n < 0 THEN -((-n) \div 2) ELSE n \div 2

PastNothing(w, mid) == mid   \* mutant: digraphs are not looked for

PastDigraph(w, mid) ==
  IF mid \in 1..(Len(w) - 1) /\ <<w[mid], w[mid + 1]>> \in Digraphs THEN mid + 1 ELSE mid

(* The break of the k-th pair of vowels: none or one position.             *)
BreakOf(w, k) ==
  LET consonants == NextNuc(w, k) - NucEnd(w, k) - 1
      break == IF consonants = 1 THEN NucEnd(w, k) + 1
               ELSE PastDigraph(w, NucEnd(w, k) + 1 + Half(consonants))
  IN IF consonants # 0 /\ break \in 1..(Len(w) - 1) THEN <<break>> ELSE <<>>

PiecesSkipping(w, cuts) ==   \* mutant: the letter after a break is skipped
  LET from == <<0>> \o cuts  to == cuts \o <<Len(w)>>
  IN [i \in 1..Len(to) |-> SubSeq(w, from[i] + (IF i = 1 THEN 1 ELSE 2), to[i])]

Pieces(w, cuts) ==
  LET from == <<0>> \o cuts  to == cuts \o <<Len(w)>>
  IN [i \in 1..Len(to) |-> SubSeq(w, from[i] + 1, to[i])]

(* The exchange sort moves every break to its place.                       *)
Sorted(cuts) ==
  LET order == CHOOSE q \in [1..Len(cuts) -> 1..Len(cuts)] :
                 \A j, k \in 1..Len(cuts) : j < k => q[j] # q[k] /\ cuts[q[j]] <= cuts[q[k]]
  IN [k \in 1..Len(cuts) |-> cuts[order[k]]]

Syllables == Pieces(word, Sorted(breaks))

(***************************************************************************)
(* The two callers.                                                        *)
(***************************************************************************)
Begin(w) == /\ word' = w /\ vi' = 0 /\ breaks' = <<>> /\ pc' = "breaks"

(* syllabify_text: skip what is no letter.                                 *)
SkipNonAlpha ==
  /\ pc = "scan" /\ call.of = "text"
  /\ p < Len(call.text) /\ call.text[p + 1] \notin Letter
  /\ p' = p + 1
  /\ UNCHANGED <<call, pc, words, word, vi, breaks, tokens, joined>>

(* A word ends in front of the next character that is no letter.           *)
WordEnd == Min({j \in p..Len(call.text) : j = Len(call.text) \/ call.text[j + 1] \notin Letter})

CollectWord ==
  /\ pc = "scan" /\ call.of = "text"
  /\ p < Len(call.text) /\ call.text[p + 1] \in Letter
  /\ Begin(LettersOf(SubSeq(call.text, p + 1, WordEnd)))
  /\ p' = WordEnd
  /\ UNCHANGED <<call, words, tokens, joined>>

(* meteor_syllabify_word hands over what it got; other characters than     *)
(* letters are stripped.                                                   *)
TakeWord ==
  /\ pc = "scan" /\ call.of = "word" /\ LettersOf(call.text) # <<>>
  /\ Begin(LettersOf(call.text))
  /\ p' = Len(call.text)
  /\ UNCHANGED <<call, words, tokens, joined>>

(* One iteration of the loop over pairs of vowels.                         *)
FindBreak ==
  /\ pc = "breaks" /\ vi + 1 < Len(VPos(word))
  /\ breaks' = breaks \o BreakOf(word, vi + 1)
  /\ vi' = vi + 1
  /\ UNCHANGED <<call, pc, p, words, word, tokens, joined>>

EndBreaks ==
  /\ pc = "breaks" /\ vi + 1 >= Len(VPos(word))
  /\ pc' = "cut"
  /\ UNCHANGED <<call, p, words, word, vi, breaks, tokens, joined>>

Stored(syllable) == SubSeq(syllable, 1, Min({Len(syllable), SyllableLimit}))

IsLastAlways(i, n) == TRUE   \* mutant: every syllable is marked as the last

IsLast(i, n) == i = n - 1

EmitTokens ==
  /\ pc = "cut" /\ call.of = "text"
  /\ tokens' = tokens \o
       [i \in 1..Len(Syllables) |->
          [word_index |-> words, syl_index |-> i - 1, syl_count |-> Len(Syllables),
           syllable |-> Stored(Syllables[i]), is_last |-> IsLast(i - 1, Len(Syllables))]]
  /\ words' = words + 1
  /\ pc' = "scan" /\ word' = <<>> /\ vi' = 0 /\ breaks' = <<>>
  /\ UNCHANGED <<call, p, joined>>

Join ==
  /\ pc = "cut" /\ call.of = "word"
  /\ joined' = FlattenSeq([i \in 1..Len(Syllables) |->
                             IF i = 1 THEN Syllables[i] ELSE <<Dot>> \o Syllables[i]])
  /\ pc' = "returned"
  /\ UNCHANGED <<call, p, words, word, vi, breaks, tokens>>

Return ==
  /\ pc = "scan"
  /\ IF call.of = "text" THEN p = Len(call.text) ELSE LettersOf(call.text) = <<>>
  /\ pc' = "returned"
  /\ UNCHANGED <<call, p, words, word, vi, breaks, tokens, joined>>

Init ==
  /\ call \in Calls /\ pc = "scan" /\ p = 0 /\ words = 0
  /\ word = <<>> /\ vi = 0 /\ breaks = <<>> /\ tokens = <<>> /\ joined = <<>>

Next == SkipNonAlpha \/ CollectWord \/ TakeWord \/ FindBreak \/ EndBreaks \/ EmitTokens \/ Join \/ Return

Spec == Init /\ [][Next]_vars
-----------------------------------------------------------------------------
(* The syllables rejoin to the word (test_syllabifier.c), for both callers *)
(* and whatever else is in the text, unless a syllable fills a token's     *)
(* buffer.  This needs breaks that lie in the word and pieces that meet.   *)
WordsRejoin ==
  pc = "returned" =>
    IF call.of = "word" THEN Only(joined, ToSet(joined) \ {Dot}) = LettersOf(call.text)
    ELSE (\A k \in 1..Len(tokens) : Len(tokens[k].syllable) < SyllableLimit) =>
           FlattenSeq([k \in 1..Len(tokens) |-> tokens[k].syllable]) = LettersOf(call.text)

(* Tokens count the words and their syllables without a gap, and exactly   *)
(* the last syllable of a word is marked: ARCHITECTURE.md has the end of   *)
(* word follow it.                                                         *)
TokensInOrder ==
  \A k \in 1..Len(tokens) :
    LET t == tokens[k]
        first == k = 1 \/ tokens[k - 1].is_last
    IN /\ t.syl_index = IF first THEN 0 ELSE tokens[k - 1].syl_index + 1
       /\ t.word_index = IF k = 1 THEN 0 ELSE tokens[k - 1].word_index + (IF first THEN 1 ELSE 0)
       /\ t.is_last <=> (k = Len(tokens) \/ tokens[k + 1].word_index # t.word_index)
       /\ t.is_last <=> t.syl_index + 1 = t.syl_count

(* Every syllable of a word with vowels has one: no break leaves           *)
(* consonants on their own.  The exception is the empty syllable, which    *)
(* comes up between touching vowels, and only where there are three.       *)
NucleusInEach ==
  pc = "cut" /\ VPos(word) # <<>> =>
    \A i \in 1..Len(Syllables) :
      \/ \E j \in 1..Len(Syllables[i]) : Syllables[i][j] \in Vowels
      \/ /\ Syllables[i] = <<>>
         /\ LET b == Sorted(breaks)[i]
            IN b + 2 <= Len(word) /\ {word[b], word[b + 1], word[b + 2]} \subseteq Vowels

(* A digraph is cut only if the two letters before the cut are one, too:   *)
(* stepping off a digraph is done once and may end inside the next.        *)
DigraphsKept ==
  \A i \in 1..Len(breaks) :
    <<word[breaks[i]], word[breaks[i] + 1]>> \in Digraphs =>
      breaks[i] > 1 /\ <<word[breaks[i] - 1], word[breaks[i]]>> \in Digraphs
=============================================================================
