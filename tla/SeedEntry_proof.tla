--------------------------- MODULE SeedEntry_proof ---------------------------
(***************************************************************************)
(* For every well-formed word list: whatever is pressed at the seed        *)
(* keyboard of                                                             *)
(* src/epmw_firmware/ui/screens/ui_seed_enter_screen.c, the text typed so  *)
(* far begins a word and leaves room in loaded_text_buffer.                *)
(***************************************************************************)
EXTENDS SeedEntry, FiniteSetTheorems, SequenceTheorems, WellFoundedInduction, TLAPS

USE WordAssumption

Word(i) == GetWord(List, i)
Beginning(s) == Hits(List, s, FALSE)

(* While keys are pressed: the text begins a word and is shorter than any  *)
(* word may be, and the keyboard offers what leads on from it, or nothing  *)
(* once the caption was asked for what follows it.                         *)
TypingOK ==
    /\ text \in Seq(Letters) /\ Len(text) < Longest
    /\ Beginning(text) # {}
    /\ enabled = NextChars(text) \/ (caption /\ enabled = {})
    /\ caption => text = <<>>

IInv ==
    /\ tap \in 0..2
    /\ pc \in {"keys", "tap"} => TypingOK

-----------------------------------------------------------------------------
(* Words                                                                   *)

(* What WellFormed says of the words, by their index.                      *)
LEMMA ListFacts ==
    /\ WordsCount(List) \in Nat
    /\ \A i \in WordIndices : Word(i) \in Seq(Letters) /\ Len(Word(i)) \in 1..Longest
    /\ \A i, j \in WordIndices : i < j => Precedes(Word(i), Word(j), Longest + 1)
    /\ \A c \in 1..(Alphabet + 1) : List.first_char_index_map[c] \in 0..WordsCount(List)
    /\ \A c \in 1..(Alphabet + 1), i \in WordIndices :
          i + 1 <= List.first_char_index_map[c] <=> At(Word(i), 1) < c
<1>1. WellFormed(List)
  BY SeedAssumption
<1>2. WordsCount(List) \in Nat /\ List.words \in Seq(Seq(Letters))
  BY <1>1, LenProperties DEF WellFormed, WordsCount
<1>3. ASSUME NEW i \in WordIndices
      PROVE  i + 1 \in 1..WordsCount(List) /\ i + 1 \in 1..Len(List.words)
  BY <1>2 DEF WordIndices, WordsCount
<1>4. ASSUME NEW i \in WordIndices
      PROVE  Word(i) \in Seq(Letters) /\ Len(Word(i)) \in 1..Longest
  <2>1. i + 1 \in 1..WordsCount(List) /\ i + 1 \in 1..Len(List.words)
    BY <1>3
  <2>2. List.words[i + 1] \in Seq(Letters)
    BY <1>2, <2>1, ElementOfSeq
  <2>3. Len(List.words[i + 1]) \in 1..Longest
    BY <1>1, <2>1 DEF WellFormed
  <2> QED
    BY <2>2, <2>3 DEF Word, GetWord
<1>5. ASSUME NEW i \in WordIndices, NEW j \in WordIndices, i < j
      PROVE  Precedes(Word(i), Word(j), Longest + 1)
  <2>1. i + 1 \in 1..WordsCount(List) /\ j + 1 \in 1..WordsCount(List) /\ i + 1 < j + 1
    BY <1>3, <1>5 DEF WordIndices
  <2> QED
    BY <1>1, <2>1 DEF WellFormed, Word, GetWord
<1>6. \A c \in 1..(Alphabet + 1) : List.first_char_index_map[c] \in 0..WordsCount(List)
  BY <1>1 DEF WellFormed
<1>7. ASSUME NEW c \in 1..(Alphabet + 1), NEW i \in WordIndices
      PROVE  i + 1 <= List.first_char_index_map[c] <=> At(Word(i), 1) < c
  <2>1. i + 1 \in 1..WordsCount(List)
    BY <1>3
  <2> QED
    BY <1>1, <2>1 DEF WellFormed, Word, GetWord
<1> QED
  BY <1>2, <1>4, <1>5, <1>6, <1>7

(* A string of letters has letters up to its end and the terminator behind *)
(* it.                                                                     *)
LEMMA CharOf ==
    ASSUME NEW s \in Seq(Letters), NEW j \in Nat \ {0}
    PROVE  /\ At(s, j) \in 0..Alphabet
           /\ j <= Len(s) => At(s, j) = s[j] /\ At(s, j) \in Letters
           /\ ~(j <= Len(s)) => At(s, j) = 0
<1>1. Len(s) \in Nat
  BY LenProperties
<1>2. CASE j <= Len(s)
  <2>1. j \in 1..Len(s)
    BY <1>1, <1>2
  <2>2. s[j] \in Letters
    BY <2>1, ElementOfSeq
  <2> QED
    BY <1>2, <2>2 DEF At, Letters
<1>3. CASE ~(j <= Len(s))
  BY <1>3 DEF At
<1> QED
  BY <1>2, <1>3

(* A word is hit by what it begins with, letter by letter.                 *)
LEMMA HitIs ==
    ASSUME NEW s \in Seq(Letters), NEW i
    PROVE  i \in Beginning(s) <=>
              i \in WordIndices /\ \A j \in 1..Len(s) : At(s, j) = At(Word(i), j)
BY DEF Beginning, Hits, SamePrefix, Depth, WordIndices, Word

(* Who begins with more, begins with less.                                 *)
LEMMA FrontBegins ==
    ASSUME NEW s \in Seq(Letters), s # <<>>
    PROVE  /\ Front(s) \in Seq(Letters) /\ Len(Front(s)) = Len(s) - 1
           /\ \A j \in 1..(Len(s) - 1) : Front(s)[j] = s[j]
           /\ Beginning(s) \subseteq Beginning(Front(s))
<1> DEFINE f == Front(s)
<1>1. Len(s) \in Nat /\ Len(s) > 0
  BY LenProperties, EmptySeq
<1>2. /\ f \in Seq(Letters) /\ Len(f) = Len(s) - 1
      /\ \A j \in 1..(Len(s) - 1) : f[j] = s[j]
  <2>1. \A j \in 1..(Len(s) - 1) : s[j] \in Letters
    BY <1>1, ElementOfSeq
  <2>2. /\ SubSeq(s, 1, Len(s) - 1) \in Seq(Letters)
        /\ Len(SubSeq(s, 1, Len(s) - 1)) = IF 1 <= Len(s) - 1 THEN Len(s) - 1 - 1 + 1 ELSE 0
        /\ \A j \in 1..(Len(s) - 1 - 1 + 1) : SubSeq(s, 1, Len(s) - 1)[j] = s[1 + j - 1]
    BY <1>1, <2>1, SubSeqProperties
  <2>3. f = SubSeq(s, 1, Len(s) - 1)
    BY DEF Front
  <2> HIDE DEF f
  <2>4. f \in Seq(Letters) /\ Len(f) = Len(s) - 1
    <3>1. f \in Seq(Letters)
      BY <2>2, <2>3
    <3>2. Len(f) = IF 1 <= Len(s) - 1 THEN Len(s) - 1 - 1 + 1 ELSE 0
      BY <2>2, <2>3
    <3>3. \A n \in Nat : n > 0 => (IF 1 <= n - 1 THEN n - 1 - 1 + 1 ELSE 0) = n - 1
      OBVIOUS
    <3> QED
      BY <1>1, <3>1, <3>2, <3>3
  <2>5. ASSUME NEW j \in 1..(Len(s) - 1) PROVE f[j] = s[j]
    <3>1. j \in 1..(Len(s) - 1 - 1 + 1) /\ 1 + j - 1 = j
      BY <1>1
    <3> QED
      BY <2>2, <2>3, <3>1
  <2> QED
    BY <2>4, <2>5
<1> HIDE DEF f
<1>3. ASSUME NEW i \in Beginning(s) PROVE i \in Beginning(f)
  <2>1. i \in WordIndices /\ \A j \in 1..Len(s) : At(s, j) = At(Word(i), j)
    BY HitIs
  <2>2. ASSUME NEW j \in 1..Len(f) PROVE At(f, j) = At(Word(i), j)
    <3>1. j \in 1..Len(s) /\ j \in Nat \ {0} /\ j <= Len(s) /\ j <= Len(f)
          /\ j \in 1..(Len(s) - 1)
      BY <1>1, <1>2
    <3>2. At(f, j) = f[j] /\ At(s, j) = s[j]
      BY <1>2, <3>1, CharOf
    <3> QED
      BY <1>2, <2>1, <3>1, <3>2
  <2> QED
    BY <1>2, <2>1, <2>2, HitIs
<1> QED
  BY <1>2, <1>3 DEF f

(* The next letter of a word leads on to that word.                        *)
LEMMA NextLetterBegins ==
    ASSUME NEW s \in Seq(Letters), NEW i \in Beginning(s), NEW c \in Letters,
           At(Word(i), Len(s) + 1) = c
    PROVE  /\ Append(s, c) \in Seq(Letters) /\ Len(Append(s, c)) = Len(s) + 1
           /\ i \in Beginning(Append(s, c))
<1> DEFINE q == Append(s, c)
<1>1. /\ q \in Seq(Letters) /\ Len(q) = Len(s) + 1 /\ Len(s) \in Nat
      /\ \A j \in 1..Len(s) : q[j] = s[j]
      /\ q[Len(s) + 1] = c
  BY AppendProperties, LenProperties
<1> HIDE DEF q
<1>2. i \in WordIndices /\ \A j \in 1..Len(s) : At(s, j) = At(Word(i), j)
  BY HitIs
<1>3. ASSUME NEW j \in 1..Len(q) PROVE At(q, j) = At(Word(i), j)
  <2>1. j \in Nat \ {0} /\ j <= Len(q) /\ (j \in 1..Len(s) \/ j = Len(s) + 1)
    BY <1>1
  <2>2. At(q, j) = q[j]
    BY <1>1, <2>1, CharOf
  <2>3. CASE j \in 1..Len(s)
    <3>1. At(s, j) = s[j]
      BY <1>1, <2>1, <2>3, CharOf
    <3> QED
      BY <1>1, <1>2, <2>2, <2>3, <3>1
  <2>4. CASE j = Len(s) + 1
    BY <1>1, <2>2, <2>4
  <2> QED
    BY <2>1, <2>3, <2>4
<1>4. i \in Beginning(q)
  BY <1>1, <1>2, <1>3, HitIs
<1> QED
  BY <1>1, <1>4 DEF q

-----------------------------------------------------------------------------
(* Hints                                                                   *)

(* The order of the naturals, as a relation.                               *)
Below == {pair \in Nat \X Nat : pair[1] < pair[2]}

(* A set of naturals that is not empty has a least element.                *)
LEMMA LeastElement ==
    ASSUME NEW T \in SUBSET Nat, T # {}
    PROVE  \E x \in T : \A y \in T : x <= y
<1>1. IsWellFoundedOn(Below, Nat)
  BY NatLessThanWellFounded DEF OpToRel, Below
<1>2. \A x, y \in Nat : y < x => <<y, x>> \in Below
  BY DEF Below
<1>3. PICK x \in T : \A y \in T : <<y, x>> \notin Below
  BY <1>1, WFMin
<1>4. ASSUME NEW y \in T PROVE x <= y
  <2>1. x \in Nat /\ y \in Nat
    OBVIOUS
  <2>2. ~(y < x)
    BY <1>2, <1>3, <2>1
  <2> QED
    BY <2>1, <2>2
<1> QED
  BY <1>4

(* Of a run of indices, as many as it has are in it from the first on.     *)
LEMMA RunIsInside ==
    ASSUME NEW T \in SUBSET Nat, NEW a \in T, \A y \in T : a <= y,
           \A k \in T : a..k \subseteq T, IsFiniteSet(T),
           NEW i \in Nat, i < Cardinality(T)
    PROVE  a + i \in T
<1> SUFFICES ASSUME a + i \notin T PROVE FALSE
  OBVIOUS
<1>1. a \in Nat
  OBVIOUS
<1> DEFINE b == a + i - 1
<1>2. T \in SUBSET (a..b)
  <2> SUFFICES ASSUME NEW k \in T PROVE k \in a..b
    OBVIOUS
  <2>1. k \in Nat /\ a <= k /\ a..k \subseteq T
    OBVIOUS
  <2>2. ~(a + i <= k)
    <3> SUFFICES ASSUME a + i <= k PROVE FALSE
      OBVIOUS
    <3>1. a + i \in a..k
      BY <1>1, <2>1
    <3> QED
      BY <2>1, <3>1
  <2> QED
    BY <1>1, <2>1, <2>2
<1>3. b \in Int /\ a \in Int /\ (a > b => i = 0) /\ b - a + 1 = i
  BY <1>1
<1> HIDE DEF b
<1>4. IsFiniteSet(a..b) /\ Cardinality(a..b) = IF a > b THEN 0 ELSE b - a + 1
  BY <1>3, FS_Interval
<1>5. Cardinality(T) <= Cardinality(a..b)
  BY <1>2, <1>4, FS_Subset
<1>6. Cardinality(T) \in Nat
  BY FS_CardinalityType
<1>7. Cardinality(a..b) = i
  BY <1>3, <1>4
<1> QED
  BY <1>5, <1>6, <1>7

(* The first letter of what hits a word is the word's.                     *)
LEMMA FirstOfHit ==
    ASSUME NEW s \in Seq(Letters), s # <<>>
    PROVE  /\ At(s, 1) \in Letters /\ 1 \in 1..Len(s)
           /\ \A i \in Beginning(s) : i \in WordIndices /\ At(Word(i), 1) = At(s, 1)
<1>1. Len(s) \in Nat /\ Len(s) > 0
  BY LenProperties, EmptySeq
<1>2. 1 \in 1..Len(s) /\ 1 \in Nat \ {0} /\ 1 <= Len(s)
  BY <1>1
<1>3. At(s, 1) \in Letters
  BY <1>2, CharOf
<1> QED
  BY <1>2, <1>3, HitIs

(* What lies between two words that begin with a text begins with it.      *)
LEMMA BetweenBegins ==
    ASSUME NEW s \in Seq(Letters), NEW k \in Beginning(s), NEW m \in Beginning(s),
           NEW i \in k..m
    PROVE  i \in Beginning(s)
<1>1. /\ k \in WordIndices /\ \A j \in 1..Len(s) : At(s, j) = At(Word(k), j)
      /\ m \in WordIndices /\ \A j \in 1..Len(s) : At(s, j) = At(Word(m), j)
  BY HitIs
<1>2. WordsCount(List) \in Nat /\ Len(s) \in Nat
  BY ListFacts, LenProperties
<1>3. i \in WordIndices /\ k \in Int /\ m \in Int /\ k <= i /\ i <= m
  BY <1>1, <1>2 DEF WordIndices
<1>4. CASE i = k \/ i = m
  BY <1>4
<1>5. CASE k < i /\ i < m
  <2> SUFFICES ASSUME i \notin Beginning(s) PROVE FALSE
    OBVIOUS
  <2> DEFINE apart == {j \in 1..Len(s) : At(s, j) # At(Word(i), j)}
  <2>1. apart # {} /\ apart \in SUBSET Nat
    BY <1>3, HitIs
  <2>2. PICK j \in apart : \A p \in apart : j <= p
    <3> HIDE DEF apart
    <3> QED
      BY <2>1, LeastElement
  <2>3. /\ j \in 1..Len(s) /\ At(s, j) # At(Word(i), j)
        /\ \A p \in 1..(j - 1) : At(s, p) = At(Word(i), p)
    <3>1. j \in 1..Len(s) /\ At(s, j) # At(Word(i), j)
      BY <2>2
    <3>2. ASSUME NEW p \in 1..(j - 1) PROVE At(s, p) = At(Word(i), p)
      <4>1. p \in 1..Len(s) /\ ~(j <= p)
        BY <1>2, <3>1
      <4> QED
        BY <2>2, <4>1
    <3> QED
      BY <3>1, <3>2
  <2>4. At(s, j) \in Int /\ At(Word(i), j) \in Int
    <3>1. Word(i) \in Seq(Letters) /\ j \in Nat \ {0}
      BY <1>2, <1>3, <2>3, ListFacts
    <3>2. At(s, j) \in 0..Alphabet /\ At(Word(i), j) \in 0..Alphabet
      BY <3>1, CharOf
    <3> QED
      BY <3>2
  <2>5. At(s, j) < At(Word(i), j)
    <3>1. PICK p \in 1..(Longest + 1) :
            /\ At(Word(k), p) < At(Word(i), p)
            /\ \A q \in 1..(p - 1) : At(Word(k), q) = At(Word(i), q)
      BY <1>1, <1>3, <1>5, ListFacts DEF Precedes
    <3>2. ~(p < j)
      <4> SUFFICES ASSUME p < j PROVE FALSE
        OBVIOUS
      <4>1. p \in 1..(j - 1) /\ p \in 1..Len(s)
        BY <1>2, <2>3
      <4>2. At(Word(k), p) = At(Word(i), p)
        BY <1>1, <2>3, <4>1
      <4>3. At(Word(k), p) \in 0..Alphabet
        BY <1>1, <3>1, ListFacts, CharOf
      <4> QED
        BY <3>1, <4>2, <4>3
    <3>3. ~(j < p)
      <4> SUFFICES ASSUME j < p PROVE FALSE
        OBVIOUS
      <4>1. j \in 1..(p - 1)
        BY <1>2, <2>3
      <4> QED
        BY <1>1, <2>3, <3>1, <4>1
    <3>4. p = j
      BY <1>2, <2>3, <3>2, <3>3
    <3> QED
      BY <1>1, <2>3, <3>1, <3>4
  <2>6. At(Word(i), j) < At(s, j)
    <3>1. PICK p \in 1..(Longest + 1) :
            /\ At(Word(i), p) < At(Word(m), p)
            /\ \A q \in 1..(p - 1) : At(Word(i), q) = At(Word(m), q)
      BY <1>1, <1>3, <1>5, ListFacts DEF Precedes
    <3>2. ~(p < j)
      <4> SUFFICES ASSUME p < j PROVE FALSE
        OBVIOUS
      <4>1. p \in 1..(j - 1) /\ p \in 1..Len(s)
        BY <1>2, <2>3
      <4>2. At(Word(m), p) = At(Word(i), p)
        BY <1>1, <2>3, <4>1
      <4>3. At(Word(m), p) \in 0..Alphabet
        BY <1>1, <3>1, ListFacts, CharOf
      <4> QED
        BY <3>1, <4>2, <4>3
    <3>3. ~(j < p)
      <4> SUFFICES ASSUME j < p PROVE FALSE
        OBVIOUS
      <4>1. j \in 1..(p - 1)
        BY <1>2, <2>3
      <4> QED
        BY <1>1, <2>3, <3>1, <4>1
    <3>4. p = j
      BY <1>2, <2>3, <3>2, <3>3
    <3> QED
      BY <1>1, <2>3, <3>1, <3>4
  <2> QED
    BY <2>4, <2>5, <2>6
<1> QED
  BY <1>3, <1>4, <1>5

(* A hint is the first of the words that begin with the text, and counts   *)
(* them all.                                                               *)
LEMMA HintCounts ==
    ASSUME NEW s \in Seq(Letters), s # <<>>, Beginning(s) # {}
    PROVE  /\ Hint(s).index \in Beginning(s)
           /\ IsFiniteSet(Beginning(s)) /\ Cardinality(Beginning(s)) \in Nat
           /\ Hint(s).n = Cardinality(Beginning(s))
           /\ \A i \in 0..(Hint(s).n - 1) : Hint(s).index + i \in Beginning(s)
<1> DEFINE c == At(s, 1)
           from == List.first_char_index_map[c]
           next == List.first_char_index_map[c + 1]
           last == next - 1
           hits == Beginning(s) \ 0..(from - 1)
           first == Earliest(hits, Invalid)
           run == {k \in hits : first..k \subseteq hits}
<1>1. c \in Letters /\ 1 \in 1..Len(s)
  BY FirstOfHit
<1>2. c \in Nat /\ c \in 1..(Alphabet + 1) /\ c + 1 \in 1..(Alphabet + 1)
  BY <1>1 DEF Letters
<1>3. /\ from \in 0..WordsCount(List) /\ next \in 0..WordsCount(List)
      /\ WordsCount(List) \in Nat /\ from \in Int /\ last \in Int
  BY <1>2, ListFacts
<1>4. next - from < CountWrap /\ CountWrap \in Nat
  BY <1>1, SeedAssumption
<1>5. ASSUME NEW i \in WordIndices
      PROVE  At(Word(i), 1) = c <=> i \in from..last
  <2>1. /\ i + 1 <= from <=> At(Word(i), 1) < c
        /\ i + 1 <= next <=> At(Word(i), 1) < c + 1
    BY <1>2, ListFacts
  <2>2. At(Word(i), 1) \in Int /\ i \in Int
    <3>1. At(Word(i), 1) \in 0..Alphabet
      BY ListFacts, CharOf
    <3> QED
      BY <3>1 DEF WordIndices
  <2> HIDE DEF c, from, next
  <2> QED
    BY <1>2, <1>3, <2>1, <2>2 DEF last
<1>6. Beginning(s) \in SUBSET (from..last)
  <2> SUFFICES ASSUME NEW i \in Beginning(s) PROVE i \in from..last
    OBVIOUS
  <2>1. i \in WordIndices /\ At(Word(i), 1) = c
    BY FirstOfHit
  <2> HIDE DEF c, from, last
  <2> QED
    BY <1>5, <2>1
<1>7. PICK i : i \in Beginning(s)
  OBVIOUS
<1>8. At(Word(from), 1) = c /\ from <= last
  <2>1. i \in WordIndices /\ i \in from..last
    BY <1>6, <1>7, HitIs
  <2> HIDE DEF c, from, last
  <2>2. from \in WordIndices /\ from \in from..last
    BY <1>3, <2>1 DEF WordIndices
  <2> QED
    BY <1>3, <1>5, <2>2
<1>9. hits = Beginning(s)
  <2>1. \A k \in from..last : k \notin 0..(from - 1)
    BY <1>3
  <2> HIDE DEF from, last
  <2> QED
    BY <1>6, <2>1
<1>10. IsFiniteSet(from..last) /\ Cardinality(from..last) = next - from
  <2> HIDE DEF from, next
  <2>1. IsFiniteSet(from..last) /\ Cardinality(from..last) = IF from > last THEN 0 ELSE last - from + 1
    <3> HIDE DEF last
    <3> QED
      BY <1>3, FS_Interval
  <2> QED
    BY <1>3, <1>8, <2>1
<1>11. /\ IsFiniteSet(Beginning(s)) /\ Cardinality(Beginning(s)) \in Nat
       /\ Cardinality(Beginning(s)) <= next - from
  <2> HIDE DEF from, last, next
  <2> QED
    BY <1>6, <1>10, FS_Subset, FS_CardinalityType
<1>12. Cardinality(Beginning(s)) % CountWrap = Cardinality(Beginning(s))
  <2> DEFINE size == Cardinality(Beginning(s))
  <2>1. size \in Nat /\ size < CountWrap
    <3> HIDE DEF from, next
    <3> QED
      BY <1>3, <1>4, <1>11
  <2> HIDE DEF size
  <2>2. size % CountWrap = size
    BY <1>4, <2>1
  <2> QED
    BY <2>2 DEF size
<1>13. /\ Len(s) = 1 => /\ Hint(s).index = from
                        /\ Hint(s).n = (next - from) % CountWrap
       /\ Len(s) # 1 => /\ Hint(s).index = first
                        /\ Hint(s).n = Cardinality(run) % CountWrap
  BY <1>1, <1>8, <1>9 DEF Hint, Beginning, Word
<1>14. CASE Len(s) = 1
  <2>1. from..last \in SUBSET Beginning(s)
    <3> SUFFICES ASSUME NEW k \in from..last PROVE k \in Beginning(s)
      OBVIOUS
    <3>1. k \in WordIndices
      BY <1>3 DEF WordIndices
    <3>2. At(Word(k), 1) = c
      BY <1>5, <3>1
    <3>3. \A j \in 1..Len(s) : At(s, j) = At(Word(k), j)
      BY <1>14, <3>2
    <3> QED
      BY <3>1, <3>3, HitIs
  <2>2. Beginning(s) = from..last
    BY <1>6, <2>1
  <2> HIDE DEF from, next
  <2>3. Hint(s).n = next - from /\ Hint(s).index = from
    BY <1>10, <1>12, <1>13, <1>14, <2>2
  <2>4. from \in from..last /\ \A k \in 0..(next - from - 1) : from + k \in from..last
    BY <1>3, <1>8
  <2> HIDE DEF last
  <2> QED
    BY <1>10, <1>11, <2>2, <2>3, <2>4
<1>15. CASE Len(s) # 1
  <2>1. first \in Beginning(s) /\ \A k \in Beginning(s) : first <= k
    <3>1. Beginning(s) \in SUBSET Nat
      BY <1>3, <1>6
    <3>2. \E x \in Beginning(s) : \A y \in Beginning(s) : x <= y
      BY <1>7, <3>1, LeastElement
    <3> QED
      BY <1>9, <3>2 DEF Earliest
  <2> HIDE DEF first, hits
  <2>2. \A k \in Beginning(s) : first..k \subseteq Beginning(s)
    BY <2>1, BetweenBegins
  <2>3. run = Beginning(s)
    BY <1>9, <2>2
  <2>4. Hint(s).n = Cardinality(Beginning(s)) /\ Hint(s).index = first
    BY <1>12, <1>13, <1>15, <2>3
  <2>5. ASSUME NEW k \in 0..(Cardinality(Beginning(s)) - 1)
        PROVE  first + k \in Beginning(s)
    <3>1. Beginning(s) \in SUBSET Nat
      BY <1>3, <1>6
    <3>2. k \in Nat /\ k < Cardinality(Beginning(s))
      BY <1>11
    <3> DEFINE T == Beginning(s)
    <3>3. /\ T \in SUBSET Nat /\ first \in T /\ \A y \in T : first <= y
          /\ \A y \in T : first..y \subseteq T
          /\ IsFiniteSet(T) /\ k < Cardinality(T)
      BY <1>11, <2>1, <2>2, <3>1, <3>2
    <3> HIDE DEF T
    <3>4. first + k \in T
      BY <3>2, <3>3, RunIsInside
    <3> QED
      BY <3>4 DEF T
  <2> QED
    BY <1>11, <2>1, <2>4, <2>5
<1> QED
  BY <1>14, <1>15

(* A character the keyboard offers is the next one of a word that the text *)
(* begins, or the end mark of a word that it is.                           *)
LEMMA OfferedLeads ==
    ASSUME NEW s \in Seq(Letters), Beginning(s) # {}, NEW c \in NextChars(s)
    PROVE  /\ c \in 1..EndMark
           /\ \E i \in Beginning(s) :
                 c = IF At(Word(i), Len(s) + 1) = 0 THEN EndMark ELSE At(Word(i), Len(s) + 1)
<1>1. CASE s = <<>>
  <2>1. c \in Letters \ Missing /\ Len(s) = 0
    BY <1>1 DEF NextChars
  <2>2. PICK i \in WordIndices : At(Word(i), 1) = c
    BY <2>1, SeedAssumption DEF Word
  <2>3. \A j \in 1..Len(s) : At(s, j) = At(Word(i), j)
    BY <2>1
  <2>4. i \in Beginning(s)
    BY <2>3, HitIs
  <2>5. c # 0 /\ Len(s) + 1 = 1 /\ c \in 1..EndMark
    BY <2>1 DEF Letters, EndMark
  <2> QED
    BY <2>2, <2>4, <2>5
<1>2. CASE s # <<>>
  <2>1. PICK k \in 0..(Hint(s).n - 1) :
          /\ Hint(s).index # Invalid
          /\ c = IF At(Word(Hint(s).index + k), Len(s) + 1) = 0 THEN EndMark
                 ELSE At(Word(Hint(s).index + k), Len(s) + 1)
    BY <1>2 DEF NextChars, Word
  <2>2. Hint(s).index + k \in Beginning(s)
    BY <1>2, <2>1, HintCounts
  <2>3. Hint(s).index + k \in WordIndices
    BY <2>2, HitIs
  <2>4. At(Word(Hint(s).index + k), Len(s) + 1) \in 0..Alphabet
    <3>1. Len(s) + 1 \in Nat \ {0}
      BY LenProperties
    <3> QED
      BY <2>3, <3>1, ListFacts, CharOf
  <2>5. c \in 1..EndMark
    BY <2>1, <2>4 DEF EndMark
  <2> QED
    BY <2>1, <2>2, <2>5
<1> QED
  BY <1>1, <1>2

-----------------------------------------------------------------------------
(* The character of a key                                                  *)

(* In a finite set of naturals every rank below its size is taken.         *)
LEMMA Ranked ==
    ASSUME NEW N \in Nat, NEW T \in SUBSET (0..N), NEW r \in Nat, r < Cardinality(T)
    PROVE  \E c \in T : Cardinality({d \in T : d < c}) = r
<1> DEFINE under(x) == {d \in T : d < x}
           more == {x \in Nat : Cardinality(under(x)) > r}
<1>1. IsFiniteSet(T)
  <2>1. 0 \in Int /\ N \in Int
    OBVIOUS
  <2>2. IsFiniteSet(0..N)
    BY <2>1, FS_Interval
  <2> QED
    BY <2>2, FS_Subset
<1>2. ASSUME NEW x
      PROVE  IsFiniteSet(under(x)) /\ Cardinality(under(x)) \in Nat
  <2>1. under(x) \in SUBSET T
    OBVIOUS
  <2> HIDE DEF under
  <2> QED
    BY <1>1, <2>1, FS_Subset, FS_CardinalityType
<1>3. N + 1 \in more
  <2>1. under(N + 1) = T
    <3>1. \A d \in T : d < N + 1
      OBVIOUS
    <3> QED
      BY <3>1
  <2> HIDE DEF under
  <2> QED
    BY <2>1
<1>4. 0 \notin more
  <2>1. under(0) = {}
    <3>1. \A d \in T : ~(d < 0)
      OBVIOUS
    <3> QED
      BY <3>1
  <2> HIDE DEF under
  <2>2. Cardinality(under(0)) = 0
    BY <2>1, FS_EmptySet
  <2> QED
    BY <2>2
<1>5. PICK x \in more : \A y \in more : x <= y
  <2>1. more \in SUBSET Nat /\ more # {}
    BY <1>3
  <2> HIDE DEF more
  <2> QED
    BY <2>1, LeastElement
<1>6. x \in Nat /\ x > 0 /\ x - 1 \in Nat /\ x - 1 \notin more
  <2>1. x \in Nat /\ x # 0
    BY <1>4, <1>5
  <2>2. x - 1 \in Nat /\ x > 0 /\ ~(x <= x - 1)
    BY <2>1
  <2> QED
    BY <1>5, <2>1, <2>2
<1>7. Cardinality(under(x)) > r /\ ~(Cardinality(under(x - 1)) > r)
  BY <1>5, <1>6
<1>8. under(x) = under(x - 1) \cup ({x - 1} \cap T)
  <2>1. \A d \in T : d < x <=> d < x - 1 \/ d = x - 1
    BY <1>6
  <2> QED
    BY <2>1
<1>9. x - 1 \in T
  <2> SUFFICES ASSUME x - 1 \notin T PROVE FALSE
    OBVIOUS
  <2>1. under(x) = under(x - 1)
    BY <1>8
  <2> HIDE DEF under
  <2> QED
    BY <1>7, <2>1
<1>10. x - 1 \notin under(x - 1) /\ under(x) = under(x - 1) \cup {x - 1}
  BY <1>6, <1>8, <1>9
<1> HIDE DEF under
<1>11. IsFiniteSet(under(x - 1)) /\ Cardinality(under(x - 1)) \in Nat
  BY <1>2
<1>12. Cardinality(under(x)) = Cardinality(under(x - 1)) + 1
  BY <1>10, <1>11, FS_AddElement
<1>13. Cardinality(under(x - 1)) = r
  BY <1>7, <1>11, <1>12
<1> QED
  BY <1>9, <1>13 DEF under

(* The character taps arrive at is one the key offers, if it offers any.   *)
LEMMA PressedIsOnKey ==
    ASSUME NEW key, NEW taps \in Nat, enabled \in SUBSET (1..EndMark)
    PROVE  /\ OnKey(key) = {} => PressedChar(key, taps) = 0
           /\ OnKey(key) # {} => PressedChar(key, taps) \in enabled \cap OnKey(key)
           /\ PressedChar(key, taps) \in Nat
           /\ PressedChar(key, taps) = 0 <=> OnKey(key) = {}
<1> DEFINE chars == OnKey(key)
<1>1. EndMark \in Nat
  BY DEF EndMark
<1>2. chars \in SUBSET enabled /\ chars \in SUBSET (0..EndMark)
  <2>1. chars \in SUBSET enabled
    BY Zenon DEF OnKey
  <2> HIDE DEF chars
  <2> QED
    BY <1>1, <2>1
<1>3. chars = {} => PressedChar(key, taps) = 0
  BY DEF PressedChar
<1>4. ASSUME chars # {} PROVE PressedChar(key, taps) \in chars
  <2> HIDE DEF chars
  <2>1. IsFiniteSet(chars)
    <3>1. 0 \in Int /\ EndMark \in Int
      BY <1>1
    <3>2. IsFiniteSet(0..EndMark)
      BY <3>1, FS_Interval
    <3> QED
      BY <1>2, <3>2, FS_Subset
  <2>2. Cardinality(chars) \in Nat /\ Cardinality(chars) # 0
    BY <1>4, <2>1, FS_CardinalityType, FS_EmptySet
  <2> DEFINE r == taps % Cardinality(chars)
  <2>3. r \in Nat /\ r < Cardinality(chars)
    BY <2>2
  <2> HIDE DEF r
  <2>4. \E c \in chars : Cardinality({d \in chars : d < c}) = r
    BY <1>1, <1>2, <2>3, Ranked
  <2>5. PressedChar(key, taps) = CHOOSE c \in chars : Cardinality({d \in chars : d < c}) = r
    BY <1>4 DEF PressedChar, chars, r
  <2> QED
    BY <2>4, <2>5
<1> HIDE DEF chars
<1>5. chars # {} => PressedChar(key, taps) \in 1..EndMark
  BY <1>2, <1>4
<1>6. PressedChar(key, taps) \in Nat /\ (PressedChar(key, taps) = 0 <=> chars = {})
  BY <1>1, <1>3, <1>5
<1> QED
  BY <1>2, <1>3, <1>4, <1>6 DEF chars

-----------------------------------------------------------------------------
(* Taking a character                                                      *)

(* A text of letters does not end in the mark.                             *)
LEMMA NoMark ==
    ASSUME NEW s \in Seq(Letters), s # <<>>
    PROVE  s[Len(s)] # EndMark
<1>1. Len(s) \in Nat /\ Len(s) > 0
  BY LenProperties, EmptySeq
<1>2. Len(s) \in 1..Len(s)
  BY <1>1
<1>3. s[Len(s)] \in Letters
  BY <1>2, ElementOfSeq
<1> QED
  BY <1>3 DEF Letters, EndMark

(* Where the end mark is offered the text is a word, and is accepted.      *)
LEMMA MarkAccepted ==
    ASSUME NEW s \in Seq(Letters), Len(s) < Longest, Beginning(s) # {},
           EndMark \in NextChars(s)
    PROVE  Accept(Append(s, EndMark))
<1> DEFINE q == Append(s, EndMark)
<1>1. PICK i \in Beginning(s) :
        EndMark = IF At(Word(i), Len(s) + 1) = 0 THEN EndMark ELSE At(Word(i), Len(s) + 1)
  BY OfferedLeads
<1>2. i \in WordIndices /\ \A j \in 1..Len(s) : At(s, j) = At(Word(i), j)
  BY HitIs
<1>3. Word(i) \in Seq(Letters) /\ Len(Word(i)) \in Nat /\ Len(s) \in Nat
  BY <1>2, ListFacts, LenProperties
<1>4. At(Word(i), Len(s) + 1) = 0 /\ ~(Len(s) + 1 <= Len(Word(i)))
  <2>1. Len(s) + 1 \in Nat \ {0}
    BY <1>3
  <2>2. /\ At(Word(i), Len(s) + 1) \in 0..Alphabet
        /\ Len(s) + 1 <= Len(Word(i)) => At(Word(i), Len(s) + 1) \in Letters
    BY <1>3, <2>1, CharOf
  <2>3. At(Word(i), Len(s) + 1) # EndMark
    BY <2>2 DEF EndMark
  <2> QED
    BY <1>1, <2>2, <2>3 DEF Letters
<1>5. ASSUME NEW j \in 1..(Longest + 1) PROVE At(s, j) = At(Word(i), j)
  <2>1. CASE j <= Len(s)
    <3>1. j \in 1..Len(s)
      BY <1>3, <2>1
    <3> QED
      BY <1>2, <3>1
  <2>2. CASE ~(j <= Len(s))
    <3>1. j \in Nat \ {0} /\ ~(j <= Len(Word(i)))
      BY <1>3, <1>4, <2>2
    <3> QED
      BY <1>3, <2>2, <3>1, CharOf
  <2> QED
    BY <2>1, <2>2
<1>6. Hits(List, s, TRUE) # {}
  BY <1>2, <1>5 DEF Hits, SamePrefix, Depth, WordIndices, Word
<1>7. Len(q) = Len(s) + 1 /\ q[Len(q)] = EndMark /\ Front(q) = s
  <2>1. EndMark \in Nat /\ s \in Seq(Nat)
    <3>1. Letters \subseteq Nat
      BY DEF Letters
    <3>2. \A j \in 1..Len(s) : s[j] \in Nat
      BY <3>1, ElementOfSeq
    <3> QED
      BY <3>2 DEF EndMark
  <2>2. /\ q \in Seq(Nat) /\ Len(q) = Len(s) + 1 /\ q[Len(s) + 1] = EndMark
    BY <2>1, AppendProperties
  <2>3. SubSeq(q, 1, Len(s)) = s
    BY <2>1
  <2>4. Len(q) - 1 = Len(s)
    BY <1>3, <2>2
  <2> QED
    BY <2>2, <2>3, <2>4 DEF Front
<1> HIDE DEF q
<1>8. Len(q) <= Longest
  BY <1>3, <1>7
<1> QED
  BY <1>6, <1>7, <1>8 DEF Accept, q

(* Two indices of one word are one.                                        *)
LEMMA OneIndex ==
    ASSUME NEW k \in WordIndices, NEW i \in WordIndices,
           \A j \in 1..(Longest + 1) : At(Word(k), j) = At(Word(i), j)
    PROVE  k = i
<1>1. ASSUME NEW a \in WordIndices, NEW b \in WordIndices, a < b,
             \A j \in 1..(Longest + 1) : At(Word(a), j) = At(Word(b), j)
      PROVE  FALSE
  <2>1. PICK j \in 1..(Longest + 1) : At(Word(a), j) < At(Word(b), j)
    BY <1>1, ListFacts DEF Precedes
  <2>2. At(Word(a), j) \in 0..Alphabet /\ At(Word(a), j) = At(Word(b), j)
    <3>1. Word(a) \in Seq(Letters) /\ j \in Nat \ {0}
      BY ListFacts
    <3> QED
      BY <1>1, <3>1, CharOf
  <2> QED
    BY <2>1, <2>2
<1>2. ~(k < i) /\ ~(i < k)
  BY <1>1
<1>3. k \in Int /\ i \in Int
  BY DEF WordIndices
<1> QED
  BY <1>2, <1>3

(* A text as long as words get is one word, so there is one hint for it.   *)
LEMMA LongestAccepted ==
    ASSUME NEW s \in Seq(Letters), Len(s) = Longest, Beginning(s) # {}
    PROVE  Accept(s)
<1>1. PICK i : i \in Beginning(s)
  OBVIOUS
<1>2. s # <<>>
  BY EmptySeq
<1>3. ASSUME NEW k \in Beginning(s) PROVE k = i
  <2>1. /\ i \in WordIndices /\ \A j \in 1..Len(s) : At(s, j) = At(Word(i), j)
        /\ k \in WordIndices /\ \A j \in 1..Len(s) : At(s, j) = At(Word(k), j)
    BY <1>1, HitIs
  <2>2. ASSUME NEW j \in 1..(Longest + 1) PROVE At(Word(k), j) = At(Word(i), j)
    <3>1. CASE j <= Longest
      <4>1. j \in 1..Len(s)
        BY <3>1
      <4> QED
        BY <2>1, <4>1
    <3>2. CASE ~(j <= Longest)
      <4>1. /\ Word(k) \in Seq(Letters) /\ Len(Word(k)) \in 1..Longest
            /\ Word(i) \in Seq(Letters) /\ Len(Word(i)) \in 1..Longest
        BY <2>1, ListFacts
      <4>2. j \in Nat \ {0} /\ ~(j <= Len(Word(k))) /\ ~(j <= Len(Word(i)))
        BY <3>2, <4>1
      <4> QED
        BY <4>1, <4>2, CharOf
    <3> QED
      BY <3>1, <3>2
  <2> QED
    BY <2>1, <2>2, OneIndex
<1>4. Beginning(s) = {i}
  BY <1>1, <1>3
<1>5. Hint(s).index = i /\ Hint(s).n = 1
  BY <1>2, <1>4, HintCounts, FS_Singleton
<1>6. i # Invalid
  BY <1>1, HitIs, SeedAssumption
<1> QED
  BY <1>2, <1>5, <1>6, NoMark DEF Accept

(* An offered letter that completes no word leaves a shorter text that     *)
(* still begins one.                                                       *)
LEMMA LetterGoesOn ==
    ASSUME NEW s \in Seq(Letters), Len(s) < Longest, Beginning(s) # {},
           NEW c \in NextChars(s), c # EndMark, ~Accept(Append(s, c))
    PROVE  /\ Append(s, c) \in Seq(Letters)
           /\ Len(Append(s, c)) < Longest
           /\ Beginning(Append(s, c)) # {}
<1>1. PICK i \in Beginning(s) :
        c = IF At(Word(i), Len(s) + 1) = 0 THEN EndMark ELSE At(Word(i), Len(s) + 1)
  BY OfferedLeads
<1>2. c \in Letters /\ At(Word(i), Len(s) + 1) = c
  <2>1. c \in 1..EndMark
    BY OfferedLeads
  <2> QED
    BY <1>1, <2>1 DEF EndMark, Letters
<1> DEFINE q == Append(s, c)
<1>3. q \in Seq(Letters) /\ Len(q) = Len(s) + 1 /\ i \in Beginning(q)
  BY <1>2, NextLetterBegins
<1> HIDE DEF q
<1>4. Len(q) # Longest
  <2>1. ~Accept(q)
    BY DEF q
  <2> QED
    BY <1>3, <2>1, LongestAccepted
<1>5. Len(s) \in Nat /\ Longest \in Nat
  BY LenProperties
<1> QED
  BY <1>3, <1>4, <1>5 DEF q

(* Where a word begins the keyboard has a key for going on.                *)
LEMMA SomethingOffered ==
    ASSUME NEW s \in Seq(Letters), Beginning(s) # {}
    PROVE  NextChars(s) # {}
<1>1. CASE s = <<>>
  BY <1>1, SeedAssumption DEF NextChars
<1>2. CASE s # <<>>
  <2>1. /\ Hint(s).index \in WordIndices
        /\ IsFiniteSet(Beginning(s)) /\ Cardinality(Beginning(s)) \in Nat
        /\ Hint(s).n = Cardinality(Beginning(s))
    BY <1>2, HintCounts, HitIs
  <2>2. Hint(s).n # 0
    BY <2>1, FS_EmptySet
  <2>3. 0 \in 0..(Hint(s).n - 1)
    BY <2>1, <2>2
  <2>4. Hint(s).index # Invalid
    BY <2>1, SeedAssumption
  <2> QED
    BY <1>2, <2>3, <2>4 DEF NextChars
<1> QED
  BY <1>1, <1>2

(* An accepted text allows one word only, and the search answers with it.  *)
LEMMA OneAnswer ==
    ASSUME NEW s \in Seq(Letters), Beginning(s) # {}, NEW c \in NextChars(s),
           NEW q, q = Append(s, c), Accept(q), NEW w \in Answers(q)
    PROVE  /\ w \in WordIndices
           /\ {w} = IF q[Len(q)] = EndMark THEN Hits(List, Front(q), TRUE)
                    ELSE Hits(List, q, FALSE)
<1>1. CASE q[Len(q)] = EndMark
  <2> DEFINE hits == Hits(List, Front(q), TRUE)
  <2>1. hits # {} /\ w \in hits
    BY <1>1 DEF Accept, Answers
  <2>2. ASSUME NEW k \in hits
        PROVE  /\ k \in WordIndices
               /\ \A j \in 1..(Longest + 1) : At(Front(q), j) = At(Word(k), j)
    BY DEF Hits, SamePrefix, Depth, WordIndices, Word
  <2> HIDE DEF hits
  <2>3. ASSUME NEW k \in hits PROVE k = w
    BY <2>1, <2>2, OneIndex
  <2>4. {w} = hits
    BY <2>1, <2>3
  <2> QED
    BY <1>1, <2>1, <2>2, <2>4 DEF hits
<1>2. CASE q[Len(q)] # EndMark
  <2>1. c \in 1..EndMark
    BY OfferedLeads
  <2>2. PICK i \in Beginning(s) :
          c = IF At(Word(i), Len(s) + 1) = 0 THEN EndMark ELSE At(Word(i), Len(s) + 1)
    BY OfferedLeads
  <2>3. c # EndMark
    <3>1. Letters \subseteq Nat /\ c \in Nat
      BY <2>1 DEF Letters, EndMark
    <3>2. s \in Seq(Nat)
      <4>1. \A j \in 1..Len(s) : s[j] \in Nat
        BY <3>1, ElementOfSeq
      <4> QED
        BY <4>1
    <3>3. q[Len(q)] = c
      BY <3>1, <3>2, AppendProperties
    <3> QED
      BY <1>2, <3>3
  <2>4. c \in Letters /\ At(Word(i), Len(s) + 1) = c
    BY <2>1, <2>2, <2>3 DEF EndMark, Letters
  <2>5. q \in Seq(Letters) /\ q # <<>> /\ Beginning(q) # {}
    <3>1. q \in Seq(Letters) /\ Len(q) = Len(s) + 1 /\ i \in Beginning(q)
      BY <2>4, NextLetterBegins
    <3>2. Len(s) \in Nat /\ Len(s) + 1 # 0
      BY LenProperties
    <3> QED
      BY <3>1, <3>2, EmptySeq
  <2>6. Hint(q).n = 1 /\ Answers(q) = Beginning(q)
    BY <1>2, <2>5 DEF Accept, Answers, Beginning
  <2>7. IsFiniteSet(Beginning(q)) /\ Cardinality(Beginning(q)) = 1
    BY <2>5, <2>6, HintCounts
  <2>8. PICK x : Beginning(q) = {x}
    BY <2>7, FS_Singleton
  <2>9. Beginning(q) = {w}
    BY <2>6, <2>8
  <2>10. w \in WordIndices
    BY <2>5, <2>9, HitIs
  <2> QED
    BY <1>2, <2>9, <2>10 DEF Beginning
<1> QED
  BY <1>1, <1>2

-----------------------------------------------------------------------------
(* The invariant                                                           *)

(* A word is begun with nothing typed, which every word begins with.       *)
LEMMA NothingTyped ==
    ASSUME StartWord
    PROVE  IInv'
<1>1. text' = <<>> /\ enabled' = NextChars(<<>>) /\ tap' = 0
  BY DEF StartWord
<1>2. text' \in Seq(Letters) /\ Len(text') = 0
  BY <1>1
<1>3. PICK i : i \in WordIndices
  BY SeedAssumption
<1>4. \A j \in 1..Len(text') : At(text', j) = At(Word(i), j)
  BY <1>2
<1>5. i \in Beginning(text')
  BY <1>2, <1>3, <1>4, HitIs
<1>6. Beginning(text') # {}
  BY <1>5
<1>7. Len(text') < Longest
  BY <1>2
<1>8. enabled' = NextChars(text')
  BY <1>1
<1>9. TypingOK'
  BY <1>1, <1>2, <1>6, <1>7, <1>8 DEF TypingOK, Beginning
<1>10. tap' \in 0..2
  BY <1>1
<1> QED
  BY <1>9, <1>10 DEF IInv

(* Moving on and counting taps change nothing that was typed.              *)
LEMMA KeysAndTaps ==
    ASSUME IInv, PressLeft \/ Tap
    PROVE  IInv'
<1>1. UNCHANGED <<text, caption, enabled>> /\ pc \in {"keys", "tap"}
  BY DEF PressLeft, Tap
<1>2. TypingOK
  BY <1>1 DEF IInv
<1>3. TypingOK'
  BY <1>1, <1>2 DEF TypingOK, Beginning
<1>4. tap' \in 0..2
  <2>1. CASE PressLeft
    BY <2>1 DEF PressLeft, IInv
  <2>2. CASE Tap
    BY <2>2 DEF Tap, IInv
  <2> QED
    BY <2>1, <2>2
<1> QED
  BY <1>3, <1>4 DEF IInv

(* No word begins with the caption.                                        *)
LEMMA NothingFollowsCaption == NextChars(Caption) = {}
<1>1. Caption # <<>> /\ Len(Caption) = 1 /\ Caption[1] = EndMark + 1
  BY DEF Caption
<1>2. At(Caption, 1) = Alphabet + 2
  BY <1>1 DEF At, EndMark
<1>3. At(Caption, 1) \notin Letters
  BY <1>2 DEF Letters
<1>4. Hint(Caption) = [index |-> Invalid, n |-> 0]
  BY <1>3 DEF Hint
<1> QED
  BY <1>1, <1>4 DEF NextChars

(* Taking the last character back.                                         *)
LEMMA BackspaceKeeps ==
    ASSUME IInv, Backspace
    PROVE  IInv'
<1>1. /\ pc = "keys" /\ tap' = tap /\ caption' = caption
      /\ text' = IF text = <<>> THEN text ELSE Front(text)
      /\ enabled' = NextChars(IF caption THEN Caption ELSE text')
  BY DEF Backspace
<1>2. TypingOK
  BY <1>1 DEF IInv
<1>3. CASE text = <<>>
  <2>1. text' = text
    BY <1>1, <1>3
  <2>2. enabled' = IF caption THEN {} ELSE NextChars(text')
    BY <1>1, NothingFollowsCaption
  <2> QED
    BY <1>1, <1>2, <2>1, <2>2 DEF IInv, TypingOK, Beginning
<1>4. CASE text # <<>>
  <2>1. text' = Front(text)
    BY <1>1, <1>4
  <2>2. /\ Front(text) \in Seq(Letters) /\ Len(Front(text)) = Len(text) - 1
        /\ Beginning(text) \subseteq Beginning(Front(text))
    BY <1>2, <1>4, FrontBegins DEF TypingOK
  <2>3. Len(text) \in Nat
    BY <1>2, LenProperties DEF TypingOK
  <2>4. Len(Front(text)) < Longest
    BY <1>2, <2>2, <2>3 DEF TypingOK
  <2>5. Beginning(Front(text)) # {}
    BY <1>2, <2>2 DEF TypingOK
  <2>6. ~caption /\ enabled' = NextChars(text')
    BY <1>1, <1>2, <1>4 DEF TypingOK
  <2>7. TypingOK'
    BY <1>1, <2>1, <2>2, <2>4, <2>5, <2>6 DEF TypingOK, Beginning
  <2> QED
    BY <1>1, <2>7 DEF IInv
<1> QED
  BY <1>3, <1>4

(* The keyboard offers letters and the end mark.                           *)
LEMMA KeysOffered ==
    ASSUME TypingOK
    PROVE  enabled \in SUBSET (1..EndMark)
<1> SUFFICES ASSUME NEW d \in enabled PROVE d \in 1..EndMark
  OBVIOUS
<1>1. text \in Seq(Letters) /\ d \in NextChars(text) /\ Beginning(text) # {}
  BY DEF TypingOK
<1> QED
  BY <1>1, OfferedLeads

(* Taking the character shown: the end mark completes a word, a letter     *)
(* completes one or leaves the beginning of one.                           *)
LEMMA TakeKeeps ==
    ASSUME IInv, NEW left_pressed \in BOOLEAN, Take(left_pressed)
    PROVE  IInv'
<1> DEFINE c == PressedChar(active_idx, ShownTap)
<1>1. pc = "tap" /\ TypingOK /\ tap \in 0..2
  BY DEF Take, IInv
<1>2. /\ c = 0 => UNCHANGED <<text, caption, enabled>>
      /\ c # 0 => text' = Append(text, c) /\ ~caption' /\ enabled' = NextChars(text')
      /\ c # 0 /\ Accept(text') => pc' = "confirm" /\ tap' = tap
      /\ ~(c # 0 /\ Accept(text')) => pc' = "keys" /\ tap' = 0
  BY DEF Take
<1>3. tap' \in 0..2
  BY <1>1, <1>2
<1>4. c # 0 => c \in enabled
  <2>1. ShownTap \in Nat
    BY <1>1 DEF ShownTap
  <2>2. enabled \in SUBSET (1..EndMark)
    BY <1>1, KeysOffered
  <2> QED
    BY <2>1, <2>2, PressedIsOnKey
<1> HIDE DEF c
<1>5. CASE c = 0
  <2>1. UNCHANGED <<text, caption, enabled>>
    BY <1>2, <1>5
  <2>2. TypingOK'
    BY <1>1, <2>1 DEF TypingOK, Beginning
  <2> QED
    BY <1>3, <2>2 DEF IInv
<1>6. CASE c # 0 /\ Accept(text')
  BY <1>2, <1>3, <1>6 DEF IInv
<1>7. CASE c # 0 /\ ~Accept(text')
  <2>1. /\ text \in Seq(Letters) /\ Len(text) < Longest /\ c \in NextChars(text)
        /\ Beginning(text) # {}
        /\ text' = Append(text, c) /\ ~caption' /\ enabled' = NextChars(text')
        /\ ~Accept(Append(text, c))
    BY <1>1, <1>2, <1>4, <1>7 DEF TypingOK
  <2>2. c # EndMark
    BY <2>1, MarkAccepted
  <2>3. /\ Append(text, c) \in Seq(Letters)
        /\ Len(Append(text, c)) < Longest
        /\ Beginning(Append(text, c)) # {}
    BY <2>1, <2>2, LetterGoesOn
  <2>4. TypingOK'
    BY <2>1, <2>3 DEF TypingOK, Beginning
  <2> QED
    BY <1>3, <2>4 DEF IInv
<1> QED
  BY <1>5, <1>6, <1>7

(* Every step keeps the invariant.                                         *)
LEMMA InvKept ==
    ASSUME IInv, [Next]_vars
    PROVE  IInv'
<1>1. CASE ChooseLength
  BY <1>1, NothingTyped DEF ChooseLength
<1>2. CASE Typing
  BY <1>2, KeysAndTaps, BackspaceKeeps, TakeKeeps DEF Typing
<1>3. CASE RejectWord
  BY <1>3, NothingTyped DEF RejectWord
<1>4. CASE ConfirmWord
  <2>1. CASE StartWord
    BY <2>1, NothingTyped
  <2>2. CASE ~StartWord
    <3>1. pc' \in {"done", "invalid"} /\ tap' = tap
      BY <1>4, <2>2 DEF ConfirmWord, typing
    <3> QED
      BY <3>1 DEF IInv
  <2> QED
    BY <2>1, <2>2
<1>5. CASE TryAgain
  BY <1>5 DEF TryAgain, typing, IInv
<1>6. CASE UNCHANGED vars
  BY <1>6 DEF vars, typing, IInv, TypingOK, Beginning
<1> QED
  BY <1>1, <1>2, <1>3, <1>4, <1>5, <1>6 DEF Next

(* The invariant holds in every reachable state.                           *)
LEMMA InvHolds == Spec => []IInv
<1>1. Init => IInv
  BY DEF Init, IInv
<1> QED
  BY <1>1, InvKept, PTL DEF Spec

-----------------------------------------------------------------------------
(* The dialog                                                              *)

(* A word is being chosen while some are missing, and the word offered for *)
(* confirmation is the one that the typed text allows.                     *)
DialogInv ==
    /\ words \in [0..(MaxLength - 1) -> Nat]
    /\ pc = "length" => wc = 0 /\ loaded_wc = 0
    /\ pc \in {"keys", "tap", "confirm"} => wc \in Lengths /\ loaded_wc \in 0..(wc - 1)
    /\ pc = "confirm" => words[loaded_wc] \in WordIndices /\ ConfirmsTypedWord

(* The longest mnemonic.                                                   *)
LEMMA LongestMnemonic ==
    /\ MaxLength \in Nat \ {0}
    /\ \A k \in Lengths : k \in Nat \ {0} /\ k <= MaxLength
BY SeedAssumption DEF MaxLength

(* What Take does to the dialog.                                           *)
LEMMA TakeKeepsDialog ==
    ASSUME IInv, DialogInv, NEW left_pressed \in BOOLEAN, Take(left_pressed)
    PROVE  DialogInv'
<1> DEFINE c == PressedChar(active_idx, ShownTap)
<1>1. /\ pc = "tap" /\ TypingOK /\ tap \in 0..2 /\ UNCHANGED <<wc, loaded_wc>>
      /\ wc \in Lengths /\ loaded_wc \in 0..(wc - 1)
      /\ words \in [0..(MaxLength - 1) -> Nat]
  BY DEF Take, IInv, DialogInv
<1>2. /\ c # 0 => text' = Append(text, c)
      /\ c # 0 /\ Accept(text') =>
            pc' = "confirm" /\ \E w \in Answers(text') : words' = [words EXCEPT ![loaded_wc] = w]
      /\ ~(c # 0 /\ Accept(text')) => pc' = "keys" /\ words' = words
  BY DEF Take
<1>3. c # 0 => c \in enabled
  <2>1. ShownTap \in Nat
    BY <1>1 DEF ShownTap
  <2>2. enabled \in SUBSET (1..EndMark)
    BY <1>1, KeysOffered
  <2> QED
    BY <2>1, <2>2, PressedIsOnKey
<1> HIDE DEF c
<1>4. CASE ~(c # 0 /\ Accept(text'))
  BY <1>1, <1>2, <1>4 DEF DialogInv
<1>5. CASE c # 0 /\ Accept(text')
  <2>1. PICK w \in Answers(text') : words' = [words EXCEPT ![loaded_wc] = w]
    BY <1>2, <1>5
  <2>2. /\ text \in Seq(Letters) /\ Beginning(text) # {} /\ c \in NextChars(text)
        /\ text' = Append(text, c)
    BY <1>1, <1>2, <1>3, <1>5 DEF TypingOK
  <2>3. /\ w \in WordIndices
        /\ {w} = IF text'[Len(text')] = EndMark THEN Hits(List, Front(text'), TRUE)
                 ELSE Hits(List, text', FALSE)
    BY <1>5, <2>2, OneAnswer
  <2>4. w \in Nat
    BY <2>3 DEF WordIndices
  <2>5. loaded_wc \in 0..(MaxLength - 1)
    BY <1>1, LongestMnemonic
  <2>6. words' \in [0..(MaxLength - 1) -> Nat] /\ words'[loaded_wc] = w
    BY <1>1, <2>1, <2>4, <2>5
  <2>7. words'[loaded_wc'] = w
    BY <1>1, <2>6
  <2>8. ConfirmsTypedWord'
    BY <2>3, <2>7 DEF ConfirmsTypedWord
  <2> QED
    BY <1>1, <1>2, <1>5, <2>3, <2>6, <2>7, <2>8 DEF DialogInv
<1> QED
  BY <1>4, <1>5

(* No step of the dialog loses its place.                                  *)
LEMMA DialogHolds == Spec => [](IInv /\ DialogInv)
<1>1. Init => DialogInv
  <2> SUFFICES ASSUME Init PROVE DialogInv
    OBVIOUS
  <2>1. words \in [0..(MaxLength - 1) -> Nat]
    BY DEF Init
  <2> QED
    BY <2>1 DEF Init, DialogInv
<1>2. ASSUME IInv, DialogInv, [Next]_vars PROVE DialogInv'
  <2>1. CASE ChooseLength
    <3>1. /\ pc' = "keys" /\ words' = words /\ wc' \in Lengths /\ loaded_wc' = 0
      BY <2>1 DEF ChooseLength, StartWord
    <3>2. loaded_wc' \in 0..(wc' - 1)
      BY <3>1, LongestMnemonic
    <3> QED
      BY <1>2, <3>1, <3>2 DEF DialogInv
  <2>2. CASE Typing
    <3>1. CASE PressLeft \/ Tap \/ Backspace
      <4>1. /\ pc \in {"keys", "tap"} /\ pc' \in {"keys", "tap"}
            /\ UNCHANGED <<wc, loaded_wc, words>>
        BY <3>1 DEF PressLeft, Tap, Backspace
      <4> QED
        BY <1>2, <4>1 DEF DialogInv
    <3> QED
      BY <1>2, <2>2, <3>1, TakeKeepsDialog DEF Typing
  <2>3. CASE RejectWord
    <3>1. pc = "confirm" /\ pc' = "keys" /\ UNCHANGED <<wc, loaded_wc, words>>
      BY <2>3 DEF RejectWord, StartWord
    <3> QED
      BY <1>2, <3>1 DEF DialogInv
  <2>4. CASE ConfirmWord
    <3>1. /\ pc = "confirm" /\ loaded_wc' = loaded_wc + 1 /\ UNCHANGED <<wc, words>>
          /\ loaded_wc' < wc => pc' = "keys"
          /\ ~(loaded_wc' < wc) => pc' \in {"done", "invalid"}
      BY <2>4 DEF ConfirmWord, StartWord
    <3>2. wc \in Lengths /\ loaded_wc \in 0..(wc - 1) /\ wc \in Nat
      BY <1>2, <3>1, LongestMnemonic DEF DialogInv
    <3> QED
      BY <1>2, <3>1, <3>2 DEF DialogInv
  <2>5. CASE TryAgain
    BY <1>2, <2>5 DEF TryAgain, DialogInv
  <2>6. CASE UNCHANGED vars
    BY <1>2, <2>6 DEF vars, typing, DialogInv, ConfirmsTypedWord
  <2> QED
    BY <1>2, <2>1, <2>2, <2>3, <2>4, <2>5, <2>6 DEF Next
<1> QED
  BY <1>1, <1>2, InvHolds, PTL DEF Spec

-----------------------------------------------------------------------------
(* Refinement                                                              *)

(* The words before a place, as a sequence.                                *)
First(f, n) == [i \in 1..n |-> f[i - 1]]

LEMMA FirstWords ==
    ASSUME NEW f \in [0..(MaxLength - 1) -> Nat], NEW n \in 0..MaxLength
    PROVE  First(f, n) \in Seq(Nat) /\ Len(First(f, n)) = n
<1>1. n \in Nat /\ MaxLength \in Nat
  BY LongestMnemonic
<1>2. \A i \in 1..n : f[i - 1] \in Nat
  <2> SUFFICES ASSUME NEW i \in 1..n PROVE f[i - 1] \in Nat
    OBVIOUS
  <2>1. i - 1 \in 0..(MaxLength - 1)
    BY <1>1
  <2> QED
    BY <2>1
<1>3. First(f, n) \in [1..n -> Nat]
  BY <1>2 DEF First
<1> HIDE DEF First
<1> QED
  BY <1>1, <1>3

(* One place further there is one word more.                               *)
LEMMA OneWordMore ==
    ASSUME NEW f \in [0..(MaxLength - 1) -> Nat], NEW n \in 0..(MaxLength - 1)
    PROVE  First(f, n + 1) = Append(First(f, n), f[n])
<1>1. n \in Nat /\ MaxLength \in Nat /\ n \in 0..MaxLength /\ n + 1 \in 0..MaxLength
      /\ f[n] \in Nat
  BY LongestMnemonic
<1> DEFINE a == First(f, n)
           b == First(f, n + 1)
           q == Append(a, f[n])
<1>2. a \in Seq(Nat) /\ Len(a) = n /\ b \in Seq(Nat) /\ Len(b) = n + 1
  BY <1>1, FirstWords
<1>3. /\ \A i \in 1..n : a[i] = f[i - 1]
      /\ \A i \in 1..(n + 1) : b[i] = f[i - 1]
  BY DEF First
<1> HIDE DEF a, b
<1>4. /\ q \in Seq(Nat) /\ Len(q) = n + 1 /\ q[n + 1] = f[n]
      /\ \A i \in 1..n : q[i] = a[i]
  <2>1. /\ q \in Seq(Nat) /\ Len(q) = Len(a) + 1 /\ q[Len(a) + 1] = f[n]
        /\ \A i \in 1..Len(a) : q[i] = a[i]
    <3> DEFINE e == f[n]
    <3>1. a \in Seq(Nat) /\ e \in Nat
      BY <1>1, <1>2
    <3> HIDE DEF e
    <3>2. /\ Append(a, e) \in Seq(Nat) /\ Len(Append(a, e)) = Len(a) + 1
          /\ Append(a, e)[Len(a) + 1] = e
          /\ \A i \in 1..Len(a) : Append(a, e)[i] = a[i]
      BY <3>1, AppendProperties
    <3> QED
      BY <3>2 DEF e
  <2> HIDE DEF q
  <2> QED
    BY <1>2, <2>1
<1> HIDE DEF q
<1>5. ASSUME NEW i \in 1..Len(b) PROVE b[i] = q[i]
  <2>1. CASE i = n + 1
    BY <1>1, <1>2, <1>3, <1>4, <2>1
  <2>2. CASE i # n + 1
    <3>1. i \in 1..n /\ i \in 1..(n + 1)
      BY <1>1, <1>2, <2>2
    <3> QED
      BY <1>3, <1>4, <3>1
  <2> QED
    BY <2>1, <2>2
<1>6. b = q
  BY <1>2, <1>4, <1>5, SeqEqual
<1> QED
  BY <1>6 DEF a, b, q

(* Before the first word there is none.                                    *)
LEMMA NoWords ==
    ASSUME NEW f \in [0..(MaxLength - 1) -> Nat]
    PROVE  First(f, 0) = <<>>
<1>1. 0 \in 0..MaxLength
  BY LongestMnemonic
<1>2. First(f, 0) \in Seq(Nat) /\ Len(First(f, 0)) = 0
  BY <1>1, FirstWords
<1> HIDE DEF First
<1> QED
  BY <1>2, EmptySeq

Outcome == CASE pc = "done" -> "given" [] pc = "invalid" -> "rejected" [] OTHER -> "open"

(* A step of the dialog that settles nothing.                              *)
LEMMA NothingSettled ==
    ASSUME Mnemonic' = Mnemonic, wc' = wc, Outcome' = Outcome
    PROVE  UNCHANGED Dialog!vars
BY DEF Dialog!vars, Outcome

(* Each step of the screens settles a word, starts, starts over, or is     *)
(* none of the dialog's business.                                          *)
LEMMA DialogStep ==
    ASSUME DialogInv, DialogInv', [Next]_vars
    PROVE  [Dialog!Next]_(Dialog!vars)
<1>0. /\ words \in [0..(MaxLength - 1) -> Nat] /\ words' \in [0..(MaxLength - 1) -> Nat]
      /\ Mnemonic = First(words, loaded_wc) /\ Mnemonic' = First(words', loaded_wc')
  BY DEF DialogInv, Mnemonic, First
<1>1. CASE ChooseLength
  <2>1. /\ pc = "length" /\ pc' = "keys" /\ wc' \in Lengths /\ loaded_wc' = 0
        /\ wc = 0 /\ loaded_wc = 0 /\ words' = words
    BY <1>1 DEF ChooseLength, StartWord, DialogInv
  <2>2. Mnemonic' = Mnemonic
    BY <1>0, <2>1
  <2>3. Dialog!Start
    BY <2>1, <2>2 DEF Dialog!Start
  <2> QED
    BY <2>3 DEF Dialog!Next
<1>2. CASE PressLeft \/ Tap \/ Backspace \/ RejectWord
  <2>1. /\ pc \in {"keys", "tap", "confirm"} /\ pc' \in {"keys", "tap"}
        /\ UNCHANGED <<wc, loaded_wc, words>>
    BY <1>2 DEF PressLeft, Tap, Backspace, RejectWord, StartWord
  <2>2. Mnemonic' = Mnemonic /\ Outcome' = Outcome
    BY <1>0, <2>1 DEF Outcome
  <2> QED
    BY <2>1, <2>2, NothingSettled
<1>3. CASE Take(TRUE) \/ Take(FALSE)
  <2>1. /\ pc = "tap" /\ pc' \in {"keys", "confirm"} /\ UNCHANGED <<wc, loaded_wc>>
        /\ words' = words \/ \E w : words' = [words EXCEPT ![loaded_wc] = w]
    BY <1>3 DEF Take
  <2>2. loaded_wc \in Nat /\ wc \in Lengths /\ loaded_wc \in 0..(wc - 1)
    BY <2>1, LongestMnemonic DEF DialogInv
  <2>3. ASSUME NEW i \in 1..loaded_wc PROVE words'[i - 1] = words[i - 1]
    <3>1. i - 1 # loaded_wc /\ i - 1 \in 0..(MaxLength - 1)
      BY <2>2, LongestMnemonic
    <3> QED
      BY <1>0, <2>1, <3>1
  <2>4. Mnemonic' = Mnemonic
    <3>1. First(words', loaded_wc) = First(words, loaded_wc)
      BY <2>3 DEF First
    <3> QED
      BY <1>0, <2>1, <3>1
  <2>5. Outcome' = Outcome
    BY <2>1 DEF Outcome
  <2> QED
    BY <2>1, <2>4, <2>5, NothingSettled
<1>4. CASE ConfirmWord
  <2>1. /\ pc = "confirm" /\ loaded_wc' = loaded_wc + 1 /\ UNCHANGED <<wc, words>>
        /\ loaded_wc' < wc => pc' = "keys"
        /\ ~(loaded_wc' < wc) => pc' = IF Mnemonic' \in ValidMnemonics THEN "done" ELSE "invalid"
    BY <1>4 DEF ConfirmWord, StartWord
  <2>2. /\ wc \in Lengths /\ loaded_wc \in 0..(wc - 1) /\ words[loaded_wc] \in WordIndices
    BY <2>1 DEF DialogInv
  <2>3. /\ wc \in Nat /\ loaded_wc \in 0..(MaxLength - 1) /\ loaded_wc \in 0..MaxLength
        /\ loaded_wc + 1 \in 0..MaxLength
    BY <2>2, LongestMnemonic
  <2>4. /\ Mnemonic' = Append(Mnemonic, words[loaded_wc])
        /\ Len(Mnemonic) = loaded_wc /\ Len(Mnemonic') = loaded_wc + 1
    BY <1>0, <2>1, <2>3, FirstWords, OneWordMore
  <2>5. Len(Mnemonic) < wc
    BY <2>2, <2>3, <2>4
  <2>6. Outcome = "open"
    BY <2>1 DEF Outcome
  <2>7. Outcome' = IF Len(Mnemonic') < wc THEN "open"
                   ELSE IF Mnemonic' \in ValidMnemonics THEN "given" ELSE "rejected"
    BY <2>1, <2>4 DEF Outcome
  <2>8. Dialog!Settle
    BY <2>1, <2>2, <2>4, <2>5, <2>6, <2>7 DEF Dialog!Settle, Outcome
  <2> QED
    BY <2>8 DEF Dialog!Next
<1>5. CASE TryAgain
  <2>1. pc = "invalid" /\ pc' = "length" /\ wc' = 0 /\ loaded_wc' = 0
    BY <1>5 DEF TryAgain
  <2>2. Mnemonic' = <<>>
    BY <1>0, <2>1, NoWords
  <2>3. Dialog!StartOver
    BY <2>1, <2>2 DEF Dialog!StartOver
  <2> QED
    BY <2>3 DEF Dialog!Next
<1>6. CASE UNCHANGED vars
  <2>1. UNCHANGED <<pc, wc, loaded_wc, words>>
    BY <1>6 DEF vars
  <2>2. Mnemonic' = Mnemonic /\ Outcome' = Outcome
    BY <1>0, <2>1 DEF Outcome
  <2> QED
    BY <2>1, <2>2, NothingSettled
<1> QED
  BY <1>1, <1>2, <1>3, <1>4, <1>5, <1>6 DEF Next, Typing

-----------------------------------------------------------------------------
(* The top line                                                            *)

Shown(s) == [i \in 0..(Longest - 1) |-> At(s, i + 1)]

(* The text with the character that taps have arrived at.                  *)
Pending == LET c == PressedChar(active_idx, ShownTap)
           IN IF pc = "tap" /\ c # 0 THEN Append(text, c) ELSE text

ScreenInv == pc \in {"keys", "tap"} => column = Len(text) /\ cells = Shown(Pending)

(* A text of letters is one of numbers.                                    *)
LEMMA LettersAreNumbers ==
    ASSUME NEW s \in Seq(Letters)
    PROVE  s \in Seq(Nat) /\ Len(s) \in Nat
<1>1. \A j \in 1..Len(s) : s[j] \in Nat
  BY ElementOfSeq DEF Letters
<1> QED
  BY <1>1, LenProperties

(* A character written behind a text, over another one or not, shows the   *)
(* text with that character.                                               *)
LEMMA WrittenBehind ==
    ASSUME NEW s \in Seq(Nat), Len(s) < Longest, NEW c \in Nat, NEW f,
           f = Shown(s) \/ \E d \in Nat : f = Shown(Append(s, d))
    PROVE  [f EXCEPT ![Len(s)] = c] = Shown(Append(s, c))
<1>1. Len(s) \in Nat /\ Len(s) \in 0..(Longest - 1)
  BY LenProperties
<1>2. ASSUME NEW d \in Nat, NEW i \in 0..(Longest - 1)
      PROVE  At(Append(s, d), i + 1) = IF i = Len(s) THEN d ELSE At(s, i + 1)
  <2> DEFINE q == Append(s, d)
  <2>1. /\ Len(q) = Len(s) + 1 /\ q[Len(s) + 1] = d
        /\ \A j \in 1..Len(s) : q[j] = s[j]
    BY AppendProperties
  <2> HIDE DEF q
  <2>2. CASE i = Len(s)
    BY <1>1, <2>1, <2>2 DEF At
  <2>3. CASE i < Len(s)
    <3>1. i + 1 \in 1..Len(s) /\ i + 1 <= Len(s) /\ i + 1 <= Len(q) /\ i # Len(s)
      BY <1>1, <2>1, <2>3
    <3> QED
      BY <2>1, <3>1 DEF At
  <2>4. CASE i > Len(s)
    <3>1. ~(i + 1 <= Len(s)) /\ ~(i + 1 <= Len(q)) /\ i # Len(s)
      BY <1>1, <2>1, <2>4
    <3> QED
      BY <3>1 DEF At
  <2> QED
    BY <1>1, <2>2, <2>3, <2>4 DEF q
<1>3. /\ DOMAIN f = 0..(Longest - 1)
      /\ \A i \in 0..(Longest - 1) : i # Len(s) => f[i] = At(s, i + 1)
  <2>1. CASE f = Shown(s)
    BY <2>1 DEF Shown
  <2>2. CASE \E d \in Nat : f = Shown(Append(s, d))
    <3>1. PICK d \in Nat : f = Shown(Append(s, d))
      BY <2>2
    <3>2. /\ DOMAIN f = 0..(Longest - 1)
          /\ \A i \in 0..(Longest - 1) : f[i] = At(Append(s, d), i + 1)
      BY <3>1 DEF Shown
    <3> QED
      BY <1>2, <3>2
  <2> QED
    BY <2>1, <2>2
<1> DEFINE g == [f EXCEPT ![Len(s)] = c]
<1>4. /\ g = [i \in 0..(Longest - 1) |-> g[i]]
      /\ \A i \in 0..(Longest - 1) : g[i] = IF i = Len(s) THEN c ELSE f[i]
  BY <1>1, <1>3
<1> HIDE DEF g
<1>5. \A i \in 0..(Longest - 1) : g[i] = At(Append(s, c), i + 1)
  BY <1>2, <1>3, <1>4
<1>6. g = Shown(Append(s, c))
  BY <1>4, <1>5 DEF Shown
<1> QED
  BY <1>6 DEF g

(* Blanking the last character shows the text without it.                  *)
LEMMA BlankedLast ==
    ASSUME NEW s \in Seq(Letters), s # <<>>, Len(s) < Longest
    PROVE  [Shown(s) EXCEPT ![Len(s) - 1] = 0] = Shown(Front(s))
<1>1. Len(s) \in Nat /\ Len(s) > 0 /\ Len(s) - 1 \in 0..(Longest - 1)
  <2>1. Len(s) \in Nat /\ Len(s) > 0
    BY LenProperties, EmptySeq
  <2> QED
    BY <2>1
<1> DEFINE q == Front(s)
<1>2. Len(q) = Len(s) - 1 /\ \A j \in 1..(Len(s) - 1) : q[j] = s[j]
  BY FrontBegins
<1> HIDE DEF q
<1>3. ASSUME NEW i \in 0..(Longest - 1)
      PROVE  At(q, i + 1) = IF i = Len(s) - 1 THEN 0 ELSE At(s, i + 1)
  <2>1. CASE i < Len(s) - 1
    <3>1. i + 1 \in 1..(Len(s) - 1) /\ i + 1 <= Len(s) /\ i + 1 <= Len(q) /\ i # Len(s) - 1
      BY <1>1, <1>2, <2>1
    <3> QED
      BY <1>2, <3>1 DEF At
  <2>2. CASE i = Len(s) - 1
    <3>1. ~(i + 1 <= Len(q))
      BY <1>1, <1>2, <2>2
    <3> QED
      BY <2>2, <3>1 DEF At
  <2>3. CASE i > Len(s) - 1
    <3>1. ~(i + 1 <= Len(q)) /\ ~(i + 1 <= Len(s)) /\ i # Len(s) - 1
      BY <1>1, <1>2, <2>3
    <3> QED
      BY <3>1 DEF At
  <2> QED
    BY <1>1, <2>1, <2>2, <2>3
<1>4. [Shown(s) EXCEPT ![Len(s) - 1] = 0]
        = [i \in 0..(Longest - 1) |-> IF i = Len(s) - 1 THEN 0 ELSE At(s, i + 1)]
  BY <1>1 DEF Shown
<1>5. Shown(q) = [i \in 0..(Longest - 1) |-> IF i = Len(s) - 1 THEN 0 ELSE At(s, i + 1)]
  BY <1>3 DEF Shown
<1> QED
  BY <1>4, <1>5 DEF q

(* A word begins with a blank line.                                        *)
LEMMA BlankLine ==
    ASSUME StartWord
    PROVE  ScreenInv'
<1>1. pc' = "keys" /\ text' = <<>> /\ column' = 0 /\ cells' = Blank
  BY DEF StartWord
<1>2. Pending' = <<>>
  BY <1>1 DEF Pending
<1>3. \A i \in 0..(Longest - 1) : At(<<>>, i + 1) = 0
  BY DEF At
<1>4. Shown(<<>>) = Blank
  BY <1>3 DEF Shown, Blank
<1>5. Shown(Pending)' = Shown(<<>>)
  BY <1>2 DEF Shown
<1>6. column' = Len(text')
  BY <1>1
<1> QED
  BY <1>1, <1>4, <1>5, <1>6 DEF ScreenInv

(* Each tap shows the next character in the place of the one before.       *)
LEMMA TapShows ==
    ASSUME IInv, ScreenInv, Tap
    PROVE  ScreenInv'
<1> DEFINE c == PressedChar(active_idx, tap)
           old == PressedChar(active_idx, ShownTap)
<1>1. /\ pc \in {"keys", "tap"} /\ pc' = "tap" /\ tap' = (tap + 1) % 3
      /\ cells' = IF c = 0 THEN cells ELSE [cells EXCEPT ![Clamp(column)] = c]
      /\ UNCHANGED <<text, column, enabled, active_idx>>
  BY DEF Tap
<1>2. TypingOK /\ tap \in 0..2 /\ column = Len(text) /\ cells = Shown(Pending)
  BY <1>1 DEF IInv, ScreenInv
<1>3. text \in Seq(Nat) /\ Len(text) \in Nat /\ Len(text) < Longest
  BY <1>2, LettersAreNumbers DEF TypingOK
<1>4. Clamp(column) = Len(text)
  BY <1>2, <1>3 DEF Clamp
<1>5. enabled \in SUBSET (1..EndMark) /\ tap \in Nat /\ ShownTap \in Nat
  BY <1>2, KeysOffered DEF ShownTap
<1>6. /\ c \in Nat /\ (c = 0 <=> OnKey(active_idx) = {})
      /\ old \in Nat /\ (old = 0 <=> OnKey(active_idx) = {})
  BY <1>5, PressedIsOnKey
<1>7. ShownTap' = tap
  BY <1>1, <1>2 DEF ShownTap
<1>8. PressedChar(active_idx, ShownTap)' = c
  BY <1>1, <1>7 DEF PressedChar, OnKey
<1>9. Pending' = IF c # 0 THEN Append(text, c) ELSE text
  BY <1>1, <1>8 DEF Pending
<1>10. Pending = IF pc = "tap" /\ old # 0 THEN Append(text, old) ELSE text
  BY DEF Pending
<1> HIDE DEF c, old
<1>11. CASE c = 0
  <2>1. Pending = text /\ Pending' = text
    BY <1>6, <1>9, <1>10, <1>11
  <2>2. Shown(Pending)' = Shown(text)
    BY <2>1 DEF Shown
  <2> QED
    BY <1>1, <1>2, <1>11, <2>1, <2>2 DEF ScreenInv
<1>12. CASE c # 0
  <2>1. cells = Shown(text) \/ \E d \in Nat : cells = Shown(Append(text, d))
    BY <1>2, <1>6, <1>10
  <2>2. cells' = Shown(Append(text, c))
    BY <1>1, <1>3, <1>4, <1>6, <1>12, <2>1, WrittenBehind
  <2>3. Shown(Pending)' = Shown(Append(text, c))
    BY <1>9, <1>12 DEF Shown
  <2> QED
    BY <1>1, <1>2, <2>2, <2>3 DEF ScreenInv
<1> QED
  BY <1>11, <1>12

(* Taking the last character back blanks its place.                        *)
LEMMA BackspaceBlanks ==
    ASSUME IInv, ScreenInv, Backspace
    PROVE  ScreenInv'
<1>1. /\ pc = "keys" /\ pc' = "keys"
      /\ text' = IF text = <<>> THEN text ELSE Front(text)
      /\ column' = IF column > 0 THEN column - 1 ELSE 0
      /\ cells' = [cells EXCEPT ![column'] = 0]
  BY DEF Backspace
<1>2. TypingOK /\ column = Len(text) /\ cells = Shown(text)
  BY <1>1 DEF IInv, ScreenInv, Pending
<1>3. text \in Seq(Letters) /\ Len(text) \in Nat /\ Len(text) < Longest
  BY <1>2, LettersAreNumbers DEF TypingOK
<1>4. Shown(Pending)' = Shown(text')
  BY <1>1 DEF Shown, Pending
<1>5. CASE text = <<>>
  <2>1. text' = text /\ Len(text) = 0 /\ column' = 0
    BY <1>1, <1>2, <1>5
  <2>2. 0 \in 0..(Longest - 1) /\ Shown(text)[0] = 0
    <3>1. 0 \in 0..(Longest - 1) /\ ~(0 + 1 <= Len(text))
      BY <2>1
    <3> QED
      BY <3>1 DEF Shown, At
  <2>3. cells' = Shown(text)
    BY <1>1, <1>2, <2>1, <2>2 DEF Shown
  <2> QED
    BY <1>4, <2>1, <2>3 DEF ScreenInv
<1>6. CASE text # <<>>
  <2>1. text' = Front(text) /\ Len(text) > 0 /\ Len(Front(text)) = Len(text) - 1
    BY <1>1, <1>3, <1>6, FrontBegins, EmptySeq
  <2>2. column' = Len(text) - 1
    BY <1>1, <1>2, <1>3, <2>1
  <2>3. cells' = Shown(Front(text))
    BY <1>1, <1>2, <1>3, <1>6, <2>2, BlankedLast
  <2> QED
    BY <1>4, <2>1, <2>2, <2>3 DEF ScreenInv
<1> QED
  BY <1>5, <1>6

(* Taking the character shown leaves it where it is.                       *)
LEMMA TakeShows ==
    ASSUME IInv, ScreenInv, NEW left_pressed \in BOOLEAN, Take(left_pressed)
    PROVE  ScreenInv'
<1> DEFINE c == PressedChar(active_idx, ShownTap)
<1>1. /\ pc = "tap" /\ TypingOK /\ tap \in 0..2
      /\ column = Len(text) /\ cells = Shown(IF c # 0 THEN Append(text, c) ELSE text)
  BY DEF Take, IInv, ScreenInv, Pending
<1>2. /\ c = 0 => UNCHANGED <<text, column, cells>>
      /\ c # 0 => /\ text' = Append(text, c)
                  /\ cells' = IF c = EndMark THEN cells ELSE [cells EXCEPT ![Clamp(column)] = c]
                  /\ column' = IF column < Longest THEN column + 1 ELSE column
      /\ pc' = "keys" \/ pc' = "confirm"
  BY DEF Take
<1>3. /\ text \in Seq(Nat) /\ Len(text) \in Nat /\ Len(text) < Longest
      /\ enabled \in SUBSET (1..EndMark) /\ ShownTap \in Nat
  BY <1>1, LettersAreNumbers, KeysOffered DEF TypingOK, ShownTap
<1>4. c \in Nat
  BY <1>3, PressedIsOnKey
<1>5. pc' = "keys" => Shown(Pending)' = Shown(text')
  BY DEF Shown, Pending
<1> HIDE DEF c
<1>6. CASE c = 0
  BY <1>1, <1>2, <1>5, <1>6 DEF ScreenInv
<1>7. CASE c # 0
  <2>1. Clamp(column) = Len(text)
    BY <1>1, <1>3 DEF Clamp
  <2>2. cells = Shown(Append(text, c))
    BY <1>1, <1>7
  <2>3. [cells EXCEPT ![Len(text)] = c] = Shown(Append(text, c))
    BY <1>3, <1>4, <2>2, WrittenBehind
  <2>4. cells' = Shown(text')
    BY <1>2, <1>7, <2>1, <2>2, <2>3
  <2>5. column' = Len(text) + 1 /\ Len(text') = Len(text) + 1
    <3>1. Len(Append(text, c)) = Len(text) + 1
      BY <1>3, <1>4, AppendProperties
    <3> QED
      BY <1>1, <1>2, <1>3, <1>7, <3>1
  <2> QED
    BY <1>2, <1>5, <2>4, <2>5 DEF ScreenInv
<1> QED
  BY <1>6, <1>7

(* The top line is right in every reachable state.                         *)
LEMMA ScreenHolds == Spec => []ScreenInv
<1>1. Init => ScreenInv
  BY DEF Init, ScreenInv
<1>2. ASSUME IInv, ScreenInv, [Next]_vars PROVE ScreenInv'
  <2>1. CASE ChooseLength \/ RejectWord
    BY <2>1, BlankLine DEF ChooseLength, RejectWord
  <2>2. CASE PressLeft
    <3>1. pc = "keys" /\ pc' = "keys" /\ UNCHANGED <<text, column, cells>>
      BY <2>2 DEF PressLeft
    <3>2. Shown(Pending)' = Shown(text)
      BY <3>1 DEF Shown, Pending
    <3> QED
      BY <1>2, <3>1, <3>2 DEF ScreenInv, Pending
  <2>3. CASE Tap \/ Backspace \/ Take(TRUE) \/ Take(FALSE)
    BY <1>2, <2>3, TapShows, BackspaceBlanks, TakeShows
  <2>4. CASE ConfirmWord
    <3>1. StartWord \/ pc' \in {"done", "invalid"}
      BY <2>4 DEF ConfirmWord
    <3> QED
      BY <3>1, BlankLine DEF ScreenInv
  <2>5. CASE TryAgain
    BY <2>5 DEF TryAgain, ScreenInv
  <2>6. CASE UNCHANGED vars
    <3>1. UNCHANGED <<pc, text, column, cells, enabled, active_idx, tap>>
      BY <2>6 DEF vars, typing
    <3>2. ShownTap' = ShownTap
      BY <3>1 DEF ShownTap
    <3>3. PressedChar(active_idx, ShownTap)' = PressedChar(active_idx, ShownTap)
      BY <3>1, <3>2 DEF PressedChar, OnKey
    <3>4. Pending' = Pending
      BY <3>1, <3>3 DEF Pending
    <3>5. Shown(Pending)' = Shown(Pending)
      BY <3>4 DEF Shown
    <3> QED
      BY <1>2, <3>1, <3>5 DEF ScreenInv
  <2> QED
    BY <1>2, <2>1, <2>2, <2>3, <2>4, <2>5, <2>6 DEF Next, Typing
<1> QED
  BY <1>1, <1>2, InvHolds, PTL DEF Spec

-----------------------------------------------------------------------------
(* Theorems                                                                *)

(* However keys, taps, timeouts and backspaces are mixed, what was typed   *)
(* at the keyboard begins a word of the list.                              *)
THEOREM TypedAlwaysBegins == Spec => []TypedBeginsWord
<1>1. IInv => TypedBeginsWord
  BY DEF IInv, TypingOK, Beginning, TypedBeginsWord
<1> QED
  BY <1>1, InvHolds, PTL

(* In the middle of a word the keyboard goes empty by a backspace before   *)
(* the first character, never to offer anything again, and in no other     *)
(* way: every character taken leaves something to go on with.              *)
THEOREM KeyboardDiesOneWay == Spec => KeyboardDiesByBackspace
<1>1. ASSUME IInv, [Next]_vars
      PROVE  [ {pc, pc'} \subseteq {"keys", "tap"} =>
                  (enabled' = {} <=> enabled = {} \/ (Backspace /\ caption)) ]_vars
  <2> SUFFICES ASSUME Next, pc \in {"keys", "tap"}, pc' \in {"keys", "tap"}
               PROVE  enabled' = {} <=> enabled = {} \/ (Backspace /\ caption)
    BY <1>1
  <2>1. TypingOK /\ TypingOK' /\ tap \in 0..2
    <3>1. IInv'
      BY <1>1, InvKept
    <3> QED
      BY <1>1, <3>1 DEF IInv
  <2>2. NextChars(text) # {} /\ NextChars(text') # {}
    BY <2>1, SomethingOffered DEF TypingOK, Beginning
  <2>3. CASE (PressLeft \/ Tap) /\ ~Backspace
    <3>1. enabled' = enabled
      BY <2>3 DEF PressLeft, Tap
    <3> QED
      BY <2>3, <3>1
  <2>4. CASE Backspace
    <3>1. enabled' = NextChars(IF caption THEN Caption ELSE text')
      BY <2>4 DEF Backspace
    <3>2. CASE caption
      BY <2>4, <3>1, <3>2, NothingFollowsCaption
    <3>3. CASE ~caption
      BY <2>1, <2>2, <3>1, <3>3 DEF TypingOK
    <3> QED
      BY <3>2, <3>3
  <2>5. ASSUME NEW left_pressed \in BOOLEAN, Take(left_pressed)
        PROVE  enabled' = {} <=> enabled = {} \/ (Backspace /\ caption)
    <3> DEFINE c == PressedChar(active_idx, ShownTap)
    <3>1. /\ pc = "tap" /\ ~Backspace
          /\ c = 0 => enabled' = enabled
          /\ c # 0 => enabled' = NextChars(text')
      BY <2>5 DEF Take, Backspace
    <3>2. c # 0 => c \in enabled
      <4>1. ShownTap \in Nat
        BY <2>1 DEF ShownTap
      <4>2. enabled \in SUBSET (1..EndMark)
        BY <2>1, KeysOffered
      <4> QED
        BY <4>1, <4>2, PressedIsOnKey
    <3> HIDE DEF c
    <3> QED
      BY <2>2, <3>1, <3>2
  <2>6. CASE ChooseLength \/ RejectWord \/ ConfirmWord \/ TryAgain
    BY <2>6 DEF ChooseLength, RejectWord, ConfirmWord, TryAgain
  <2> QED
    BY <2>3, <2>4, <2>5, <2>6 DEF Next, Typing
<1> QED
  BY <1>1, InvHolds, PTL DEF Spec, KeyboardDiesByBackspace

(* The top line shows what was typed and nothing else, and while taps are  *)
(* counted it ends in the character that would be taken now.               *)
THEOREM TopLineIsTheText == Spec => []ScreenShowsTyped
<1>1. ScreenInv => ScreenShowsTyped
  <2> SUFFICES ASSUME ScreenInv PROVE ScreenShowsTyped
    OBVIOUS
  <2>1. CASE pc = "keys"
    <3>1. Pending = text
      BY <2>1 DEF Pending
    <3> QED
      BY <2>1, <3>1 DEF ScreenInv, ScreenShowsTyped, Shown
  <2>2. CASE pc = "tap"
    <3>1. Pending = IF PressedChar(active_idx, ShownTap) = 0 THEN text
                    ELSE Append(text, PressedChar(active_idx, ShownTap))
      BY <2>2 DEF Pending
    <3> QED
      BY <2>2, <3>1 DEF ScreenInv, ScreenShowsTyped, Shown
  <2>3. CASE pc # "keys" /\ pc # "tap"
    BY <2>3 DEF ScreenShowsTyped
  <2> QED
    BY <2>1, <2>2, <2>3
<1> QED
  BY <1>1, ScreenHolds, PTL

(* The word shown for confirmation is the only one that the typed text     *)
(* allows, whether it was finished with the mark or guessed.               *)
THEOREM ConfirmsWhatWasTyped == Spec => []ConfirmsTypedWord
<1>1. DialogInv => ConfirmsTypedWord
  BY DEF DialogInv, ConfirmsTypedWord
<1> QED
  BY <1>1, DialogHolds, PTL

(* The screens do what MnemonicDialog says: one word after the other is    *)
(* settled, words typed again and lists started over leave nothing behind, *)
(* and what is handed over has a valid checksum.                           *)
THEOREM ScreensAreADialog == Spec => ImplementsDialog
<1>1. Init => Dialog!Init
  <2> SUFFICES ASSUME Init PROVE Dialog!Init
    OBVIOUS
  <2>1. /\ pc = "length" /\ wc = 0 /\ loaded_wc = 0
        /\ words \in [0..(MaxLength - 1) -> Nat]
    BY DEF Init
  <2>2. Mnemonic = First(words, 0)
    BY <2>1 DEF Mnemonic, First
  <2>3. Mnemonic = <<>>
    BY <2>1, <2>2, NoWords
  <2> QED
    BY <2>1, <2>3 DEF Dialog!Init
<1>2. DialogInv /\ DialogInv' /\ [Next]_vars => [Dialog!Next]_(Dialog!vars)
  BY DialogStep
<1> QED
  BY <1>1, <1>2, DialogHolds, PTL DEF Spec, ImplementsDialog, Dialog!Spec

(* What loaded_text_buffer holds of a word.                                *)
FitsBuffer == pc \in {"keys", "tap"} => Len(text) < Longest

(* retrieve_seed_word_from_user appends without looking at the room left:  *)
(* before it appends there is always room for one more character and the   *)
(* terminator in the Longest + 1 characters of loaded_text_buffer.         *)
THEOREM TypedAlwaysFits == Spec => []FitsBuffer
<1>1. IInv => FitsBuffer
  BY DEF IInv, TypingOK, FitsBuffer
<1> QED
  BY <1>1, InvHolds, PTL
=============================================================================
