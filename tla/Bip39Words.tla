----------------------------- MODULE Bip39Words -----------------------------
(***************************************************************************)
(* The word list of src/epmw_firmware/wallet/crypto/bip39_wordlist.h and   *)
(* the comparisons of bip39.c.  A word is a sequence of letters, 1 for     *)
(* 'a' and so on; reading one place behind it gives the terminator 0.  A   *)
(* word list is a record of the words in order and the hand-written table  *)
(* of the index at which each letter begins.                               *)
(***************************************************************************)
EXTENDS Integers, Sequences

CONSTANTS
    Alphabet,       \* letters (26)
    Longest         \* BIP39_LONGEST_WORD_CHARS_COUNT (8)

ASSUME WordAssumption == Alphabet \in Nat \ {0} /\ Longest \in Nat \ {0}

Letters == 1..Alphabet

(* What fits a buffer of Longest + 1 characters: letters, and Alphabet + 1 *)
(* for a character that is none.                                           *)
IsText(s) == s \in Seq(1..(Alphabet + 1)) /\ Len(s) <= Longest

At(s, i) == IF i <= Len(s) THEN s[i] ELSE 0

(* bip39_strncmp over the first n characters; with n = Longest + 1 the     *)
(* terminators are compared too and it is bip39_strcmp.                    *)
SamePrefix(s, t, n) == \A i \in 1..n : At(s, i) = At(t, i)

Precedes(s, t, n) ==
    \E i \in 1..n : At(s, i) < At(t, i) /\ \A j \in 1..(i - 1) : At(s, j) = At(t, j)

StrnCmp(s, t, n) ==
    IF SamePrefix(s, t, n) THEN "EQ" ELSE IF Precedes(s, t, n) THEN "LT" ELSE "GT"

(* How much of a word is compared: all of it, or the text as a prefix.     *)
Depth(text, exact) == IF exact THEN Longest + 1 ELSE Len(text)

WordsCount(list) == Len(list.words)

(* bip39_get_word, for an index inside the list.                           *)
GetWord(list, index) == list.words[index + 1]

(* What the data of bip39_wordlist.h must be for the searches to work.     *)
WellFormed(list) ==
    /\ list.words \in Seq(Seq(Letters))
    /\ \A i \in 1..WordsCount(list) : Len(list.words[i]) \in 1..Longest
    /\ \A i, j \in 1..WordsCount(list) :
          i < j => Precedes(list.words[i], list.words[j], Longest + 1)
    /\ list.first_char_index_map \in [1..(Alphabet + 1) -> 0..WordsCount(list)]
    /\ \A c \in 1..(Alphabet + 1), i \in 1..WordsCount(list) :
          i <= list.first_char_index_map[c] <=> At(list.words[i], 1) < c

(* The indices a search may answer with.                                   *)
Hits(list, text, exact) ==
    {i \in 0..(WordsCount(list) - 1) :
        SamePrefix(text, GetWord(list, i), Depth(text, exact))}

Earliest(hits, invalid) ==
    IF hits = {} THEN invalid ELSE CHOOSE i \in hits : \A j \in hits : i <= j

(* bip39_get_index, the linear search that new_bip39_get_index replaces.   *)
IndexOf(list, text, invalid) == Earliest(Hits(list, text, TRUE), invalid)
=============================================================================
