----------------------------- MODULE Bip39Text -----------------------------
(***************************************************************************)
(* A mnemonic as text: bip39_parse_string_into_words and                   *)
(* bip39_words_to_string of src/epmw_firmware/wallet/crypto/bip39.c.  The  *)
(* text is read one character at a time.                                   *)
(***************************************************************************)
EXTENDS Bip39Words, SequencesExt, FiniteSets

CONSTANTS
    List,           \* the word list
    MaxText         \* the longest text, a bound

Blank == Alphabet + 2           \* ' ' and '\t'
Chars == 1..(Alphabet + 2)      \* letters, a character that is none, blanks
Invalid == WordsCount(List)     \* BIP39_INVALID_WORD_INDEX

VARIABLES
    str,            \* history: the text read so far
    word,           \* the characters of the word begun
    words,          \* the indices found
    at, result      \* "reading" or "done"; the count of words, 0 is a failure

vars == <<str, word, words, at, result>>

Init == str = <<>> /\ word = <<>> /\ words = <<>> /\ at = "reading" /\ result = 0

Fail == at' = "done" /\ result' = 0

(* The word ended: it is looked up (new_bip39_get_index).                  *)
EndWord ==
    LET index == IndexOf(List, word, Invalid)
    IN  /\ index # Invalid
        /\ words' = Append(words, index)
        /\ word' = <<>>

NotListed == IndexOf(List, word, Invalid) = Invalid

(* Mutant: a blank ends a word even where none began.                      *)
ReadBlankAlways ==
    /\ at = "reading" /\ Len(str) < MaxText
    /\ str' = Append(str, Blank)
    /\ \/ EndWord /\ UNCHANGED <<at, result>>
       \/ NotListed /\ Fail /\ UNCHANGED <<word, words>>

ReadBlank ==
    /\ at = "reading" /\ Len(str) < MaxText
    /\ str' = Append(str, Blank)
    /\ \/ word = <<>> /\ UNCHANGED <<word, words, at, result>>
       \/ word # <<>> /\ EndWord /\ UNCHANGED <<at, result>>
       \/ word # <<>> /\ NotListed /\ Fail /\ UNCHANGED <<word, words>>

ReadChar(c) ==
    /\ at = "reading" /\ Len(str) < MaxText /\ c # Blank
    /\ str' = Append(str, c)
    /\ word' = Append(word, c)
    /\ IF Len(word') > Longest THEN Fail ELSE UNCHANGED <<at, result>>
    /\ UNCHANGED words

(* The end of the string.                                                  *)
ReadEnd ==
    /\ at = "reading"
    /\ \/ word = <<>> /\ at' = "done" /\ result' = Len(words) /\ UNCHANGED <<word, words>>
       \/ word # <<>> /\ EndWord /\ at' = "done" /\ result' = Len(words')
       \/ word # <<>> /\ NotListed /\ Fail /\ UNCHANGED <<word, words>>
    /\ UNCHANGED str

Next == ReadBlank \/ (\E c \in Chars : ReadChar(c)) \/ ReadEnd

Spec == Init /\ [][Next]_vars

(* bip39_words_to_string, for indices of the list: a blank behind every    *)
(* word, the last one taken back.                                          *)
Spelled(w) == GetWord(List, w) \o <<Blank>>
WordsToString(ws) ==
    IF ws = <<>> THEN <<>> ELSE Front(FlattenSeq([i \in 1..Len(ws) |-> Spelled(ws[i])]))

-----------------------------------------------------------------------------
(* Properties                                                              *)

(* Where the stretches of a text between blanks start; which of them       *)
(* starts at i; and whether the one that starts at i ends at j.            *)
Starts(s) == {i \in 1..Len(s) : s[i] # Blank /\ (i = 1 \/ s[i - 1] = Blank)}
Rank(s, i) == Cardinality({j \in Starts(s) : j <= i})
Ends(s, i, j) ==
    /\ i <= j /\ \A k \in i..j : s[k] # Blank
    /\ j = Len(s) \/ s[j + 1] = Blank

(* The index of the word from i to j.                                      *)
Found(s, i, j) == IndexOf(List, SubSeq(s, i, j), Invalid)

(* However its words are spaced, a text is accepted if and only if every   *)
(* stretch between blanks is a word of the list, and the indices are those *)
(* of the words in their order; anything else is answered with 0.  Words   *)
(* with one blank between them and none at the ends are what               *)
(* bip39_words_to_string writes of these indices.                          *)
ParsesTokens ==
    at = "done" =>
        LET starts == Starts(str)
            places == 1..Len(str)
            single == \A i \in places : str[i] = Blank =>
                          i \notin {1, Len(str)} /\ str[i - 1] # Blank
        IN  IF \E i \in starts, j \in places : Ends(str, i, j) /\ Found(str, i, j) = Invalid
            THEN result = 0
            ELSE /\ result = Len(words) /\ Len(words) = Cardinality(starts)
                 /\ \A i \in starts, j \in places :
                       Ends(str, i, j) => words[Rank(str, i)] = Found(str, i, j)
                 /\ single => WordsToString(words) = str
=============================================================================
