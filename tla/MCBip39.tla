------------------------------ MODULE MCBip39 ------------------------------
(***************************************************************************)
(* Values for the constants of Bip39Calls: small word lists and all texts, *)
(* a coding with small items and that of the firmware.                     *)
(***************************************************************************)
EXTENDS Bip39Calls, FiniteSetsExt

CONSTANT AllTo

(* The word lists of one or two words and those that lack at most two of   *)
(* the words that fit Longest letters, each with its table, and every      *)
(* string that fits the buffer.                                            *)
Strings(chars) == UNION {[1..n -> chars] : n \in 0..Longest}

MCTexts == Strings(1..(Alphabet + 1))

InOrder(some) ==
    LET before(w) == {v \in some : Precedes(v, w, Longest + 1)} IN
    [i \in 1..Cardinality(some) |-> CHOOSE w \in some : Cardinality(before(w)) = i - 1]

Listed(some) ==
    [words |-> InOrder(some),
     first_char_index_map |->
        [c \in 1..(Alphabet + 1) |-> Cardinality({w \in some : w[1] < c})]]

Words == Strings(Letters) \ {<<>>}

MCWordLists ==
    {Listed(some) : some \in
        UNION {kSubset(k, Words) : k \in {1, 2}}
        \cup {Words \ few : few \in UNION {kSubset(k, Words) : k \in 0..2}}}

(* The words "a", "ab" and "ba".                                           *)
MCList == [words |-> <<<<1>>, <<1, 2>>, <<2, 1>>>>,
           first_char_index_map |-> <<0, 2, 3>>]

(* All short inputs, and longer ones of few different items.               *)
Of(items, n) == [1..n -> items]
SmallData(size, few, counts) ==
    UNION {Of(0..(2^size - 1), n) : n \in 0..AllTo} \cup UNION {Of(few, n) : n \in counts}

(* Mnemonics that differ in the last word, which holds the checksum, and   *)
(* bytes of every number up to those of 24 words.                          *)
RealMnemonics ==
    {[i \in 1..n |-> IF i = n THEN last ELSE (579 * i) % 2048] : n \in {3, 24}, last \in 0..31}
RealBytes == {[i \in 1..n |-> (91 * i + x) % 256] : n \in 0..33, x \in {1}}

MCCodings ==
    {[word_bits |-> 3, byte_bits |-> 2,
      bytes |-> SmallData(2, {1, 2}, (AllTo + 1)..(AllTo + 3)),
      words |-> SmallData(3, {1, 6, 7}, {5, 6})],
     [word_bits |-> 11, byte_bits |-> 8, bytes |-> RealBytes, words |-> RealMnemonics]}
=============================================================================
