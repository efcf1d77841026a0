---------------------------- MODULE Bip39Search ----------------------------
(***************************************************************************)
(* The binary searches new_bip39_get_index and new_bip39_hint_index of     *)
(* src/epmw_firmware/wallet/crypto/bip39.c, one probe of the list a step,  *)
(* with indices that wrap around as uint16_t does.                         *)
(***************************************************************************)
EXTENDS Bip39Words

CONSTANTS
    WordLists,      \* word lists to search
    Texts,          \* strings to search for
    IndexMax        \* largest uint16_t, BIP39_INVALID_WORD_INDEX (0xffff)

ASSUME ListAssumption ==
    /\ IndexMax \in Nat
    /\ \A list \in WordLists : WellFormed(list) /\ WordsCount(list) < IndexMax
    /\ \A text \in Texts : IsText(text)

VARIABLES
    list,           \* bip39_wordlist and its table
    word, exact,    \* the argument; new_bip39_get_index or new_bip39_hint_index
    left, right,
    result,
    pc

vars == <<list, word, exact, left, right, result, pc>>

Init ==
    /\ list \in WordLists
    /\ word = <<>> /\ exact = TRUE
    /\ left = 0 /\ right = 0
    /\ result = IndexMax
    /\ pc = "idle"

(* uint16_t arithmetic                                                     *)
Wrap(n) == n % (IndexMax + 1)

(* The callers ask for a hint only after new_bip39_hint_index_n has found  *)
(* a word with that prefix (accept_bip39_word).                            *)
Call ==
    /\ pc = "idle"
    /\ \E text \in Texts, e \in BOOLEAN :
        /\ e \/ (text # <<>> /\ Hits(list, text, FALSE) # {})
        /\ word' = text /\ exact' = e
        /\ IF At(text, 1) \in Letters
           THEN /\ left' = list.first_char_index_map[text[1]]
                /\ right' = Wrap(list.first_char_index_map[text[1] + 1] - 1)
                /\ result' = IndexMax
                /\ pc' = "search"
           ELSE result' = IndexMax /\ pc' = "done" /\ UNCHANGED <<left, right>>
    /\ UNCHANGED list

(* Mutant: without the guard against a right that wrapped around.          *)
GoesOnUnguarded == left <= right

(* The loop conditions of the two functions differ.                        *)
GoesOn == left <= right /\ (exact => right # IndexMax)

Middle == (right - left) \div 2 + left

Comparison == StrnCmp(word, GetWord(list, Middle), Depth(word, exact))

Hit ==
    /\ pc = "search" /\ GoesOn
    /\ Comparison = "EQ"
    /\ result' = Middle
    /\ pc' = "done"
    /\ UNCHANGED <<list, word, exact, left, right>>

GoLeft ==
    /\ pc = "search" /\ GoesOn
    /\ Comparison = "LT"
    /\ right' = Wrap(Middle - 1)
    /\ UNCHANGED <<list, word, exact, left, result, pc>>

(* Mutant: the probed word is skipped together with its neighbour.         *)
GoRightTooFar ==
    /\ pc = "search" /\ GoesOn
    /\ Comparison = "GT"
    /\ left' = Middle + 2
    /\ UNCHANGED <<list, word, exact, right, result, pc>>

(* Mutant: the probed word stays in the interval.                          *)
GoRightNotAtAll ==
    /\ pc = "search" /\ GoesOn
    /\ Comparison = "GT"
    /\ left' = Middle
    /\ UNCHANGED <<list, word, exact, right, result, pc>>

GoRight ==
    /\ pc = "search" /\ GoesOn
    /\ Comparison = "GT"
    /\ left' = Middle + 1
    /\ UNCHANGED <<list, word, exact, right, result, pc>>

Miss ==
    /\ pc = "search" /\ ~GoesOn
    /\ result' = IndexMax
    /\ pc' = "done"
    /\ UNCHANGED <<list, word, exact, left, right>>

(* The caller has the answer and the locals are gone.                      *)
Return ==
    /\ pc = "done"
    /\ word' = <<>> /\ exact' = TRUE
    /\ left' = 0 /\ right' = 0
    /\ result' = IndexMax
    /\ pc' = "idle"
    /\ UNCHANGED list

Probe == Hit \/ GoLeft \/ GoRight \/ Miss

Next == Call \/ Probe \/ Return

Spec == Init /\ [][Next]_vars

(* A call runs to its end unless the processor stops.                      *)
FairSpec == Spec /\ WF_vars(Probe)

-----------------------------------------------------------------------------
(* Properties                                                              *)

TypeOK ==
    /\ word \in Texts \cup {<<>>} /\ exact \in BOOLEAN
    /\ left \in 0..IndexMax /\ right \in 0..IndexMax
    /\ result \in 0..(WordsCount(list) - 1) \cup {IndexMax}
    /\ pc \in {"idle", "search", "done"}

(* The loop condition never lets a probe read behind the list, where       *)
(* bip39_get_word returns NULL: neither in new_bip39_get_index, whose      *)
(* right may wrap around to 0xffff, nor in new_bip39_hint_index, which     *)
(* does not test for that.                                                 *)
ReadsInsideList ==
    pc = "search" /\ GoesOn => Middle < WordsCount(list)

(* A finished search answers a word that matches if the list has one, and  *)
(* BIP39_INVALID_WORD_INDEX if not.                                        *)
FindsWord ==
    pc = "done" =>
        LET hits == Hits(list, word, exact) IN
        IF hits = {} THEN result = IndexMax ELSE result \in hits

(* new_bip39_get_index answers what the linear bip39_get_index does.       *)
LikeLinearSearch ==
    pc = "done" /\ exact => result = IndexOf(list, word, IndexMax)

(* Every search ends.                                                      *)
SearchEnds == pc = "search" ~> pc = "done"
=============================================================================
