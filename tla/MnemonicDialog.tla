--------------------------- MODULE MnemonicDialog ---------------------------
(***************************************************************************)
(* What ui_retrieve_mnemonic_seed_from_user of                             *)
(* src/epmw_firmware/ui/screens/ui_seed_enter_screen.c promises ui_task:   *)
(* the user settles on one word after the other, and only a mnemonic of a  *)
(* length the user chose and with a valid checksum is handed over.         *)
(***************************************************************************)
EXTENDS Naturals, Sequences

CONSTANTS
    Lengths,        \* lengths a mnemonic may have
    WordIndices,    \* indices of the word list
    ValidMnemonics  \* the sequences of indices with a valid checksum

VARIABLES
    length,         \* words asked for, 0 before the user has chosen
    accepted,       \* the words settled so far
    outcome         \* "open", "rejected" or "given"

vars == <<length, accepted, outcome>>

Init == length = 0 /\ accepted = <<>> /\ outcome = "open"

Start ==
    /\ outcome = "open" /\ length = 0
    /\ length' \in Lengths
    /\ UNCHANGED <<accepted, outcome>>

Settle ==
    /\ outcome = "open" /\ Len(accepted) < length
    /\ \E w \in WordIndices : accepted' = Append(accepted, w)
    /\ outcome' = IF Len(accepted') < length THEN "open"
                  ELSE IF accepted' \in ValidMnemonics THEN "given" ELSE "rejected"
    /\ UNCHANGED length

StartOver ==
    /\ outcome = "rejected"
    /\ length' = 0 /\ accepted' = <<>> /\ outcome' = "open"

Next == Start \/ Settle \/ StartOver

Spec == Init /\ [][Next]_vars
=============================================================================
