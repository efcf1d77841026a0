----------------------------- MODULE SeedEntry -----------------------------
(***************************************************************************)
(* Typing a mnemonic on two buttons,                                       *)
(* src/epmw_firmware/ui/screens/ui_seed_enter_screen.c.  LEFT moves to the *)
(* next key; RIGHT steps through the characters of a key, and the one      *)
(* shown is taken when LEFT is pressed or 450 ms pass.  Keys offer only    *)
(* characters that lead on to a word, and a word is taken as soon as it is *)
(* the only one left.                                                      *)
(*                                                                         *)
(* Characters are numbers: the letters, EndMark for '_', 0 for nothing.    *)
(* Bit c - 1 of chars_enabled stands for character c, and three characters *)
(* share a key.  Bip39Search shows what the two index functions return.    *)
(***************************************************************************)
EXTENDS Bip39Words, FiniteSets

CONSTANTS
    List,           \* the word list, a record as in Bip39Words
    Missing,        \* letters left out of the first keyboard ({'x'})
    Lengths,        \* VALID_MNEMONIC_LENGTHS
    ValidMnemonics, \* what bip39_validate_checksum accepts, external hash
    CountWrap,      \* values of the uint8_t that counts hints (256)
    Invalid         \* BIP39_INVALID_WORD_INDEX

EndMark == Alphabet + 1
CharKeys == EndMark \div 3
BackspaceKey == CharKeys
WordIndices == 0..(WordsCount(List) - 1)
MaxLength == CHOOSE n \in Lengths : \A k \in Lengths : k <= n

ASSUME SeedAssumption ==
    /\ EndMark % 3 = 0
    /\ WellFormed(List)
    /\ Letters \ Missing # {}
    /\ \A c \in Letters \ Missing : \E i \in WordIndices : At(GetWord(List, i), 1) = c
    /\ \A c \in Letters :
          List.first_char_index_map[c + 1] - List.first_char_index_map[c] < CountWrap
    /\ Lengths \subseteq Nat \ {0} /\ \E n \in Lengths : \A k \in Lengths : k <= n
    /\ Invalid \notin WordIndices /\ CountWrap \in Nat

VARIABLES
    pc,             \* the loop the code waits in
    wc, loaded_wc, words,
    text,           \* what was typed: loaded_chars_count characters
    caption,        \* does loaded_text_buffer still hold "Wrd(n):"?
    column,         \* current_word_char_idx
    cells,          \* what the top line of the display shows of the word
    enabled,        \* chars_enabled
    active_idx,
    tap             \* idx_within_key_pad

typing == <<text, caption, column, cells, enabled, active_idx, tap>>
vars == <<pc, wc, loaded_wc, words, typing>>

Blank == [i \in 0..(Longest - 1) |-> 0]

-----------------------------------------------------------------------------
(* Hints                                                                   *)

(* new_bip39_hint_index_n: the first word with the prefix and how many     *)
(* follow it; for one letter both come from the table.                     *)
Hint(s) ==
    LET none == [index |-> Invalid, n |-> 0]
        c == At(s, 1)
        from == List.first_char_index_map[c]
        hits == Hits(List, s, FALSE) \ 0..(from - 1)
        first == Earliest(hits, Invalid)
        run == {k \in hits : first..k \subseteq hits}
    IN IF c \notin Letters THEN none
       ELSE IF At(GetWord(List, from), 1) # c THEN none
       ELSE IF Len(s) = 1
       THEN [index |-> from, n |-> (List.first_char_index_map[c + 1] - from) % CountWrap]
       ELSE IF hits = {} THEN none
       ELSE [index |-> first, n |-> Cardinality(run) % CountWrap]

(* Mutant: the end of a word that others continue is not offered.          *)
NextCharsWithoutEnd(s) ==
    IF s = <<>> THEN Letters \ Missing
    ELSE LET hint == Hint(s) IN
         IF hint.index = Invalid THEN {}
         ELSE {At(GetWord(List, hint.index + i), Len(s) + 1) : i \in 0..(hint.n - 1)} \ {0}

(* Mutant: every letter of the alphabet begins a word.                     *)
NextCharsOfAlphabet(s) ==
    IF s = <<>> THEN Letters
    ELSE LET hint == Hint(s)
             next(i) == At(GetWord(List, hint.index + i), Len(s) + 1)
         IN IF hint.index = Invalid THEN {}
            ELSE {IF next(i) = 0 THEN EndMark ELSE next(i) : i \in 0..(hint.n - 1)}

(* get_next_possible_bip39_chars                                           *)
NextChars(s) ==
    IF s = <<>> THEN Letters \ Missing
    ELSE LET hint == Hint(s)
             next(i) == At(GetWord(List, hint.index + i), Len(s) + 1)
         IN IF hint.index = Invalid THEN {}
            ELSE {IF next(i) = 0 THEN EndMark ELSE next(i) : i \in 0..(hint.n - 1)}

Front(s) == SubSeq(s, 1, Len(s) - 1)

(* "Wrd(n):" as far as the hints tell it apart: it begins with no letter.  *)
Caption == <<EndMark + 1>>

(* Mutant: any hint will do.                                               *)
AcceptAnyHint(s) ==
    IF s[Len(s)] = EndMark
    THEN Len(s) <= Longest /\ Hits(List, Front(s), TRUE) # {}
    ELSE Hint(s).index # Invalid

(* accept_bip39_word                                                       *)
Accept(s) ==
    IF s[Len(s)] = EndMark
    THEN Len(s) <= Longest /\ Hits(List, Front(s), TRUE) # {}
    ELSE Hint(s).index # Invalid /\ Hint(s).n = 1

(* What the search called for an accepted text may return.                 *)
Answers(s) ==
    LET hits == IF s[Len(s)] = EndMark THEN Hits(List, Front(s), TRUE)
                ELSE Hits(List, s, FALSE)
    IN IF hits = {} THEN {Invalid} ELSE hits

-----------------------------------------------------------------------------
(* The keyboard                                                            *)

OnKey(key) == {c \in enabled : (c - 1) \div 3 = key}

(* get_pressed_char: of the enabled characters of the key the one that so  *)
(* many taps arrive at, or nothing.                                        *)
PressedChar(key, taps) ==
    LET chars == OnKey(key) IN
    IF chars = {} THEN 0
    ELSE CHOOSE c \in chars :
            Cardinality({d \in chars : d < c}) = taps % Cardinality(chars)

(* ccwci                                                                   *)
Clamp(i) == IF i >= Longest THEN i - 1 ELSE i

(* Mutant: the character before the one shown is taken.                    *)
ShownTapOneLess == IF tap > 1 THEN tap - 2 ELSE tap

(* tap has already moved on when a character is taken.                     *)
ShownTap == IF tap > 0 THEN tap - 1 ELSE 2

NextKey(key) == (key + 1) % (CharKeys + 1)

(* retrieve_seed_word_from_user begins.  The buffer was used for the       *)
(* caption; the keyboard is the one for "".                                *)
StartWord ==
    /\ text' = <<>> /\ caption' = TRUE /\ column' = 0 /\ cells' = Blank
    /\ enabled' = NextChars(<<>>)
    /\ active_idx' = 0 /\ tap' = 0
    /\ pc' = "keys"

Init ==
    /\ pc = "length"
    /\ wc = 0 /\ loaded_wc = 0 /\ words = [i \in 0..(MaxLength - 1) |-> 0]
    /\ text = <<>> /\ caption = FALSE /\ column = 0 /\ cells = Blank
    /\ enabled = {} /\ active_idx = 0 /\ tap = 0

(* retrieve_mnemonic_length_from_user                                      *)
ChooseLength ==
    /\ pc = "length"
    /\ wc' \in Lengths
    /\ loaded_wc' = 0
    /\ StartWord
    /\ UNCHANGED words

PressLeft ==
    /\ pc = "keys"
    /\ active_idx' = NextKey(active_idx)
    /\ UNCHANGED <<pc, wc, loaded_wc, words, text, caption, column, cells, enabled, tap>>

(* RIGHT on a key with characters shows the next of them; the first press  *)
(* enters the loop that waits for more or for the timeout.                 *)
Tap ==
    /\ pc \in {"keys", "tap"} /\ active_idx # BackspaceKey
    /\ LET c == PressedChar(active_idx, tap) IN
       cells' = IF c = 0 THEN cells ELSE [cells EXCEPT ![Clamp(column)] = c]
    /\ tap' = (tap + 1) % 3
    /\ pc' = "tap"
    /\ UNCHANGED <<wc, loaded_wc, words, text, caption, column, enabled, active_idx>>

(* Mutant: the keyboard is not rendered anew.                              *)
BackspaceKeepsKeys ==
    /\ pc = "keys" /\ active_idx = BackspaceKey
    /\ text' = IF text = <<>> THEN text ELSE Front(text)
    /\ column' = IF column > 0 THEN column - 1 ELSE 0
    /\ cells' = [cells EXCEPT ![column'] = 0]
    /\ UNCHANGED <<pc, wc, loaded_wc, words, caption, enabled, active_idx, tap>>

(* The buffer is cut only behind a character typed: before the first the   *)
(* keyboard is rendered for the caption.                                   *)
Backspace ==
    /\ pc = "keys" /\ active_idx = BackspaceKey
    /\ text' = IF text = <<>> THEN text ELSE Front(text)
    /\ column' = IF column > 0 THEN column - 1 ELSE 0
    /\ cells' = [cells EXCEPT ![column'] = 0]
    /\ enabled' = NextChars(IF caption THEN Caption ELSE text')
    /\ UNCHANGED <<pc, wc, loaded_wc, words, caption, active_idx, tap>>

(* The character shown is taken, by the timeout or by LEFT, which also     *)
(* moves on to the next key unless the word is complete.                   *)
Take(left_pressed) ==
    LET c == PressedChar(active_idx, ShownTap) IN
    /\ pc = "tap"
    /\ IF c = 0
       THEN UNCHANGED <<text, caption, column, cells, enabled>>
       ELSE /\ text' = Append(text, c)
            /\ caption' = FALSE
            /\ cells' = IF c = EndMark THEN cells ELSE [cells EXCEPT ![Clamp(column)] = c]
            /\ column' = IF column < Longest THEN column + 1 ELSE column
            /\ enabled' = NextChars(text')
    /\ IF c # 0 /\ Accept(text')
       THEN /\ \E w \in Answers(text') : words' = [words EXCEPT ![loaded_wc] = w]
            /\ pc' = "confirm"
            /\ UNCHANGED <<active_idx, tap>>
       ELSE /\ active_idx' = IF left_pressed THEN NextKey(active_idx) ELSE active_idx
            /\ tap' = 0
            /\ pc' = "keys"
            /\ UNCHANGED words
    /\ UNCHANGED <<wc, loaded_wc>>

(* confirm_chosen_word: LEFT types the word again.                         *)
RejectWord ==
    /\ pc = "confirm"
    /\ StartWord
    /\ UNCHANGED <<wc, loaded_wc, words>>

Mnemonic == [i \in 1..loaded_wc |-> words[i - 1]]

(* Mutant: the checksum is looked at before the last word is counted.      *)
ConfirmWordEarly ==
    /\ pc = "confirm"
    /\ UNCHANGED <<wc, words>>
    /\ loaded_wc' = loaded_wc + 1
    /\ IF loaded_wc' < wc THEN StartWord
       ELSE /\ pc' = IF Mnemonic \in ValidMnemonics THEN "done" ELSE "invalid"
            /\ UNCHANGED typing

(* RIGHT goes on to the next word or, after the last, to the checksum.     *)
ConfirmWord ==
    /\ pc = "confirm"
    /\ UNCHANGED <<wc, words>>
    /\ loaded_wc' = loaded_wc + 1
    /\ IF loaded_wc' < wc THEN StartWord
       ELSE /\ pc' = IF Mnemonic' \in ValidMnemonics THEN "done" ELSE "invalid"
            /\ UNCHANGED typing

(* "Invalid mnemonic seed was typed": from the length on again.            *)
TryAgain ==
    /\ pc = "invalid"
    /\ pc' = "length"
    /\ wc' = 0 /\ loaded_wc' = 0
    /\ UNCHANGED <<words, typing>>

Typing == PressLeft \/ Tap \/ Backspace \/ Take(TRUE) \/ Take(FALSE)

Next == ChooseLength \/ Typing \/ RejectWord \/ ConfirmWord \/ TryAgain

Spec == Init /\ [][Next]_vars

-----------------------------------------------------------------------------
(* Properties                                                              *)

(* However keys, taps, timeouts and backspaces are mixed, what was typed   *)
(* begins a word of the list.  So it never outgrows loaded_text_buffer,    *)
(* which gets no other check in retrieve_seed_word_from_user.              *)
TypedBeginsWord ==
    pc \in {"keys", "tap"} => Hits(List, text, FALSE) # {}

(* The keyboard goes empty in one way only: by a backspace before the      *)
(* first character of a word, which asks for what follows the caption      *)
(* (ui_seed_enter_screen.c:293).  Then it stays empty.  In every other     *)
(* case the keys offer something, and a character taken from them          *)
(* completes a word or leaves a keyboard that offers something again.      *)
KeyboardDiesByBackspace ==
    [][ {pc, pc'} \subseteq {"keys", "tap"} =>
           (enabled' = {} <=> enabled = {} \/ (Backspace /\ caption)) ]_vars

(* The top line shows what was typed and nothing else; while taps are      *)
(* counted it ends in the character that would be taken now.               *)
ScreenShowsTyped ==
    LET shown(s) == [i \in 0..(Longest - 1) |-> At(s, i + 1)]
        c == PressedChar(active_idx, ShownTap)
    IN /\ pc = "keys" => cells = shown(text)
       /\ pc = "tap" => cells = shown(IF c = 0 THEN text ELSE Append(text, c))

(* The word to be confirmed is the only one the typed text allows: all of  *)
(* it if the end mark was typed, its only continuation if not.             *)
ConfirmsTypedWord ==
    pc = "confirm" =>
        {words[loaded_wc]} = IF text[Len(text)] = EndMark
                             THEN Hits(List, Front(text), TRUE)
                             ELSE Hits(List, text, FALSE)

(* The screens together do what MnemonicDialog says: words typed again     *)
(* after LEFT, and a list started over, leave nothing behind.              *)
Dialog == INSTANCE MnemonicDialog WITH
    length <- wc,
    accepted <- Mnemonic,
    outcome <- CASE pc = "done" -> "given" [] pc = "invalid" -> "rejected" [] OTHER -> "open"

ImplementsDialog == Dialog!Spec
=============================================================================
