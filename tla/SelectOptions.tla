--------------------------- MODULE SelectOptions ---------------------------
(***************************************************************************)
(* Choosing one of several numbers,                                        *)
(* src/epmw_firmware/ui/screens/ui_select_from_options_screen.c: LEFT goes *)
(* through the options, RIGHT asks to confirm the one displayed, and LEFT  *)
(* goes back from there.  The option is drawn behind the prompt, over what *)
(* the option before left in that line.                                    *)
(***************************************************************************)
EXTENDS Naturals, Sequences, FiniteSetsExt

CONSTANTS
    Callers,        \* [prompt: length of screen_text's last line, options: their texts]
    Columns,        \* characters of a line (16)
    ColumnWrap,     \* x is a uint8_t: the column after which it is 0 again (32)
    Erased          \* blanks drawn before an option (15)

ASSUME SizeAssumption ==
    /\ Columns \in Nat \ {0} /\ ColumnWrap \in Nat /\ Columns <= ColumnWrap
    /\ Erased \in Nat

(* The options of a caller fit behind its prompt and under the blanks, and *)
(* neither wraps around to the beginning of the line.                      *)
ASSUME CallerAssumption ==
    \A c \in Callers :
        /\ c.prompt \in Nat /\ c.prompt + 1 + Erased <= ColumnWrap
        /\ c.options \in Seq(Seq(STRING)) \ {<<>>}
        /\ \A i \in 1..Len(c.options) :
              /\ c.prompt + 1 + Len(c.options[i]) <= Columns
              /\ Len(c.options[i]) <= Erased

VARIABLES
    pc,                     \* "idle", "choose", "left" (LEFT is down),
                            \* "confirm", "given" (the screen returned)
    caller,
    current_option_idx,
    line                    \* the line of the option on the display

vars == <<pc, caller, current_option_idx, line>>

Blank == " "
PromptChar == "p"
Empty == [column \in 0..(Columns - 1) |-> Blank]
Text(i) == caller.options[i + 1]
Repeat(char, n) == [i \in 1..n |-> char]

(* display_puts within a line: x counts in uint8_t, and what lies outside  *)
(* the screen is not drawn.                                                *)
Puts(on, start, text) ==
    [column \in DOMAIN on |->
        LET here == {i \in 1..Len(text) : (start + i - 1) % ColumnWrap = column} IN
        IF here = {} THEN on[column] ELSE text[Max(here)]]

(* Mutant: the option before is not erased.                                *)
DisplayWithoutErasing(on, start, i) ==
    IF i >= Len(caller.options) THEN on ELSE Puts(on, start, Text(i))

(* display_options_value                                                   *)
DisplayOptionsValue(on, start, i) ==
    IF i >= Len(caller.options) THEN on
    ELSE Puts(Puts(on, start, Repeat(Blank, Erased)), start, Text(i))

(* option_start_x: one column is left free behind the prompt.              *)
OptionStart == caller.prompt + 1

(* The screen is drawn anew and shows the option.                          *)
ShowChoice(i) ==
    /\ pc' = "choose"
    /\ line' = DisplayOptionsValue(Puts(Empty, 0, Repeat(PromptChar, caller.prompt)),
                                   OptionStart, i)

Init ==
    /\ pc = "idle" /\ caller \in Callers
    /\ current_option_idx = 0 /\ line = Empty

Open ==
    /\ pc = "idle"
    /\ ShowChoice(0)
    /\ current_option_idx' = 0
    /\ UNCHANGED caller

(* LEFT: the next option is chosen, and displayed after the release.       *)
NextOption ==
    /\ pc = "choose"
    /\ current_option_idx' = IF current_option_idx + 1 >= Len(caller.options) THEN 0
                             ELSE current_option_idx + 1
    /\ pc' = "left"
    /\ UNCHANGED <<caller, line>>

Released ==
    /\ pc = "left"
    /\ pc' = "choose"
    /\ line' = DisplayOptionsValue(line, OptionStart, current_option_idx)
    /\ UNCHANGED <<caller, current_option_idx>>

(* RIGHT: "Selected value:" and the option in the line below.              *)
AskToConfirm ==
    /\ pc = "choose"
    /\ pc' = "confirm"
    /\ line' = DisplayOptionsValue(Empty, 0, current_option_idx)
    /\ UNCHANGED <<caller, current_option_idx>>

(* LEFT goes back to the options, where the same one is still chosen.      *)
GoBack ==
    /\ pc = "confirm"
    /\ ShowChoice(current_option_idx)
    /\ UNCHANGED <<caller, current_option_idx>>

(* RIGHT returns current_option_idx.                                       *)
Give ==
    /\ pc = "confirm"
    /\ pc' = "given"
    /\ UNCHANGED <<caller, current_option_idx, line>>

(* The caller has its option; the screen is used again.                    *)
CallAgain ==
    /\ pc = "given"
    /\ pc' = "idle"
    /\ caller' \in Callers
    /\ current_option_idx' = 0 /\ line' = Empty

Next ==
    Open \/ NextOption \/ Released \/ AskToConfirm \/ GoBack \/ Give \/ CallAgain

Spec == Init /\ [][Next]_vars

-----------------------------------------------------------------------------
(* Properties                                                              *)

TypeOK ==
    /\ pc \in {"idle", "choose", "left", "confirm", "given"}
    /\ caller \in Callers
    /\ current_option_idx \in 0..(Len(caller.options) - 1)
    /\ DOMAIN line = 0..(Columns - 1)

(* The line that has the text from a column on and is blank otherwise.     *)
OnlyText(prompt, start, text) ==
    [column \in 0..(Columns - 1) |->
        IF column < prompt THEN PromptChar
        ELSE IF column \in start..(start + Len(text) - 1) THEN text[column - start + 1]
        ELSE Blank]

(* Whenever the user may press a button, the display shows the option that *)
(* RIGHT would take, all of it, with nothing left of a longer one before   *)
(* it and with the prompt in place; and the option returned is the one the *)
(* confirmation showed.  A blank too many would wrap around to column 0    *)
(* and erase the prompt, one too few leaves digits behind.                 *)
ShowsTheOption ==
    /\ pc = "choose" =>
        line = OnlyText(caller.prompt, OptionStart, Text(current_option_idx))
    /\ pc \in {"confirm", "given"} => line = OnlyText(0, 0, Text(current_option_idx))
=============================================================================
