----------------------------- MODULE SeedTyping -----------------------------
(***************************************************************************)
(* SeedEntry with two kinds of users: one presses anything at any time;    *)
(* the other wants a certain word and knows the keyboard: moves on until a *)
(* key has the next character of the word, taps until it is shown and then *)
(* waits for the timeout.                                                  *)
(***************************************************************************)
EXTENDS SeedEntry

VARIABLE target     \* the word the user wants, or Invalid for none

Wants == target \in WordIndices

Wanted == LET c == At(GetWord(List, target), Len(text) + 1) IN
          IF c = 0 THEN EndMark ELSE c

ShownIsWanted == pc = "tap" /\ PressedChar(active_idx, ShownTap) = Wanted

AnyUser == ~Wants /\ Next /\ UNCHANGED target

UserChoosesLength == Wants /\ ChooseLength /\ UNCHANGED target

UserMoves ==
    /\ Wants
    /\ pc = "keys" /\ Wanted \notin OnKey(active_idx)
    /\ PressLeft
    /\ UNCHANGED target

UserTaps ==
    /\ Wants
    /\ pc = "keys" => Wanted \in OnKey(active_idx)
    /\ ~ShownIsWanted
    /\ Tap
    /\ UNCHANGED target

UserWaits ==
    /\ Wants
    /\ ShownIsWanted
    /\ Take(FALSE)
    /\ UNCHANGED target

UserConfirms ==
    /\ Wants
    /\ pc = "confirm" /\ words[loaded_wc] = target
    /\ ConfirmWord \/ RejectWord
    /\ target' \in WordIndices

UserTriesAgain == Wants /\ TryAgain /\ UNCHANGED target

TypingInit == Init /\ target \in WordIndices \cup {Invalid}

TypingNext ==
    AnyUser \/ UserChoosesLength \/ UserMoves \/ UserTaps \/ UserWaits \/ UserConfirms
    \/ UserTriesAgain

(* Who wants a word goes on, and the firmware answers every press.         *)
TypingSpec ==
    /\ TypingInit
    /\ [][TypingNext]_<<vars, target>>
    /\ WF_<<vars, target>>(UserMoves \/ UserTaps \/ UserWaits)

(* Every word of the list can be typed, those that begin another word and  *)
(* those that are the only one with their first letter included.           *)
EveryWordCanBeTyped ==
    \A w \in WordIndices :
        (target = w /\ pc = "keys") ~> (pc = "confirm" /\ words[loaded_wc] = w)
=============================================================================
