------------------------------ MODULE PinEntry ------------------------------
(***************************************************************************)
(* Entering and setting up a pin,                                          *)
(* src/epmw_firmware/ui/screens/ui_pin_screen.c.  The keys of the pad are  *)
(* filled with digits in the order of a pseudo-random generator whose      *)
(* state outlives the screen; LEFT moves to the next key, RIGHT takes its  *)
(* digit.  A new pin is typed on two pads and must be the same.            *)
(***************************************************************************)
EXTENDS Integers, Sequences

CONSTANTS
    Keys,                   \* keys of the pad (10), as many as digits
    Multiplier, Increment,  \* of pseudo_random; its uint32_t overflow is lost
    Modulus,                \* in the remainder (0x100)
    Limit,                  \* results from here on are drawn again (250)
    MinLength, MaxLength    \* PIN_CODE_MIN_LENGTH, PIN_CODE_MAX_LENGTH

ASSUME PadAssumption ==
    /\ Keys \in Nat \ {0}
    /\ Multiplier \in Nat /\ Increment \in Nat
    /\ Modulus \in Nat \ {0} /\ Limit \in 0..Modulus
    /\ MinLength \in Nat \ {0} /\ MaxLength \in Nat /\ MinLength <= MaxLength

Digits == 0..(Keys - 1)

VARIABLES
    pc,         \* "idle": no pin screen; "pad": filling the keys; "enter";
                \* "again" and "mismatch": the messages of the setup
    setup,      \* ui_setup_pin_screen or ui_enter_pin_screen
    length,
    state,      \* the static state of pseudo_random
    keys,       \* assigned_values, as far as they are assigned
    active_idx,
    pin,        \* retrieved_pin, as far as it is typed
    pin_code,   \* the first of the two pins of a setup
    given,      \* the pin returned last
    pressed     \* history: the digits of the keys pressed on this screen,
                \* no more than two pins of them

pad == <<state, keys>>
vars == <<pc, setup, length, pad, active_idx, pin, pin_code, given, pressed>>

Values(s) == {s[i] : i \in 1..Len(s)}

Init ==
    /\ pc = "idle" /\ setup = FALSE /\ length = MinLength
    /\ state = 0 /\ keys = <<>>
    /\ active_idx = 0 /\ pin = <<>> /\ pin_code = <<>>
    /\ given = <<>> /\ pressed = <<>>

(* retrieve_pin_from_user begins.                                          *)
NewPad ==
    /\ pc' = "pad"
    /\ keys' = <<>> /\ active_idx' = 0 /\ pin' = <<>>
    /\ UNCHANGED state

(* retrieve_pin_length_from_user: any of the options.                      *)
AskLength ==
    /\ pc = "idle"
    /\ setup' \in BOOLEAN
    /\ length' \in MinLength..MaxLength
    /\ NewPad
    /\ pin_code' = <<>> /\ given' = <<>> /\ pressed' = <<>>

(* Mutant: a digit that is on the pad already is not drawn again.          *)
DrawDigitTwice ==
    LET result == (Multiplier * state + Increment) % Modulus IN
    /\ pc = "pad"
    /\ state' = result
    /\ keys' = IF result < Limit THEN Append(keys, result % Keys) ELSE keys
    /\ pc' = IF Len(keys') = Keys THEN "enter" ELSE "pad"
    /\ UNCHANGED <<setup, length, active_idx, pin, pin_code, given, pressed>>

(* Mutant: a state that is out of range is not stored.                     *)
DrawDigitStuck ==
    LET result == (Multiplier * state + Increment) % Modulus
        digit == result % Keys
        fits == result < Limit /\ digit \notin Values(keys)
    IN /\ pc = "pad"
       /\ state' = IF fits THEN result ELSE state
       /\ keys' = IF fits THEN Append(keys, digit) ELSE keys
       /\ pc' = IF Len(keys') = Keys THEN "enter" ELSE "pad"
       /\ UNCHANGED <<setup, length, active_idx, pin, pin_code, given, pressed>>

(* One turn of the loops of pseudo_random and init_pin_key_pad: a result   *)
(* that is too large or on the pad already is drawn again.                 *)
DrawDigit ==
    LET result == (Multiplier * state + Increment) % Modulus
        digit == result % Keys
        fits == result < Limit /\ digit \notin Values(keys)
    IN /\ pc = "pad"
       /\ state' = result
       /\ keys' = IF fits THEN Append(keys, digit) ELSE keys
       /\ pc' = IF Len(keys') = Keys THEN "enter" ELSE "pad"
       /\ UNCHANGED <<setup, length, active_idx, pin, pin_code, given, pressed>>

PressLeft ==
    /\ pc = "enter"
    /\ active_idx' = IF active_idx + 1 > Keys - 1 THEN 0 ELSE active_idx + 1
    /\ UNCHANGED <<pc, setup, length, pad, pin, pin_code, given, pressed>>

(* compare_pin_codes                                                       *)
ComparePinCodes(a, b) == Len(a) = Len(b) /\ \A i \in 1..Len(a) : a[i] = b[i]

Last(s, n) == SubSeq(s, Len(s) - n + 1, Len(s))

(* RIGHT takes the digit of the active key; with the last digit            *)
(* retrieve_pin_from_user returns to the screen it was called for.         *)
PressRight ==
    /\ pc = "enter"
    /\ pin' = Append(pin, keys[active_idx + 1])
    /\ pressed' = LET all == Append(pressed, keys[active_idx + 1]) IN
                  IF Len(all) > 2 * length THEN Last(all, 2 * length) ELSE all
    /\ CASE Len(pin') <= length - 1 ->
              UNCHANGED <<pc, pin_code, given>>
         [] Len(pin') > length - 1 /\ setup /\ pin_code = <<>> ->
              pc' = "again" /\ pin_code' = pin' /\ UNCHANGED given
         [] Len(pin') > length - 1 /\ setup /\ pin_code # <<>> ->
              IF ComparePinCodes(pin_code, pin')
              THEN pc' = "idle" /\ given' = pin_code /\ UNCHANGED pin_code
              ELSE pc' = "mismatch" /\ UNCHANGED <<pin_code, given>>
         [] OTHER ->
              pc' = "idle" /\ given' = pin' /\ UNCHANGED pin_code
    /\ UNCHANGED <<setup, length, pad, active_idx>>

(* "Enter pin once again": the same length on a new pad.                   *)
TypeAgain ==
    /\ pc = "again"
    /\ NewPad
    /\ UNCHANGED <<setup, length, pin_code, given, pressed>>

(* Mutant: the first pin is kept when the two did not match.               *)
RestartKeepingFirst ==
    /\ pc = "mismatch"
    /\ NewPad
    /\ UNCHANGED <<setup, length, pin_code, given, pressed>>

(* "Entered pins do not match": from the first pin on again.               *)
Restart ==
    /\ pc = "mismatch"
    /\ NewPad
    /\ pin_code' = <<>>
    /\ UNCHANGED <<setup, length, given, pressed>>

Next == AskLength \/ DrawDigit \/ PressLeft \/ PressRight \/ TypeAgain \/ Restart

Spec == Init /\ [][Next]_vars

(* Filling the pad waits for nobody.                                       *)
FairSpec == Spec /\ WF_vars(DrawDigit)

-----------------------------------------------------------------------------
(* Properties                                                              *)

TypeOK ==
    /\ pc \in {"idle", "pad", "enter", "again", "mismatch"}
    /\ setup \in BOOLEAN /\ length \in MinLength..MaxLength
    /\ state \in 0..(Modulus - 1)
    /\ keys \in Seq(Digits) /\ Len(keys) <= Keys
    /\ active_idx \in Digits
    /\ \A s \in {pin, pin_code, given} : s \in Seq(Digits) /\ Len(s) <= length
    /\ pressed \in Seq(Digits) /\ Len(pressed) <= 2 * length

(* Every digit is on the pad exactly once, whatever state earlier screens  *)
(* left pseudo_random in: a pin can be typed on any pad.                   *)
PadHoldsEveryDigit ==
    pc = "enter" => Len(keys) = Keys /\ Values(keys) = Digits

(* The pin handed over is what was pressed last, and for a new pin what    *)
(* was pressed twice in a row, however many attempts did not match.        *)
GivenAsTyped ==
    pc = "idle" /\ given # <<>> =>
        /\ Last(pressed, length) = given
        /\ setup => pressed = given \o given

(* The generator does not run in a circle that misses a digit.             *)
PadIsFinished == pc = "pad" ~> pc = "enter"
=============================================================================
