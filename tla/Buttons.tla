------------------------------ MODULE Buttons ------------------------------
(***************************************************************************)
(* The two buttons: button_get_state of src/epmw_firmware/buttons.c and    *)
(* the loops of src/epmw_firmware/ui/ui_common.c that wait for a press and *)
(* then for the release of both.  Time passes in ticks of ten              *)
(* milliseconds, the delay of the loops.  A contact bounces for a while    *)
(* after the finger moved: a sample taken then reads anything.             *)
(***************************************************************************)
EXTENDS Naturals

CONSTANTS
    Debounce,       \* BUTTONS_DEBOUNCE_TIME_MS (2 ticks)
    Timeout,        \* of ui_wait_and_get_pressed_button_with_timeout
    Bounce,         \* ticks during which a contact bounces, external
    Hold,           \* shortest press and shortest pause of a user, external
    Busy            \* longest a screen works on a press before it waits again

ASSUME TimeAssumption ==
    /\ Debounce \in Nat \ {0} /\ Timeout \in Nat /\ Bounce \in Nat /\ Busy \in Nat
    /\ Hold \in Nat /\ Bounce <= Hold

(* The contacts rest before the second sample, and fingers are slower.     *)
ASSUME ContactAssumption == Bounce <= Debounce /\ Debounce + Bounce <= Hold

(* After both fingers left a screen is ready again before the next press.  *)
ASSUME PauseAssumption == Busy + Bounce + Debounce < Hold

Button == {"LEFT", "RIGHT"}
Other(b) == IF b = "LEFT" THEN "RIGHT" ELSE "LEFT"

VARIABLES
    finger,         \* [Button -> BOOLEAN]: whether the user holds it down
    since,          \* ticks since the finger moved, no more than Hold
    alone,          \* [Button -> BOOLEAN]: it was pressed, and the other not
    seen,           \* history: how often the last press was reported, up to 2
    loop,           \* "wait", "handle" (the screen has a press) or "release"
    button, stage,  \* what button_get_state samples: "first", "second"; or
                    \* "rest", the delay of the loop
    timer,          \* ticks left of a vTaskDelay
    timed, elapsed  \* whether the wait has a timeout, time_elapsed

user == <<finger, since, alone>>
code == <<loop, button, stage, timed, elapsed>>
buttonsVars == <<user, seen, code, timer>>

ButtonsInit ==
    /\ finger = [b \in Button |-> FALSE] /\ since = [b \in Button |-> Hold]
    /\ alone = [b \in Button |-> FALSE] /\ seen = [b \in Button |-> 1]
    /\ loop = "wait" /\ button = "LEFT" /\ stage = "first"
    /\ timer = 0 /\ timed = FALSE /\ elapsed = 0

-----------------------------------------------------------------------------
(* The user, external                                                      *)

(* Time passes while the task sleeps.  A finger that has rested long       *)
(* enough may move.                                                        *)
Tick ==
    /\ timer > 0
    /\ timer' = timer - 1
    /\ \E moved \in SUBSET {b \in Button : since[b] = Hold} :
        /\ finger' = [b \in Button |-> IF b \in moved THEN ~finger[b] ELSE finger[b]]
        /\ since' = [b \in Button |-> IF b \in moved THEN 0
                                      ELSE IF since[b] < Hold THEN since[b] + 1 ELSE Hold]
        /\ seen' = [b \in Button |-> IF b \in moved /\ ~finger[b] THEN 0 ELSE seen[b]]
        /\ alone' = [b \in Button |->
              IF finger'[Other(b)] \/ since'[Other(b)] < Hold THEN FALSE
              ELSE IF b \in moved THEN ~finger[b] ELSE alone[b]]
    /\ UNCHANGED code

(* gpio_get of a pulled-up pin: whether the sample says the button is down.*)
Samples(b) == IF since[b] < Bounce THEN BOOLEAN ELSE {finger[b]}

-----------------------------------------------------------------------------
(* The firmware                                                            *)

NextWait ==
    /\ loop' = "wait" /\ button' = "LEFT" /\ stage' = "first"
    /\ elapsed' = 0 /\ timed' \in BOOLEAN

RestThen ==
    /\ stage' = "rest" /\ timer' = 1
    /\ UNCHANGED <<loop, button, timed, elapsed, seen>>

(* Mutant: LEFT is up, so RIGHT is not looked at.                          *)
TryRightSkipped == RestThen

TryRight ==
    /\ button' = "RIGHT" /\ stage' = "first"
    /\ UNCHANGED <<loop, timed, elapsed, seen, timer>>

(* What the loops do with the answer of button_get_state.                  *)
Answer(pressed) ==
    \/ /\ loop = "wait" /\ pressed
       /\ loop' = "handle"
       /\ seen' = [seen EXCEPT ![button] = IF seen[button] < 2 THEN @ + 1 ELSE 2]
       /\ timer' \in 0..Busy
       /\ UNCHANGED <<button, stage, timed, elapsed>>
    \/ /\ loop = "wait" /\ ~pressed
       /\ IF button = "LEFT" THEN TryRight ELSE RestThen
    \/ /\ loop = "release" /\ pressed
       /\ RestThen
    \/ /\ loop = "release" /\ ~pressed
       /\ IF button = "LEFT" THEN TryRight
          ELSE NextWait /\ UNCHANGED <<seen, timer>>

(* Mutant: the first sample is believed.                                   *)
FirstSampleBelieved ==
    /\ stage = "first" /\ timer = 0 /\ loop # "handle"
    /\ \E down \in Samples(button) : Answer(down)
    /\ UNCHANGED user

(* button_get_state: released at once, or a second look later.             *)
FirstSample ==
    /\ stage = "first" /\ timer = 0 /\ loop # "handle"
    /\ \E down \in Samples(button) :
        IF down THEN /\ stage' = "second" /\ timer' = Debounce
                     /\ UNCHANGED <<loop, button, timed, elapsed, seen>>
        ELSE Answer(FALSE)
    /\ UNCHANGED user

SecondSample ==
    /\ stage = "second" /\ timer = 0 /\ loop # "handle"
    /\ \E down \in Samples(button) : Answer(down)
    /\ UNCHANGED user

(* The screen has done its work and waits for the release.                 *)
Handle ==
    /\ loop = "handle" /\ timer = 0
    /\ loop' = "release" /\ button' = "LEFT" /\ stage' = "first"
    /\ UNCHANGED <<user, seen, timer, timed, elapsed>>

(* After the delay both buttons are looked at again, unless the time is up *)
(* and the screen, having taken note of it, begins another wait.           *)
Rested ==
    /\ stage = "rest" /\ timer = 0 /\ loop # "handle"
    /\ IF loop = "wait" /\ timed /\ elapsed + 1 + Debounce >= Timeout
       THEN NextWait
       ELSE /\ button' = "LEFT" /\ stage' = "first"
            /\ elapsed' = IF loop = "wait" /\ timed THEN elapsed + 1 ELSE elapsed
            /\ UNCHANGED <<loop, timed>>
    /\ UNCHANGED <<user, seen, timer>>

Firmware == FirstSample \/ SecondSample \/ Handle \/ Rested

ButtonsNext == Tick \/ Firmware

ButtonsSpec == ButtonsInit /\ [][ButtonsNext]_buttonsVars

-----------------------------------------------------------------------------
(* Properties                                                              *)

(* Every variable keeps its range; time_elapsed never outgrows the timeout.*)
ButtonsTypeOK ==
    /\ finger \in [Button -> BOOLEAN] /\ since \in [Button -> 0..Hold]
    /\ alone \in [Button -> BOOLEAN] /\ seen \in [Button -> 0..2]
    /\ loop \in {"wait", "handle", "release"} /\ button \in Button
    /\ stage \in {"first", "second", "rest"}
    /\ timer \in 0..(Debounce + Busy + 1)
    /\ timed \in BOOLEAN /\ elapsed \in 0..Timeout

(* However the contacts bounce, and whenever fingers move during the       *)
(* delays of the loops, a press is reported once at most and never when    *)
(* there was none.                                                         *)
ReportedOnce == \A b \in Button : seen[b] <= 1

(* A press of one button that is held long enough is reported before the   *)
(* finger leaves it, with timeouts running out in between or not.          *)
NoPressLost ==
    [][\A b \in Button : alone[b] /\ finger[b] /\ ~finger'[b] => seen[b] = 1]_buttonsVars
-----------------------------------------------------------------------------
(* The inductive invariant behind ReportedOnce                             *)

(* A press that was reported and goes on keeps the loops from a new wait:  *)
(* its contact rests, and the loop that waits for the release sees it.     *)
HeldIsSeen ==
    /\ \A b \in Button : seen[b] = 1 /\ finger[b] => loop # "wait" /\ since[b] >= Bounce
    /\ loop = "release" /\ button = "RIGHT" /\ seen["LEFT"] = 1 => ~finger["LEFT"]

(* Between two samples a finger moves once at most: who holds the button   *)
(* down held it at the first sample or moved before the contact could rest,*)
(* and a release in between is one of a press not yet reported.            *)
SampleIsSteady ==
    stage = "second" /\ loop # "handle" =>
        /\ timer <= Debounce
        /\ finger[button] => since[button] = Hold \/ since[button] + timer >= Debounce
        /\ ~finger[button] => since[button] + timer < Debounce + Bounce
        /\ loop = "wait" /\ ~finger[button] /\ since[button] + timer < Debounce
              => seen[button] # 1

ButtonsInv == ButtonsTypeOK /\ ReportedOnce /\ HeldIsSeen /\ SampleIsSteady
-----------------------------------------------------------------------------
(* The inductive invariant behind NoPressLost                              *)

(* How long the task may sleep in each place.                              *)
SleepIsShort ==
    /\ loop = "handle" => timer <= Busy
    /\ loop = "release" => timer <= Debounce
    /\ loop # "handle" /\ stage = "first" => timer = 0
    /\ loop # "handle" /\ stage = "rest" => timer <= 1

(* With both fingers away the screen's work and the wait for the release   *)
(* are over before a finger may come back.                                 *)
PauseIsEnough ==
    /\ loop = "handle" /\ ~finger[button] => since[button] + timer <= Busy + Bounce
    /\ loop = "release" =>
        \E b \in Button : finger[b] \/ since[b] + timer <= Busy + Bounce + Debounce

(* Who is alone is down, beside a button that is up and rests.             *)
AloneIsDown ==
    \A b \in Button :
        alone[b] => finger[b] /\ ~finger[Other(b)] /\ since[Other(b)] = Hold

(* A press not yet reported is being waited for, is looked at as soon as   *)
(* its contact rests, and then only the second sample is left.             *)
PressIsAwaited ==
    \A b \in Button : alone[b] /\ seen[b] = 0 =>
        /\ loop = "wait"
        /\ IF stage = "second" THEN button = b /\ since[b] + timer <= Bounce + Debounce
           ELSE since[b] + timer <= Bounce
        /\ b = "LEFT" /\ button = "RIGHT" /\ stage = "first" => since[b] < Bounce

PressInv == ButtonsInv /\ SleepIsShort /\ PauseIsEnough /\ AloneIsDown /\ PressIsAwaited
=============================================================================
