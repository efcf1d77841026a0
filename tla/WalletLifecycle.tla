--------------------------- MODULE WalletLifecycle ---------------------------
(***************************************************************************)
(* The life of the wallet under ui_task, src/epmw_firmware/ui.c: boot,     *)
(* initialisation, the debug deletion, the lock screen with its attempts   *)
(* counter, and the xpub shown at the end, on top of WalletManagement and  *)
(* the flash page.  ui_task is the only task, so its steps do not          *)
(* interleave with one another; a save interleaves with losing power.      *)
(*                                                                         *)
(* pc names the place ui_task has reached.  Screens that only show text    *)
(* and wait for a press are one step.  A pin comes from PinCodes, a        *)
(* mnemonic from Mnemonics: PinEntry and SeedEntry model how they are      *)
(* typed.                                                                  *)
(***************************************************************************)
EXTENDS WalletManagement, Bits

CONSTANTS
    PIN_CODE_MAX_RETRY_COUNT,   \* config.h (16)
    WaitBits,                   \* the width of seconds_to_wait (16)
    PinCodes,                   \* what ui_enter_pin_screen can return
    Mnemonics,                  \* what the restore screen can return
    None,                       \* no owner, nothing shown
    PowerFailsDuringSave,       \* may power fail while the page is rewritten?
    MaxWasted                   \* bound: attempts that power losses leave unjudged

VARIABLES
    pc,
    current_selection,      \* 0: new wallet, 1: restore wallet
    words,                  \* the mnemonic entered on the restore screen
    pin_code,               \* the pin entered last, to set it up or to unlock
    pin_failed_attempts,    \* the counter as the lock screen read it
    seconds_to_wait,
    shown,                  \* the mnemonic whose xpub is on the display
    \* History, not in the program:
    owner,                  \* None or the pin and mnemonic of the last initialisation
    rejections,             \* pins rejected since then or since the last unlock,
    wasted,                 \* attempts since then that power losses left unjudged,
    laps,                   \* and how often since then the counter ran over
    session                 \* pins rejected since power was last lost

uiVars == <<pc, current_selection, words, pin_code, pin_failed_attempts, seconds_to_wait, shown>>
storeVars == <<page, cursor, wallet_data>>
history == <<owner, rejections, wasted, laps, session>>
vars == <<storeVars, uiVars, history>>

ByteAssumption ==
    /\ ByteMax \in Nat
    /\ PIN_CODE_MAX_RETRY_COUNT \in 1..ByteMax
    /\ WaitBits \in Nat
    /\ MaxWasted \in Nat
    /\ PowerFailsDuringSave \in BOOLEAN
ASSUME ByteAssumption

(* What the two input screens return is no pattern of an erased or zeroed  *)
(* page: a pin has four to eight digits, a word count is 3, 6, ... 24.     *)
ASSUME InputAssumption ==
    /\ Mnemonics \subseteq [wc : 1..(ByteMax - 1), words_1 : WordHalves, words_2 : WordHalves]
    /\ \A m \in Mnemonics : m.wc % 3 = 0
    /\ PinCodes \subseteq [length : 1..(ByteMax - 1), code : Codes]
    /\ {NoWords, ErasedWords} \cap WordHalves = {}
    /\ NoWords # ErasedWords
    /\ {NoDigits, ErasedDigits} \cap Codes = {}
    /\ None \notin PinCodes \cup Mnemonics \cup [pin : PinCodes, mnemonic : Mnemonics]

-----------------------------------------------------------------------------

(* The locals of ui_task's functions before they are used.                 *)
NoSeedEntered == Mnemonic(ZeroRecord)
NoPinEntered == PinOf(ZeroRecord)

Init ==
    /\ page = ErasedRecord
    /\ cursor = 0
    /\ wallet_data = ZeroRecord
    /\ pc = "reset"
    /\ current_selection = 0
    /\ words = NoSeedEntered
    /\ pin_code = NoPinEntered
    /\ pin_failed_attempts = 0
    /\ seconds_to_wait = 0
    /\ shown = None
    /\ owner = None
    /\ rejections = 0
    /\ wasted = 0
    /\ laps = 0
    /\ session = 0

(* The attempts are counted anew.                                          *)
CountAnew == rejections' = 0 /\ wasted' = 0 /\ laps' = 0

(* ui_task runs only when the call that saves has returned.                *)
At(label) == FlashIdle /\ pc = label

Goto(label) == pc' = label

(* main: wallet_management_init, then the scheduler starts ui_task.        *)
Boot ==
    /\ At("reset")
    /\ LoadFromFlash
    /\ Goto("splash")
    /\ UNCHANGED <<current_selection, words, pin_code, pin_failed_attempts, seconds_to_wait,
                   shown, history>>

(* ui_task after the splash screen.                                        *)
StartUi ==
    /\ At("splash")
    /\ LoadFromFlash
    /\ Goto(IF Initialized(wallet_data') THEN "debug_delete" ELSE "menu")
    /\ UNCHANGED <<current_selection, words, pin_code, pin_failed_attempts, seconds_to_wait,
                   shown, history>>

(* ui_new_wallet_new_or_restore_selection, the left button.                *)
ToggleSelection ==
    /\ At("menu")
    /\ current_selection' = (current_selection + 1) % 2
    /\ UNCHANGED <<storeVars, pc, words, pin_code, pin_failed_attempts, seconds_to_wait,
                   shown, history>>

(* ... and the right one.  A new wallet is not implemented: its screen     *)
(* never returns.                                                          *)
ConfirmSelection ==
    /\ At("menu")
    /\ Goto(IF current_selection = 1 THEN "restore" ELSE "new_wallet")
    /\ UNCHANGED <<storeVars, current_selection, words, pin_code, pin_failed_attempts,
                   seconds_to_wait, shown, history>>

RestoreWallet ==
    /\ At("restore")
    /\ words' \in Mnemonics
    /\ Goto("setup_pin")
    /\ UNCHANGED <<storeVars, current_selection, pin_code, pin_failed_attempts,
                   seconds_to_wait, shown, history>>

(* The three saves of the initialisation, one after the other.             *)
SetupPin ==
    /\ At("setup_pin")
    /\ pin_code' \in PinCodes
    /\ SetPinCode(pin_code')
    /\ Goto("save_seed")
    /\ UNCHANGED <<current_selection, words, pin_failed_attempts, seconds_to_wait,
                   shown, history>>

SaveSeed ==
    /\ At("save_seed")
    /\ SetMnemonicSeed(words)
    /\ Goto("save_flag")
    /\ UNCHANGED <<current_selection, words, pin_code, pin_failed_attempts, seconds_to_wait,
                   shown, history>>

SaveFlag ==
    /\ At("save_flag")
    /\ SetAsInitialized
    /\ Goto("locked")
    /\ owner' = [pin |-> pin_code, mnemonic |-> words]
    /\ CountAnew
    /\ UNCHANGED <<current_selection, words, pin_code, pin_failed_attempts, seconds_to_wait,
                   shown, session>>

(* ui_debug_wallet_delete: "NO" on either screen goes to the lock screen.  *)
KeepWallet ==
    /\ At("debug_delete") \/ At("really_delete")
    /\ Goto("locked")
    /\ UNCHANGED <<storeVars, current_selection, words, pin_code, pin_failed_attempts,
                   seconds_to_wait, shown, history>>

AskAgain ==
    /\ At("debug_delete")
    /\ Goto("really_delete")
    /\ UNCHANGED <<storeVars, current_selection, words, pin_code, pin_failed_attempts,
                   seconds_to_wait, shown, history>>

DebugDelete ==
    /\ At("really_delete")
    /\ WalletDelete
    /\ Goto("deleted")
    /\ owner' = None
    /\ CountAnew
    /\ UNCHANGED <<current_selection, words, pin_code, pin_failed_attempts, seconds_to_wait,
                   shown, session>>

-----------------------------------------------------------------------------
(* ui_lock_screen                                                          *)

(* uint16_t seconds_to_wait = 1 << pin_failed_attempts.  What does not fit *)
(* is cut off.  From 32 on C leaves the shift undefined; the Cortex-M3's   *)
(* LSL gives zero, as does the cut from WaitBits on.                       *)
SecondsToWait(failed) == IF failed < WaitBits THEN Shifted(failed) ELSE 0

LeaveLockPicture ==
    /\ At("locked")
    /\ Goto("enter_pin")
    /\ UNCHANGED <<storeVars, current_selection, words, pin_code, pin_failed_attempts,
                   seconds_to_wait, shown, history>>

(* The counter is read and the pin entered; the attempt is saved as failed *)
(* before it is judged.                                                    *)
EnterPin ==
    /\ At("enter_pin")
    /\ pin_failed_attempts' = wallet_data.pin_failed_attempts
    /\ pin_code' \in PinCodes
    /\ seconds_to_wait' = SecondsToWait(pin_failed_attempts')
    /\ SetPinFailedAttempts(pin_failed_attempts' + 1)
    /\ laps' = IF pin_failed_attempts' = ByteMax THEN laps + 1 ELSE laps
    /\ Goto("wait")
    /\ UNCHANGED <<current_selection, words, shown, owner, rejections, wasted, session>>

(* Mutant: a second passes and is not counted.                             *)
WaitNotCounted ==
    /\ At("wait")
    /\ seconds_to_wait > 0
    /\ UNCHANGED vars

WaitASecond ==
    /\ At("wait")
    /\ seconds_to_wait > 0
    /\ seconds_to_wait' = seconds_to_wait - 1
    /\ UNCHANGED <<storeVars, pc, current_selection, words, pin_code, pin_failed_attempts,
                   shown, history>>

(* Mutant: the limit is off by one.                                        *)
LastAttemptTooLate == pin_failed_attempts >= PIN_CODE_MAX_RETRY_COUNT

LastAttempt == pin_failed_attempts >= PIN_CODE_MAX_RETRY_COUNT - 1

(* The wait is over: "Checking pin...".                                    *)
Judge ==
    /\ At("wait")
    /\ seconds_to_wait = 0

CountRejection ==
    /\ rejections' = rejections + 1
    /\ session' = session + 1
    /\ UNCHANGED <<wasted, laps>>

AcceptPin ==
    /\ Judge
    /\ CheckPinCode(pin_code)
    /\ SetPinFailedAttempts(0)
    /\ CountAnew
    /\ Goto("derive")
    /\ UNCHANGED <<current_selection, words, pin_code, pin_failed_attempts, seconds_to_wait,
                   shown, owner, session>>

RejectLastPin ==
    /\ Judge
    /\ ~CheckPinCode(pin_code)
    /\ LastAttempt
    /\ WalletDelete
    /\ owner' = None
    /\ CountRejection
    /\ Goto("deleted")
    /\ UNCHANGED <<current_selection, words, pin_code, pin_failed_attempts, seconds_to_wait,
                   shown>>

(* "Please try again", until a button is pressed.                          *)
RejectPin ==
    /\ Judge
    /\ ~CheckPinCode(pin_code)
    /\ ~LastAttempt
    /\ CountRejection
    /\ Goto("enter_pin")
    /\ UNCHANGED <<storeVars, current_selection, words, pin_code, pin_failed_attempts,
                   seconds_to_wait, shown, owner>>

-----------------------------------------------------------------------------
(* ui_task after the lock screen, and the loss of power                    *)

(* wallet_management_get_mnemonic_seed reads the page once more.  On a     *)
(* page that is not initialized it would return no words.                  *)
ShowXpub ==
    /\ At("derive")
    /\ LoadFromFlash
    /\ shown' = IF Initialized(wallet_data') THEN Mnemonic(wallet_data') ELSE NoSeedEntered
    /\ Goto("show")
    /\ UNCHANGED <<current_selection, words, pin_code, pin_failed_attempts, seconds_to_wait,
                   history>>

(* Power fails, any number of times: RAM is gone, the page stays.  An      *)
(* attempt that was saved and not judged yet is wasted.                    *)
PowerLoss ==
    /\ FlashIdle \/ PowerFailsDuringSave
    /\ pc = "wait" => wasted < MaxWasted
    /\ wasted' = IF pc = "wait" THEN wasted + 1 ELSE wasted
    /\ session' = 0
    /\ cursor' = 0
    /\ wallet_data' = ZeroRecord
    /\ pc' = "reset"
    /\ current_selection' = 0
    /\ words' = NoSeedEntered
    /\ pin_code' = NoPinEntered
    /\ pin_failed_attempts' = 0
    /\ seconds_to_wait' = 0
    /\ shown' = None
    /\ UNCHANGED <<page, owner, rejections, laps>>

ContinueSave ==
    /\ ProgramNext
    /\ UNCHANGED <<uiVars, history>>

(* The screens that never return: they only delay.                         *)
Idle ==
    /\ At("new_wallet") \/ At("deleted") \/ At("show")
    /\ UNCHANGED vars

Initialise == ToggleSelection \/ ConfirmSelection \/ RestoreWallet \/ SetupPin \/ SaveSeed \/ SaveFlag
AskDelete == KeepWallet \/ AskAgain \/ DebugDelete
LockScreen == LeaveLockPicture \/ EnterPin \/ WaitASecond \/ AcceptPin \/ RejectLastPin \/ RejectPin

Ui == Boot \/ StartUi \/ Initialise \/ AskDelete \/ LockScreen \/ ShowXpub \/ Idle

Next == Ui \/ ContinueSave \/ PowerLoss

Spec == Init /\ [][Next]_vars

(* The scheduler keeps running the only task, and the user keeps pressing  *)
(* buttons on the screens that ask for it.                                 *)
FairSpec == Spec /\ WF_vars(Ui) /\ WF_vars(ContinueSave)

-----------------------------------------------------------------------------
(* Properties                                                              *)

Labels == {"reset", "splash", "menu", "new_wallet", "restore", "setup_pin", "save_seed",
           "save_flag", "debug_delete", "really_delete", "locked", "enter_pin", "wait",
           "derive", "show", "deleted"}

(* Every variable keeps the type its C declaration gives it.               *)
TypeOK ==
    /\ page \in WalletRecord
    /\ cursor \in 0..7
    /\ wallet_data \in WalletRecord
    /\ pc \in Labels
    /\ current_selection \in {0, 1}
    /\ words \in Mnemonics \cup {NoSeedEntered}
    /\ pin_code \in PinCodes \cup {NoPinEntered}
    /\ pin_failed_attempts \in 0..ByteMax
    /\ seconds_to_wait \in Nat
    /\ shown \in {None} \cup [wc : 0..ByteMax, words_1 : WordHalves \cup {NoWords, ErasedWords},
                              words_2 : WordHalves \cup {NoWords, ErasedWords}]
    /\ owner \in {None} \cup [pin : PinCodes, mnemonic : Mnemonics]
    /\ rejections \in Nat /\ wasted \in Nat /\ laps \in Nat /\ session \in Nat

(* A record whose last cell was programmed: its save was not cut short.    *)
Complete(record) == record.words_2 # ErasedWords

(* What the flash holds once the save in progress, if any, is over.        *)
Stable == IF FlashIdle THEN page ELSE wallet_data

(* What a record has counted: the attempts rejected, those left unjudged   *)
(* and the one being judged, less the laps of the byte.                    *)
AttemptsAre(record) ==
    record.pin_failed_attempts + laps * (ByteMax + 1)
        = rejections + wasted + (IF pc = "wait" THEN 1 ELSE 0)

(* A page that says it is initialized and was saved to its end is the      *)
(* owner's: the pin and the mnemonic of the last initialisation, and a     *)
(* counter that has missed no attempt, judged or not, but for the laps of  *)
(* its byte.  Whatever power losses the saves of wallet_management.c met.  *)
CompletePageIsOwners ==
    (FlashIdle /\ Initialized(page) /\ Complete(page)) =>
        /\ owner # None
        /\ PinOf(page) = owner.pin
        /\ Mnemonic(page) = owner.mnemonic
        /\ AttemptsAre(page)

(* When saves are not cut short nothing is lost either: between an         *)
(* initialisation and the deletion the page holds the wallet.              *)
NothingIsLost ==
    (~PowerFailsDuringSave /\ owner # None) => Initialized(Stable) /\ Complete(Stable)

(* Deleting is final (wallet_delete): from the erase on, whenever power    *)
(* fails, no page says it is initialized until a user initializes it anew. *)
DeletionIsFinal == owner = None => ~Initialized(page)

(* The xpub is derived and shown only after the owner's pin was entered    *)
(* (ui_task calls it after ui_lock_screen has returned).                   *)
OpenOnlyWithPin == pc \in {"derive", "show"} => owner # None /\ pin_code = owner.pin

(* When no save is cut short, pins rejected since the initialisation or    *)
(* the last unlock never exceed PIN_CODE_MAX_RETRY_COUNT, unless the       *)
(* counter ran over (ui.c:163): each lap of its byte allows as many again  *)
(* less one, and takes as many power losses in the middle of an attempt as *)
(* the byte has counts beyond the limit.                                   *)
RejectionsBounded ==
    /\ rejections <= PIN_CODE_MAX_RETRY_COUNT + (PIN_CODE_MAX_RETRY_COUNT - 1) * laps
    /\ wasted >= (ByteMax + 1 - PIN_CODE_MAX_RETRY_COUNT) * laps

(* Between two power losses no more pins are rejected than                 *)
(* PIN_CODE_MAX_RETRY_COUNT, wherever the counter stood when power came:   *)
(* at what a save cut short left of it, or past the limit, or about to run *)
(* over.                                                                   *)
RejectionsPerSession == session <= PIN_CODE_MAX_RETRY_COUNT

(* The xpub on the display belongs to the mnemonic the owner entered: "the *)
(* xpub is equal to the xpub derived from the same mnemonic in the other   *)
(* wallets software" (README.md).                                          *)
ShowsOwnersMnemonic == shown # None => owner # None /\ shown = owner.mnemonic

(* The mnemonic shown is the owner's or visibly cut short: words of two    *)
(* mnemonics, or words under the wrong count, are never mixed.             *)
NeverMixed ==
    (shown # None /\ shown.words_2 # ErasedWords) => owner # None /\ shown = owner.mnemonic

(* Entering pins comes to an end: the lock screen unlocks, or deletes the  *)
(* wallet, or power fails.                                                 *)
LockScreenEnds == pc = "locked" ~> pc \in {"show", "deleted", "reset"}

-----------------------------------------------------------------------------
(* The inductive invariant behind the properties                           *)

(* How far the save in progress has come: the fields before the cursor are *)
(* the RAM copy's, the others erased.                                      *)
SaveProgress ==
    \A i \in 1..7 : cursor > 0 =>
        page[Members[i]] = IF i < cursor THEN wallet_data[Members[i]] ELSE ErasedRecord[Members[i]]

(* A save is over, or one of the places that save waits for it.            *)
SavingLabels == {"save_seed", "save_flag", "locked", "wait", "derive", "deleted"}
SaveHasCaller == FlashIdle \/ pc \in SavingLabels

(* When no save runs, RAM and flash agree.                                 *)
RamIsPage == (FlashIdle /\ pc # "reset") => wallet_data = page

(* What the firmware has decided by its position is so in RAM.             *)
ClosedLabels == {"menu", "new_wallet", "restore", "setup_pin", "save_seed", "save_flag", "deleted"}
OpenLabels == {"debug_delete", "really_delete", "locked", "enter_pin", "wait", "derive"}
FlagFollowsPc ==
    /\ pc = "reset" => wallet_data = ZeroRecord
    /\ pc \in ClosedLabels => ~Initialized(wallet_data)
    /\ pc \in OpenLabels => Initialized(wallet_data)
    /\ pc = "deleted" => owner = None
    /\ pc # "show" => shown = None

(* What the initialisation has entered is on its way into the record.      *)
InitialisationProgress ==
    /\ pc \in {"setup_pin", "save_seed", "save_flag"} => words \in Mnemonics
    /\ pc \in {"save_seed", "save_flag"} => 
        pin_code \in PinCodes /\ PinOf(wallet_data) = pin_code /\ wallet_data.pin_failed_attempts = 0
    /\ pc = "save_flag" => Mnemonic(wallet_data) = words

(* A record that says it is initialized is the owner's as far as it was    *)
(* saved, and a complete one has counted every attempt.                    *)
OwnersRecord(record) ==
    Initialized(record) =>
        /\ owner # None
        /\ record.length \in {owner.pin.length, ByteMax}
        /\ record.code \in {owner.pin.code, ErasedDigits}
        /\ Complete(record) =>
            /\ PinOf(record) = owner.pin
            /\ Mnemonic(record) = owner.mnemonic
            /\ AttemptsAre(record)

(* The byte that follows n in the counter.                                 *)
NextCount(n) == IF n = ByteMax THEN 0 ELSE n + 1

(* The attempt being judged is in the counter.                             *)
AttemptCounted ==
    pc = "wait" =>
        /\ pin_code \in PinCodes
        /\ wallet_data.pin_failed_attempts = NextCount(pin_failed_attempts)

IInv ==
    /\ TypeOK
    /\ SaveProgress
    /\ SaveHasCaller
    /\ RamIsPage
    /\ FlagFollowsPc
    /\ InitialisationProgress
    /\ OwnersRecord(page)
    /\ OwnersRecord(wallet_data)
    /\ AttemptCounted
    /\ OpenOnlyWithPin
    /\ NeverMixed

(* The attempts of the counter's lap before the one being judged.          *)
CountBefore ==
    IF pc # "wait" THEN Stable.pin_failed_attempts
    ELSE IF pin_failed_attempts = ByteMax THEN 0 ELSE pin_failed_attempts

(* With IInv, what holds when no save is cut short.  A lap rejects a pin   *)
(* only while the counter is short of the limit: at most one less than the *)
(* limit without deleting the wallet, and no more than it has attempts.    *)
RejectionsSoFar ==
    LET most == PIN_CODE_MAX_RETRY_COUNT - 1
    IN  IF owner = None THEN rejections <= most * laps + PIN_CODE_MAX_RETRY_COUNT
        ELSE rejections <= most * laps + most /\ rejections <= most * laps + CountBefore

WastedSoFar == wasted >= (ByteMax + 1 - PIN_CODE_MAX_RETRY_COUNT) * laps

UncutInv ==
    /\ NothingIsLost
    /\ ~PowerFailsDuringSave => ShowsOwnersMnemonic
    /\ ~PowerFailsDuringSave => RejectionsSoFar /\ WastedSoFar

(* With IInv, what bounds the rejections between two power losses: the     *)
(* counter in RAM starts where the page has it and goes up with each, and  *)
(* it cannot run over without a rejection that deletes the wallet.         *)
SessionInv ==
    /\ pc \notin {"enter_pin", "wait", "derive", "show", "deleted"} => session = 0
    /\ pc = "enter_pin" => session <= wallet_data.pin_failed_attempts
    /\ pc = "wait" => session <= pin_failed_attempts
    /\ pc # "deleted" => session <= PIN_CODE_MAX_RETRY_COUNT - 1
    /\ session <= PIN_CODE_MAX_RETRY_COUNT

-----------------------------------------------------------------------------
(* The promise this implements                                             *)

Store == INSTANCE WalletStore WITH
    wallet <- IF Initialized(Stable)
              THEN [pin |-> PinOf(Stable), mnemonic |-> Mnemonic(Stable)] ELSE None,
    attempts <- IF Initialized(Stable) THEN Stable.pin_failed_attempts ELSE 0,
    presented <- IF pc = "wait" THEN pin_code ELSE None,
    open <- pc \in {"derive", "show"}

(* When no save is cut short, the firmware is the store WalletStore        *)
(* describes: each save takes effect as a whole, and nothing else changes  *)
(* what the user is promised.                                              *)
ImplementsStore == Store!Spec
=============================================================================
