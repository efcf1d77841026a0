------------------------ MODULE WalletLifecycle_proof ------------------------
(***************************************************************************)
(* For every choice of pins, mnemonics, counter width and attempt limit,   *)
(* and for power losses at any step: what the page of the wallet holds.    *)
(* IInv, of WalletLifecycle, is kept by every step whether saves are cut   *)
(* off or not; UncutInv needs saves that run to their end.  The last part  *)
(* shows that ui_task then implements WalletStore.                         *)
(***************************************************************************)
EXTENDS WalletLifecycle, Recursion, TLAPS

(* What the assumptions on the inputs say field by field: no mnemonic and  *)
(* no pin looks like erased flash.                                         *)
LEMMA Inputs ==
    /\ \A m \in Mnemonics :
        /\ m \in [wc : 1..(ByteMax - 1), words_1 : WordHalves, words_2 : WordHalves]
        /\ m.words_1 \in WordHalves
        /\ m.words_2 \in WordHalves
        /\ m.words_2 # ErasedWords
        /\ m.wc \in 0..ByteMax
        /\ m = [wc |-> m.wc, words_1 |-> m.words_1, words_2 |-> m.words_2]
    /\ \A p \in PinCodes :
        /\ p.length \in 1..(ByteMax - 1)
        /\ p.length \in 0..ByteMax
        /\ p.length # ByteMax
        /\ p.code \in Codes
        /\ p.code # ErasedDigits
        /\ p = [length |-> p.length, code |-> p.code]
    /\ ByteMax \in Nat
  <1>1. ASSUME NEW m \in Mnemonics
        PROVE  /\ m \in [wc : 1..(ByteMax - 1), words_1 : WordHalves, words_2 : WordHalves]
               /\ m.words_1 \in WordHalves
               /\ m.words_2 \in WordHalves
               /\ m.words_2 # ErasedWords
               /\ m.wc \in 0..ByteMax
               /\ m = [wc |-> m.wc, words_1 |-> m.words_1, words_2 |-> m.words_2]
    BY InputAssumption, ByteAssumption DEF ByteAssumption
  <1>2. ASSUME NEW p \in PinCodes
        PROVE  /\ p.length \in 1..(ByteMax - 1)
               /\ p.length \in 0..ByteMax
               /\ p.length # ByteMax
               /\ p.code \in Codes
               /\ p.code # ErasedDigits
               /\ p = [length |-> p.length, code |-> p.code]
    BY InputAssumption, ByteAssumption DEF ByteAssumption
  <1>3. QED BY <1>1, <1>2, ByteAssumption DEF ByteAssumption

(* The records of a fresh RAM and of an erased page are wallet records.    *)
LEMMA RecordTypes ==
    /\ ErasedRecord \in WalletRecord
    /\ ZeroRecord \in WalletRecord
  BY Inputs DEF ErasedRecord, ZeroRecord, WalletRecord

(* A save that begins leaves well-typed records (flash_save_data).         *)
LEMMA SaveTypes ==
    ASSUME NEW record \in WalletRecord, Save(record)
    PROVE  /\ wallet_data' \in WalletRecord
           /\ page' \in WalletRecord
           /\ cursor' \in 0..7
  BY RecordTypes DEF Save, FlashErase

(* Storing a pin keeps the types.                                          *)
LEMMA SetPinCodeTypes ==
    ASSUME wallet_data \in WalletRecord, NEW p \in PinCodes, SetPinCode(p)
    PROVE  /\ wallet_data' \in WalletRecord
           /\ page' \in WalletRecord
           /\ cursor' \in 0..7
  <1> DEFINE r == [wallet_data EXCEPT !.length = p.length, !.code = p.code,
                             !.pin_failed_attempts = 0]
  <1>1. p.length \in 0..ByteMax /\ p.code \in Codes /\ 0 \in 0..ByteMax
    BY Inputs
  <1>2. r \in WalletRecord
    BY <1>1 DEF WalletRecord
  <1>3. QED BY <1>2, SaveTypes DEF SetPinCode

(* Storing the words keeps the types, refused or not.                      *)
LEMMA SetMnemonicSeedTypes ==
    ASSUME TypeOK, NEW m \in Mnemonics, SetMnemonicSeed(m)
    PROVE  /\ wallet_data' \in WalletRecord
           /\ page' \in WalletRecord
           /\ cursor' \in 0..7
  <1> DEFINE r == [wallet_data EXCEPT !.wc = m.wc, !.words_1 = m.words_1, !.words_2 = m.words_2]
  <1>1. r \in WalletRecord
    BY Inputs DEF WalletRecord, TypeOK
  <1>2. QED BY <1>1, SaveTypes DEF SetMnemonicSeed, TypeOK

(* Setting the flag keeps the types.                                       *)
LEMMA SetAsInitializedTypes ==
    ASSUME wallet_data \in WalletRecord, SetAsInitialized
    PROVE  /\ wallet_data' \in WalletRecord
           /\ page' \in WalletRecord
           /\ cursor' \in 0..7
  <1> DEFINE r == [wallet_data EXCEPT !.initialized = "WALLET_INITIALIZED_MAGIC"]
  <1>1. r \in WalletRecord
    BY DEF WalletRecord
  <1>2. QED BY <1>1, SaveTypes DEF SetAsInitialized

(* Storing the counter keeps the types, because the byte wraps around.     *)
LEMMA SetPinFailedAttemptsTypes ==
    ASSUME wallet_data \in WalletRecord, NEW n \in Nat, SetPinFailedAttempts(n)
    PROVE  /\ wallet_data' \in WalletRecord
           /\ page' \in WalletRecord
           /\ cursor' \in 0..7
  <1> DEFINE r == [wallet_data EXCEPT !.pin_failed_attempts = n % (ByteMax + 1)]
  <1>1. r \in WalletRecord
    BY Inputs DEF WalletRecord
  <1>2. QED BY <1>1, SaveTypes DEF SetPinFailedAttempts

(* Deleting the wallet keeps the types.                                    *)
LEMMA WalletDeleteTypes ==
    ASSUME wallet_data \in WalletRecord, WalletDelete
    PROVE  /\ wallet_data' \in WalletRecord
           /\ page' \in WalletRecord
           /\ cursor' \in 0..7
  <1> DEFINE r == [initialized |-> "WALLET_NOT_INITIALIZED_MAGIC",
                   length |-> 0, code |-> NoDigits,
                   pin_failed_attempts |-> wallet_data.pin_failed_attempts,
                   wc |-> 0, words_1 |-> NoWords, words_2 |-> NoWords]
  <1>1. r \in WalletRecord
    BY Inputs DEF WalletRecord
  <1>2. QED BY <1>1, SaveTypes DEF WalletDelete

(* Programming one field more keeps the types.                             *)
LEMMA ProgramTypes ==
    ASSUME TypeOK, ProgramNext
    PROVE  /\ wallet_data' \in WalletRecord
           /\ page' \in WalletRecord
           /\ cursor' \in 0..7
  <1>1. cursor \in 1..7
    BY DEF TypeOK, ProgramNext, FlashProgram
  <1>2. page' = [page EXCEPT ![Members[cursor]] = wallet_data[Members[cursor]]]
    BY DEF ProgramNext, FlashProgram
  <1>3. page' \in WalletRecord
    <2> USE DEF TypeOK, Members, WalletRecord
    <2>1. CASE cursor = 1 BY <1>2, <2>1
    <2>2. CASE cursor = 2 BY <1>2, <2>2
    <2>3. CASE cursor = 3 BY <1>2, <2>3
    <2>4. CASE cursor = 4 BY <1>2, <2>4
    <2>5. CASE cursor = 5 BY <1>2, <2>5
    <2>6. CASE cursor = 6 BY <1>2, <2>6
    <2>7. CASE cursor = 7 BY <1>2, <2>7
    <2>8. QED BY <1>1, <2>1, <2>2, <2>3, <2>4, <2>5, <2>6, <2>7
  <1>4. cursor' \in 0..7
    BY <1>1 DEF ProgramNext, FlashProgram, Members
  <1>5. QED BY <1>3, <1>4 DEF TypeOK, ProgramNext

(* Every step keeps the types.                                             *)
LEMMA Types == ASSUME IInv, Next PROVE TypeOK'
<1> USE DEF IInv, TypeOK, FlashIdle, At, Goto, storeVars, history, CountAnew, CountRejection, Labels
<1>1. CASE Boot BY <1>1 DEF Boot, LoadFromFlash, FlashLoad
<1>2. CASE StartUi BY <1>2 DEF StartUi, LoadFromFlash, FlashLoad
<1>3. CASE ToggleSelection BY <1>3 DEF ToggleSelection
<1>4. CASE ConfirmSelection BY <1>4 DEF ConfirmSelection
<1>5. CASE RestoreWallet BY <1>5 DEF RestoreWallet
<1>6. CASE SetupPin BY <1>6, SetPinCodeTypes DEF SetupPin
<1>7. CASE SaveSeed BY <1>7, SetMnemonicSeedTypes DEF SaveSeed, InitialisationProgress
<1>8. CASE SaveFlag BY <1>8, SetAsInitializedTypes DEF SaveFlag, InitialisationProgress
<1>9. CASE KeepWallet BY <1>9 DEF KeepWallet
<1>10. CASE AskAgain BY <1>10 DEF AskAgain
<1>11. CASE DebugDelete BY <1>11, WalletDeleteTypes DEF DebugDelete
<1>12. CASE LeaveLockPicture BY <1>12 DEF LeaveLockPicture
<1>13. CASE EnterPin
  <2>1. wallet_data.pin_failed_attempts \in 0..ByteMax
    BY DEF WalletRecord
  <2>2. pin_failed_attempts' \in 0..ByteMax /\ pin_failed_attempts' + 1 \in Nat
    BY <1>13, <2>1, Inputs DEF EnterPin
  <2>3. seconds_to_wait' \in Nat
    BY <1>13, <2>2, ShiftDoubles DEF EnterPin, SecondsToWait
  <2>4. QED BY <1>13, <2>2, <2>3, SetPinFailedAttemptsTypes DEF EnterPin
<1>14. CASE WaitASecond BY <1>14 DEF WaitASecond
<1>15. CASE AcceptPin BY <1>15, SetPinFailedAttemptsTypes DEF AcceptPin, Judge
<1>16. CASE RejectLastPin BY <1>16, WalletDeleteTypes DEF RejectLastPin, Judge
<1>17. CASE RejectPin BY <1>17 DEF RejectPin, Judge
<1>18. CASE ShowXpub
  BY <1>18, Inputs DEF ShowXpub, LoadFromFlash, FlashLoad, Mnemonic, NoSeedEntered, ZeroRecord, WalletRecord
<1>19. CASE Idle BY <1>19 DEF Idle, vars, uiVars
<1>20. CASE ContinueSave BY <1>20, ProgramTypes DEF ContinueSave, uiVars
<1>21. CASE PowerLoss BY <1>21, RecordTypes, ByteAssumption DEF PowerLoss, ByteAssumption
<1>22. QED
  BY <1>1, <1>2, <1>3, <1>4, <1>5, <1>6, <1>7, <1>8, <1>9, <1>10, <1>11, <1>12, <1>13, <1>14,
     <1>15, <1>16, <1>17, <1>18, <1>19, <1>20, <1>21
  DEF Next, Ui, Initialise, AskDelete, LockScreen

-----------------------------------------------------------------------------
(* What a save leaves to prove: the record it saves.                       *)

LEMMA SaveBegins ==
    ASSUME NEW record, Save(record)
    PROVE  /\ wallet_data' = record
           /\ cursor' = 1
           /\ ~FlashIdle'
           /\ ~Initialized(page')
           /\ SaveProgress'
           /\ RamIsPage'
           /\ OwnersRecord(page)'
  BY DEF Save, FlashErase, FlashIdle, SaveProgress, RamIsPage, OwnersRecord, Initialized,
         ErasedRecord, Members

(* Actions that leave the record and its history alone and go between      *)
(* places that ask nothing of them.                                        *)
LEMMA UiStep ==
    ASSUME IInv, UNCHANGED <<storeVars, shown, history>>, FlashIdle,
           pc # "show", pc # "reset", pc' # "reset",
           pc \in ClosedLabels <=> pc' \in ClosedLabels,
           pc \in OpenLabels <=> pc' \in OpenLabels,
           pc = "wait" <=> pc' = "wait",
           pc' = "deleted" => pc = "deleted"
    PROVE  /\ SaveProgress'
           /\ SaveHasCaller'
           /\ RamIsPage'
           /\ FlagFollowsPc'
           /\ OwnersRecord(page)'
           /\ OwnersRecord(wallet_data)'
  <1> USE DEF IInv, storeVars, history, FlashIdle
  <1>1. SaveProgress' /\ SaveHasCaller' /\ RamIsPage'
    BY DEF SaveProgress, SaveHasCaller, RamIsPage
  <1>2. FlagFollowsPc'
    BY DEF FlagFollowsPc, Initialized
  <1>3. OwnersRecord(page)' /\ OwnersRecord(wallet_data)'
    BY DEF OwnersRecord, AttemptsAre, Initialized, Complete, PinOf, Mnemonic
  <1>4. QED BY <1>1, <1>2, <1>3

(* Every conjunct of the invariant but the types.                          *)
StepGoal ==
    /\ SaveProgress /\ SaveHasCaller /\ RamIsPage
    /\ FlagFollowsPc /\ InitialisationProgress
    /\ OwnersRecord(page) /\ OwnersRecord(wallet_data)
    /\ AttemptCounted /\ OpenOnlyWithPin /\ NeverMixed

(* The screens that only read the record.                                  *)
LEMMA ScreenSteps ==
    ASSUME IInv,
           ToggleSelection \/ ConfirmSelection \/ RestoreWallet \/ KeepWallet \/ AskAgain
             \/ LeaveLockPicture \/ WaitASecond
    PROVE  StepGoal'
  <1> USE DEF At, Goto, FlashIdle, storeVars, history
  <1>1. /\ SaveProgress' /\ SaveHasCaller' /\ RamIsPage' /\ FlagFollowsPc'
        /\ OwnersRecord(page)' /\ OwnersRecord(wallet_data)'
    BY UiStep DEF ToggleSelection, ConfirmSelection, RestoreWallet, KeepWallet, AskAgain,
       LeaveLockPicture, WaitASecond, ClosedLabels, OpenLabels
  <1>2. InitialisationProgress'
    BY DEF IInv, InitialisationProgress, ToggleSelection, ConfirmSelection, RestoreWallet,
       KeepWallet, AskAgain, LeaveLockPicture, WaitASecond, PinOf, Mnemonic
  <1>3. AttemptCounted'
    BY DEF IInv, AttemptCounted, ToggleSelection, ConfirmSelection, RestoreWallet,
       KeepWallet, AskAgain, LeaveLockPicture, WaitASecond, Complete
  <1>4. OpenOnlyWithPin' /\ NeverMixed'
    BY DEF IInv, OpenOnlyWithPin, NeverMixed, ToggleSelection, ConfirmSelection, RestoreWallet,
       KeepWallet, AskAgain, LeaveLockPicture, WaitASecond
  <1>5. QED BY <1>1, <1>2, <1>3, <1>4 DEF StepGoal

(* Reading the page back, at boot and before the xpub is derived.          *)
LEMMA LoadSteps ==
    ASSUME IInv, Boot \/ StartUi \/ ShowXpub
    PROVE  StepGoal'
  <1> USE DEF At, Goto, FlashIdle, IInv, LoadFromFlash, FlashLoad, history
  <1>1. SaveProgress' /\ SaveHasCaller' /\ RamIsPage'
    BY DEF Boot, StartUi, ShowXpub, SaveProgress, SaveHasCaller, RamIsPage
  <1>2. FlagFollowsPc'
    BY DEF Boot, StartUi, ShowXpub, FlagFollowsPc, Initialized, ClosedLabels, OpenLabels
  <1>3. OwnersRecord(page)' /\ OwnersRecord(wallet_data)'
    BY DEF Boot, StartUi, ShowXpub, OwnersRecord, AttemptsAre, Initialized, Complete, PinOf, Mnemonic
  <1>4. InitialisationProgress' /\ AttemptCounted' /\ OpenOnlyWithPin'
    BY DEF Boot, StartUi, ShowXpub, InitialisationProgress, AttemptCounted, OpenOnlyWithPin
  <1>5. NeverMixed'
    <2>1. CASE Boot \/ StartUi
      BY <2>1 DEF Boot, StartUi, NeverMixed
    <2>2. CASE ShowXpub
      <3>1. Initialized(page)
        BY <2>2 DEF ShowXpub, FlagFollowsPc, OpenLabels, RamIsPage
      <3>2. shown' = Mnemonic(page) /\ owner' = owner
        BY <2>2, <3>1 DEF ShowXpub
      <3>3. shown'.words_2 # ErasedWords => Complete(page)
        BY <3>2 DEF Mnemonic, Complete
      <3>4. QED BY <3>1, <3>2, <3>3 DEF NeverMixed, OwnersRecord
    <2>3. QED BY <2>1, <2>2
  <1>6. QED BY <1>1, <1>2, <1>3, <1>4, <1>5 DEF StepGoal

(* The initialisation's three saves.                                       *)
LEMMA InitialiseSteps ==
    ASSUME IInv, TypeOK', SetupPin \/ SaveSeed \/ SaveFlag
    PROVE  StepGoal'
  <1> USE DEF At, Goto, FlashIdle, IInv
  <1>1. CASE SetupPin
    <2> DEFINE r == [wallet_data EXCEPT !.length = pin_code'.length, !.code = pin_code'.code,
                                        !.pin_failed_attempts = 0]
    <2>1. Save(r) /\ pin_code' \in PinCodes /\ pc = "setup_pin" /\ pc' = "save_seed"
          /\ shown = None /\ shown' = None
      BY <1>1 DEF SetupPin, SetPinCode, FlagFollowsPc
    <2>2. /\ wallet_data' = r /\ cursor' = 1
          /\ SaveProgress' /\ RamIsPage' /\ OwnersRecord(page)'
      BY <2>1, SaveBegins
    <2>3. r.length = pin_code'.length /\ r.code = pin_code'.code /\ r.pin_failed_attempts = 0
          /\ r.initialized = wallet_data.initialized
      BY DEF TypeOK, WalletRecord
    <2>4. ~Initialized(wallet_data')
      BY <2>1, <2>2, <2>3 DEF FlagFollowsPc, ClosedLabels, Initialized
    <2>5. SaveHasCaller' /\ FlagFollowsPc' /\ OwnersRecord(wallet_data)'
      BY <2>1, <2>4 DEF SaveHasCaller, SavingLabels, FlagFollowsPc, ClosedLabels, OpenLabels, OwnersRecord
    <2>6. PinOf(wallet_data)' = pin_code'
      BY <2>1, <2>2, <2>3, Inputs DEF PinOf
    <2>7. InitialisationProgress' /\ AttemptCounted' /\ OpenOnlyWithPin' /\ NeverMixed'
      BY <1>1, <2>2, <2>3, <2>6 DEF SetupPin, FlagFollowsPc, InitialisationProgress, AttemptCounted, OpenOnlyWithPin, NeverMixed
    <2>8. QED BY <2>2, <2>5, <2>7 DEF StepGoal
  <1>2. CASE SaveSeed
    <2> DEFINE r == [wallet_data EXCEPT !.wc = words.wc, !.words_1 = words.words_1,
                                        !.words_2 = words.words_2]
    <2>1. words \in Mnemonics /\ pin_code \in PinCodes /\ PinOf(wallet_data) = pin_code
          /\ pc = "save_seed" /\ pc' = "save_flag" /\ UNCHANGED <<words, pin_code, owner, shown>>
          /\ shown = None
      BY <1>2 DEF SaveSeed, history, FlagFollowsPc, InitialisationProgress
    <2>2. words.wc % 3 = 0
      BY <2>1, InputAssumption
    <2>3. Save(r)
      BY <1>2, <2>2 DEF SaveSeed, SetMnemonicSeed
    <2>4. /\ wallet_data' = r /\ cursor' = 1
          /\ SaveProgress' /\ RamIsPage' /\ OwnersRecord(page)'
      BY <2>3, SaveBegins
    <2>5. r.length = wallet_data.length /\ r.code = wallet_data.code
          /\ r.initialized = wallet_data.initialized
          /\ r.wc = words.wc /\ r.words_1 = words.words_1 /\ r.words_2 = words.words_2
          /\ r.pin_failed_attempts = wallet_data.pin_failed_attempts
      BY DEF TypeOK, WalletRecord
    <2>6. ~Initialized(wallet_data')
      BY <2>1, <2>4, <2>5 DEF FlagFollowsPc, ClosedLabels, Initialized
    <2>7. SaveHasCaller' /\ FlagFollowsPc' /\ OwnersRecord(wallet_data)'
      BY <2>1, <2>6 DEF SaveHasCaller, SavingLabels, FlagFollowsPc, ClosedLabels, OpenLabels, OwnersRecord
    <2>8. PinOf(wallet_data)' = pin_code'
      BY <2>1, <2>4, <2>5 DEF PinOf
    <2>9. Mnemonic(wallet_data)' = words'
      BY <2>1, <2>4, <2>5, Inputs DEF Mnemonic
    <2>10. InitialisationProgress' /\ AttemptCounted' /\ OpenOnlyWithPin' /\ NeverMixed'
      BY <1>2, <2>1, <2>4, <2>5, <2>8, <2>9 DEF SaveSeed, FlagFollowsPc, InitialisationProgress, AttemptCounted, OpenOnlyWithPin, NeverMixed
    <2>11. QED BY <2>4, <2>7, <2>10 DEF StepGoal
  <1>3. CASE SaveFlag
    <2> DEFINE r == [wallet_data EXCEPT !.initialized = "WALLET_INITIALIZED_MAGIC"]
    <2>1. /\ words \in Mnemonics /\ pin_code \in PinCodes
          /\ PinOf(wallet_data) = pin_code /\ Mnemonic(wallet_data) = words
          /\ pc = "save_flag" /\ pc' = "locked" /\ UNCHANGED <<words, pin_code, shown>> /\ shown = None
          /\ owner' = [pin |-> pin_code, mnemonic |-> words]
          /\ rejections' = 0 /\ wasted' = 0 /\ laps' = 0
      BY <1>3 DEF SaveFlag, CountAnew, FlagFollowsPc, InitialisationProgress
    <2>2. Save(r)
      BY <1>3 DEF SaveFlag, SetAsInitialized
    <2>3. /\ wallet_data' = r /\ cursor' = 1
          /\ SaveProgress' /\ RamIsPage' /\ OwnersRecord(page)'
      BY <2>2, SaveBegins
    <2>4. /\ r.length = wallet_data.length /\ r.code = wallet_data.code
          /\ r.initialized = "WALLET_INITIALIZED_MAGIC"
          /\ r.wc = wallet_data.wc /\ r.words_1 = wallet_data.words_1 /\ r.words_2 = wallet_data.words_2
          /\ r.pin_failed_attempts = wallet_data.pin_failed_attempts
      BY DEF TypeOK, WalletRecord
    <2>5. Initialized(wallet_data')
      BY <2>3, <2>4 DEF Initialized
    <2>6. PinOf(wallet_data') = owner'.pin /\ Mnemonic(wallet_data') = owner'.mnemonic
      BY <2>1, <2>3, <2>4 DEF PinOf, Mnemonic
    <2>7. wallet_data'.length = owner'.pin.length /\ wallet_data'.code = owner'.pin.code
      BY <2>6 DEF PinOf
    <2>8. owner' # None
      BY <2>1, InputAssumption
    <2>9. wallet_data.pin_failed_attempts = 0
      BY <1>3 DEF SaveFlag, InitialisationProgress
    <2>10. OwnersRecord(wallet_data)'
      <3>1. AttemptsAre(wallet_data)'
        BY <2>1, <2>3, <2>4, <2>9, ByteAssumption DEF AttemptsAre, ByteAssumption
      <3>2. QED BY <2>1, <2>3, <2>6, <2>7, <2>8, <3>1 DEF OwnersRecord
    <2>11. SaveHasCaller' /\ FlagFollowsPc'
      BY <2>1, <2>5 DEF SaveHasCaller, SavingLabels, FlagFollowsPc, ClosedLabels, OpenLabels
    <2>12. InitialisationProgress' /\ AttemptCounted' /\ OpenOnlyWithPin' /\ NeverMixed'
      BY <2>1 DEF FlagFollowsPc, InitialisationProgress, AttemptCounted, OpenOnlyWithPin, NeverMixed
    <2>13. QED BY <2>3, <2>10, <2>11, <2>12 DEF StepGoal
  <1>4. QED BY <1>1, <1>2, <1>3

(* The two deletions.                                                      *)
LEMMA DeleteSteps ==
    ASSUME IInv, DebugDelete \/ RejectLastPin
    PROVE  StepGoal'
  <1> USE DEF At, Goto, FlashIdle, IInv, Judge
  <1> DEFINE r == [initialized |-> "WALLET_NOT_INITIALIZED_MAGIC",
                   length |-> 0, code |-> NoDigits,
                   pin_failed_attempts |-> wallet_data.pin_failed_attempts,
                   wc |-> 0, words_1 |-> NoWords, words_2 |-> NoWords]
  <1>1. /\ Save(r) /\ pc' = "deleted" /\ pc # "show"
        /\ owner' = None /\ UNCHANGED <<pin_code, words, shown>>
    BY DEF DebugDelete, RejectLastPin, WalletDelete
  <1>2. /\ wallet_data' = r /\ cursor' = 1
        /\ SaveProgress' /\ RamIsPage' /\ OwnersRecord(page)'
    BY <1>1, SaveBegins
  <1>3. ~Initialized(wallet_data')
    BY <1>2 DEF Initialized
  <1>4. SaveHasCaller' /\ FlagFollowsPc' /\ OwnersRecord(wallet_data)'
    BY <1>1, <1>3 DEF SaveHasCaller, SavingLabels, FlagFollowsPc, ClosedLabels, OpenLabels, OwnersRecord
  <1>5. InitialisationProgress' /\ AttemptCounted' /\ OpenOnlyWithPin' /\ NeverMixed'
    BY <1>1 DEF FlagFollowsPc, InitialisationProgress, AttemptCounted, OpenOnlyWithPin, NeverMixed
  <1>6. QED BY <1>2, <1>4, <1>5 DEF StepGoal

(* The byte that follows in the counter, and what it counts with its laps. *)
LEMMA CountSteps ==
    ASSUME NEW n \in 0..ByteMax, NEW k \in Nat
    PROVE  /\ (n + 1) % (ByteMax + 1) = NextCount(n)
           /\ NextCount(n) + (IF n = ByteMax THEN k + 1 ELSE k) * (ByteMax + 1)
                = n + k * (ByteMax + 1) + 1
           /\ NextCount(n) \in 0..ByteMax
  <1>1. ByteMax \in Nat
    BY ByteAssumption DEF ByteAssumption
  <1>2. CASE n = ByteMax
    <2>1. (ByteMax + 1) % (ByteMax + 1) = 0
      BY <1>1
    <2>2. 0 + (k + 1) * (ByteMax + 1) = ByteMax + k * (ByteMax + 1) + 1
      BY <1>1
    <2>3. QED BY <1>1, <1>2, <2>1, <2>2 DEF NextCount
  <1>3. CASE n # ByteMax
    <2>1. n + 1 <= ByteMax
      BY <1>1, <1>3
    <2>2. (n + 1) % (ByteMax + 1) = n + 1
      BY <1>1, <2>1
    <2>3. k * (ByteMax + 1) \in Nat
      BY <1>1
    <2>4. QED BY <1>1, <1>3, <2>1, <2>2, <2>3 DEF NextCount
  <1>4. QED BY <1>2, <1>3

(* The attempt is counted, in the byte or in its laps.                     *)
LEMMA EnterPinStep ==
    ASSUME IInv, EnterPin
    PROVE  StepGoal'
  <1> USE DEF At, Goto, FlashIdle, IInv
  <1> DEFINE n == wallet_data.pin_failed_attempts
             r == [wallet_data EXCEPT !.pin_failed_attempts = (pin_failed_attempts' + 1) % (ByteMax + 1)]
  <1>1. /\ Save(r) /\ pc = "enter_pin" /\ pc' = "wait" /\ pin_code' \in PinCodes
        /\ pin_failed_attempts' = n
        /\ laps' = IF n = ByteMax THEN laps + 1 ELSE laps
        /\ UNCHANGED <<words, shown, owner, rejections, wasted>>
    BY DEF EnterPin, SetPinFailedAttempts
  <1>2. /\ wallet_data' = r /\ cursor' = 1
        /\ SaveProgress' /\ RamIsPage' /\ OwnersRecord(page)'
    BY <1>1, SaveBegins
  <1>3. n \in 0..ByteMax /\ laps \in Nat
    BY DEF TypeOK, WalletRecord
  <1>4. /\ r.length = wallet_data.length /\ r.code = wallet_data.code
        /\ r.initialized = wallet_data.initialized
        /\ r.wc = wallet_data.wc /\ r.words_1 = wallet_data.words_1 /\ r.words_2 = wallet_data.words_2
        /\ r.pin_failed_attempts = NextCount(n)
    BY <1>1, <1>3, CountSteps DEF TypeOK, WalletRecord
  <1>5. /\ Initialized(wallet_data) /\ Initialized(wallet_data')
        /\ PinOf(wallet_data') = PinOf(wallet_data)
        /\ Mnemonic(wallet_data') = Mnemonic(wallet_data)
        /\ Complete(wallet_data') <=> Complete(wallet_data)
    BY <1>1, <1>2, <1>4 DEF FlagFollowsPc, OpenLabels, Initialized, PinOf, Mnemonic, Complete
  <1>6. AttemptsAre(wallet_data) => AttemptsAre(wallet_data)'
    <2>1. NextCount(n) + laps' * (ByteMax + 1) = n + laps * (ByteMax + 1) + 1
      BY <1>1, <1>3, CountSteps
    <2>2. wallet_data'.pin_failed_attempts = NextCount(n)
      BY <1>2, <1>4
    <2>3. rejections \in Nat /\ wasted \in Nat
      BY DEF TypeOK
    <2>4. QED BY <1>1, <2>1, <2>2, <2>3 DEF AttemptsAre
  <1>7. OwnersRecord(wallet_data)'
    BY <1>1, <1>2, <1>4, <1>5, <1>6 DEF OwnersRecord
  <1>8. AttemptCounted'
    BY <1>1, <1>2, <1>4 DEF AttemptCounted, NextCount
  <1>9. SaveHasCaller' /\ FlagFollowsPc'
    BY <1>1, <1>5 DEF SaveHasCaller, SavingLabels, FlagFollowsPc, ClosedLabels, OpenLabels
  <1>10. InitialisationProgress' /\ OpenOnlyWithPin' /\ NeverMixed'
    BY <1>1 DEF InitialisationProgress, OpenOnlyWithPin, NeverMixed
  <1>11. QED BY <1>2, <1>7, <1>8, <1>9, <1>10 DEF StepGoal

(* The owner chose a pin and a mnemonic that can be typed.                 *)
LEMMA OwnerTypes ==
    ASSUME TypeOK, owner # None
    PROVE  /\ owner.pin \in PinCodes
           /\ owner.mnemonic \in Mnemonics
           /\ owner.pin = [length |-> owner.pin.length, code |-> owner.pin.code]
  BY Inputs DEF TypeOK

(* A pin that passes the comparison with an initialized record is the      *)
(* owner's, even when the record was not saved to its end.                 *)
LEMMA AcceptedPinIsOwners ==
    ASSUME IInv, pin_code \in PinCodes, Initialized(wallet_data), CheckPinCode(pin_code)
    PROVE  owner # None /\ pin_code = owner.pin
  <1>1. /\ owner # None
        /\ pin_code.length \in {owner.pin.length, ByteMax}
        /\ pin_code.code \in {owner.pin.code, ErasedDigits}
    BY DEF IInv, OwnersRecord, CheckPinCode
  <1>2. pin_code.length = owner.pin.length /\ pin_code.code = owner.pin.code
    BY <1>1, Inputs
  <1>3. pin_code = [length |-> pin_code.length, code |-> pin_code.code]
    BY Inputs
  <1>4. QED BY <1>1, <1>2, <1>3, OwnerTypes DEF IInv

(* The right pin resets the counter and opens the wallet.                  *)
LEMMA AcceptPinStep ==
    ASSUME IInv, AcceptPin
    PROVE  StepGoal'
  <1> USE DEF At, Goto, FlashIdle, IInv, Judge
  <1> DEFINE r == [wallet_data EXCEPT !.pin_failed_attempts = 0 % (ByteMax + 1)]
  <1>1. /\ Save(r) /\ pc = "wait" /\ pc' = "derive"
        /\ rejections' = 0 /\ wasted' = 0 /\ laps' = 0
        /\ UNCHANGED <<pin_code, words, shown, owner>>
    BY DEF AcceptPin, CountAnew, SetPinFailedAttempts
  <1>2. /\ wallet_data' = r /\ cursor' = 1
        /\ SaveProgress' /\ RamIsPage' /\ OwnersRecord(page)'
    BY <1>1, SaveBegins
  <1>3. /\ r.length = wallet_data.length /\ r.code = wallet_data.code
        /\ r.initialized = wallet_data.initialized
        /\ r.wc = wallet_data.wc /\ r.words_1 = wallet_data.words_1 /\ r.words_2 = wallet_data.words_2
        /\ r.pin_failed_attempts = 0
    BY ByteAssumption DEF TypeOK, WalletRecord, ByteAssumption
  <1>4. /\ Initialized(wallet_data) /\ Initialized(wallet_data')
        /\ PinOf(wallet_data') = PinOf(wallet_data)
        /\ Mnemonic(wallet_data') = Mnemonic(wallet_data)
        /\ Complete(wallet_data') <=> Complete(wallet_data)
    BY <1>1, <1>2, <1>3 DEF FlagFollowsPc, OpenLabels, Initialized, PinOf, Mnemonic, Complete
  <1>5. OwnersRecord(wallet_data)'
    <2>1. AttemptsAre(wallet_data)'
      BY <1>1, <1>2, <1>3, ByteAssumption DEF AttemptsAre, ByteAssumption
    <2>2. QED BY <1>1, <1>2, <1>3, <1>4, <2>1 DEF OwnersRecord
  <1>6. SaveHasCaller' /\ FlagFollowsPc'
    BY <1>1, <1>4 DEF SaveHasCaller, SavingLabels, FlagFollowsPc, ClosedLabels, OpenLabels
  <1>7. OpenOnlyWithPin'
    <2>1. pin_code \in PinCodes /\ CheckPinCode(pin_code)
      BY <1>1 DEF AcceptPin, AttemptCounted
    <2>2. QED BY <1>1, <1>4, <2>1, AcceptedPinIsOwners DEF OpenOnlyWithPin
  <1>8. InitialisationProgress' /\ AttemptCounted' /\ NeverMixed'
    BY <1>1 DEF InitialisationProgress, AttemptCounted, NeverMixed
  <1>9. QED BY <1>2, <1>5, <1>6, <1>7, <1>8 DEF StepGoal

(* A wrong pin shows a message; the counter is on the page already.        *)
LEMMA RejectPinStep ==
    ASSUME IInv, RejectPin
    PROVE  StepGoal'
  <1> USE DEF At, Goto, FlashIdle, IInv, Judge
  <1>1. /\ pc = "wait" /\ pc' = "enter_pin" /\ rejections' = rejections + 1
        /\ cursor = 0 /\ cursor' = 0
        /\ UNCHANGED <<wallet_data, page, cursor, pin_code, words, shown, owner, wasted, laps>>
    BY DEF RejectPin, CountRejection, storeVars
  <1>3. wallet_data = page /\ Initialized(wallet_data)
    BY <1>1 DEF RamIsPage, FlagFollowsPc, OpenLabels
  <1>4. OwnersRecord(wallet_data)'
    <2>1. AttemptsAre(wallet_data) => AttemptsAre(wallet_data)'
      BY <1>1 DEF AttemptsAre, TypeOK
    <2>2. QED BY <1>1, <2>1 DEF OwnersRecord, Initialized, Complete, PinOf, Mnemonic
  <1>5. OwnersRecord(page)'
    BY <1>1, <1>3, <1>4 DEF OwnersRecord, AttemptsAre, Initialized, Complete, PinOf, Mnemonic
  <1>6. SaveProgress' /\ SaveHasCaller' /\ RamIsPage' /\ FlagFollowsPc'
    BY <1>1, <1>3 DEF SaveProgress, SaveHasCaller, RamIsPage, FlagFollowsPc, ClosedLabels, OpenLabels, Initialized
  <1>7. InitialisationProgress' /\ AttemptCounted' /\ OpenOnlyWithPin' /\ NeverMixed'
    BY <1>1 DEF FlagFollowsPc, InitialisationProgress, AttemptCounted, OpenOnlyWithPin, NeverMixed
  <1>8. QED BY <1>4, <1>5, <1>6, <1>7 DEF StepGoal

(* A power loss keeps the page as it is, and that page is the owner's as   *)
(* far as it says it is initialized.                                       *)
LEMMA PowerLossStep ==
    ASSUME IInv, PowerLoss
    PROVE  StepGoal'
  <1> USE DEF IInv
  <1>1. /\ cursor' = 0 /\ wallet_data' = ZeroRecord /\ pc' = "reset" /\ page' = page
        /\ wasted' = (IF pc = "wait" THEN wasted + 1 ELSE wasted) /\ shown' = None
        /\ UNCHANGED <<owner, rejections, laps>>
    BY DEF PowerLoss
  <1>2. ~Initialized(wallet_data')
    BY <1>1 DEF Initialized, ZeroRecord
  <1>3. SaveProgress' /\ SaveHasCaller' /\ RamIsPage' /\ FlagFollowsPc'
    BY <1>1, <1>2 DEF SaveProgress, SaveHasCaller, RamIsPage, FlagFollowsPc, FlashIdle, ClosedLabels, OpenLabels
  <1>4. OwnersRecord(wallet_data)'
    BY <1>2 DEF OwnersRecord
  <1>5. OwnersRecord(page)'
    <2>1. AttemptsAre(page) => AttemptsAre(page)'
      BY <1>1 DEF AttemptsAre, TypeOK
    <2>2. QED BY <1>1, <2>1 DEF OwnersRecord, Initialized, Complete, PinOf, Mnemonic
  <1>6. InitialisationProgress' /\ AttemptCounted' /\ OpenOnlyWithPin' /\ NeverMixed'
    BY <1>1 DEF InitialisationProgress, AttemptCounted, OpenOnlyWithPin, NeverMixed
  <1>7. QED BY <1>3, <1>4, <1>5, <1>6 DEF StepGoal

(* A wallet record is its fields.                                          *)
LEMMA FieldsMakeRecord ==
    ASSUME NEW r \in WalletRecord, NEW s \in WalletRecord,
           r.initialized = s.initialized, r.length = s.length, r.code = s.code,
           r.pin_failed_attempts = s.pin_failed_attempts, r.wc = s.wc,
           r.words_1 = s.words_1, r.words_2 = s.words_2
    PROVE  r = s
  BY DEF WalletRecord

(* One field more is on the page.                                          *)
LEMMA ProgramProgress ==
    ASSUME IInv, ProgramNext, UNCHANGED <<pc, pin_code, history>>
    PROVE  SaveProgress' /\ SaveHasCaller' /\ RamIsPage' /\ OwnersRecord(page)'
  <1> USE DEF IInv, FlashIdle, history
  <1>1. /\ cursor \in 1..7 /\ wallet_data' = wallet_data
        /\ page' = [page EXCEPT ![Members[cursor]] = wallet_data[Members[cursor]]]
        /\ cursor' = IF cursor = 7 THEN 0 ELSE cursor + 1
    BY DEF TypeOK, ProgramNext, FlashProgram, Members
  <1>2. page \in WalletRecord /\ wallet_data \in WalletRecord
    BY DEF TypeOK
  <1>3. /\ cursor > 1 => page.initialized = wallet_data.initialized
        /\ cursor <= 1 => page.initialized = "ERASED"
        /\ cursor > 2 => page.length = wallet_data.length
        /\ cursor <= 2 => page.length = ByteMax
        /\ cursor > 3 => page.code = wallet_data.code
        /\ cursor <= 3 => page.code = ErasedDigits
        /\ cursor > 4 => page.pin_failed_attempts = wallet_data.pin_failed_attempts
        /\ cursor <= 4 => page.pin_failed_attempts = ByteMax
        /\ cursor > 5 => page.wc = wallet_data.wc
        /\ cursor <= 5 => page.wc = ByteMax
        /\ cursor > 6 => page.words_1 = wallet_data.words_1
        /\ cursor <= 6 => page.words_1 = ErasedWords
        /\ page.words_2 = ErasedWords
    BY <1>1 DEF SaveProgress, Members, ErasedRecord
  <1>4. /\ cursor >= 1 => page'.initialized = wallet_data.initialized
        /\ cursor >= 2 => page'.length = wallet_data.length
        /\ cursor < 2 => page'.length = ByteMax
        /\ cursor >= 3 => page'.code = wallet_data.code
        /\ cursor < 3 => page'.code = ErasedDigits
        /\ cursor >= 4 => page'.pin_failed_attempts = wallet_data.pin_failed_attempts
        /\ cursor < 4 => page'.pin_failed_attempts = ByteMax
        /\ cursor >= 5 => page'.wc = wallet_data.wc
        /\ cursor < 5 => page'.wc = ByteMax
        /\ cursor >= 6 => page'.words_1 = wallet_data.words_1
        /\ cursor < 6 => page'.words_1 = ErasedWords
        /\ cursor = 7 => page'.words_2 = wallet_data.words_2
        /\ cursor < 7 => page'.words_2 = ErasedWords
    <2>1. CASE cursor = 1
      <3>1. page' = [page EXCEPT !.initialized = wallet_data.initialized]
        BY <1>1, <2>1 DEF Members
      <3>2. QED BY <1>2, <1>3, <2>1, <3>1 DEF WalletRecord
    <2>2. CASE cursor = 2
      <3>1. page' = [page EXCEPT !.length = wallet_data.length]
        BY <1>1, <2>2 DEF Members
      <3>2. QED BY <1>2, <1>3, <2>2, <3>1 DEF WalletRecord
    <2>3. CASE cursor = 3
      <3>1. page' = [page EXCEPT !.code = wallet_data.code]
        BY <1>1, <2>3 DEF Members
      <3>2. QED BY <1>2, <1>3, <2>3, <3>1 DEF WalletRecord
    <2>4. CASE cursor = 4
      <3>1. page' = [page EXCEPT !.pin_failed_attempts = wallet_data.pin_failed_attempts]
        BY <1>1, <2>4 DEF Members
      <3>2. QED BY <1>2, <1>3, <2>4, <3>1 DEF WalletRecord
    <2>5. CASE cursor = 5
      <3>1. page' = [page EXCEPT !.wc = wallet_data.wc]
        BY <1>1, <2>5 DEF Members
      <3>2. QED BY <1>2, <1>3, <2>5, <3>1 DEF WalletRecord
    <2>6. CASE cursor = 6
      <3>1. page' = [page EXCEPT !.words_1 = wallet_data.words_1]
        BY <1>1, <2>6 DEF Members
      <3>2. QED BY <1>2, <1>3, <2>6, <3>1 DEF WalletRecord
    <2>7. CASE cursor = 7
      <3>1. page' = [page EXCEPT !.words_2 = wallet_data.words_2]
        BY <1>1, <2>7 DEF Members
      <3>2. QED BY <1>2, <1>3, <2>7, <3>1 DEF WalletRecord
    <2>8. QED BY <1>1, <2>1, <2>2, <2>3, <2>4, <2>5, <2>6, <2>7
  <1>5. SaveProgress'
    BY <1>1, <1>4 DEF SaveProgress, Members, ErasedRecord
  <1>6. CASE cursor = 7
    <2>1. page' \in WalletRecord
      BY ProgramTypes
    <2>2. page' = wallet_data
      BY <1>2, <1>4, <1>6, <2>1, FieldsMakeRecord
    <2>3. RamIsPage' /\ SaveHasCaller'
      BY <1>1, <1>6, <2>2 DEF RamIsPage, SaveHasCaller
    <2>4. OwnersRecord(page)'
      BY <1>1, <2>2 DEF OwnersRecord, AttemptsAre, Initialized, Complete, PinOf, Mnemonic
    <2>5. QED BY <1>5, <2>3, <2>4
  <1>7. CASE cursor < 7
    <2>1. RamIsPage' /\ SaveHasCaller'
      BY <1>1, <1>7 DEF RamIsPage, SaveHasCaller
    <2>2. ~Complete(page') /\ page'.initialized = wallet_data.initialized
      BY <1>1, <1>4, <1>7 DEF Complete
    <2>3. /\ page'.length \in {wallet_data.length, ByteMax}
          /\ page'.code \in {wallet_data.code, ErasedDigits}
      BY <1>1, <1>4
    <2>4. OwnersRecord(page)'
      BY <2>2, <2>3 DEF OwnersRecord, Initialized
    <2>5. QED BY <1>5, <2>1, <2>4
  <1>8. QED BY <1>1, <1>6, <1>7

(* A save goes on while the screen that called it waits.                   *)
LEMMA ContinueSaveStep ==
    ASSUME IInv, ContinueSave
    PROVE  StepGoal'
  <1> USE DEF IInv
  <1>1. ProgramNext /\ wallet_data' = wallet_data
        /\ UNCHANGED <<pc, words, pin_code, pin_failed_attempts, shown, history>>
    BY DEF ContinueSave, ProgramNext, uiVars
  <1>2. SaveProgress' /\ SaveHasCaller' /\ RamIsPage' /\ OwnersRecord(page)'
    BY <1>1, ProgramProgress
  <1>3. OwnersRecord(wallet_data)' /\ FlagFollowsPc' /\ InitialisationProgress' /\ AttemptCounted'
    BY <1>1 DEF history, OwnersRecord, AttemptsAre, Initialized, Complete, PinOf, Mnemonic, FlagFollowsPc,
       InitialisationProgress, AttemptCounted
  <1>4. OpenOnlyWithPin' /\ NeverMixed'
    BY <1>1 DEF history, OpenOnlyWithPin, NeverMixed
  <1>5. QED BY <1>2, <1>3, <1>4 DEF StepGoal

(* Nothing the invariant reads changes in a stutter.                       *)
LEMMA StutterStep ==
    ASSUME IInv, UNCHANGED vars
    PROVE  IInv'
  BY DEF IInv, vars, storeVars, uiVars, history, TypeOK, SaveProgress, SaveHasCaller, RamIsPage, FlagFollowsPc,
     InitialisationProgress, OwnersRecord, AttemptsAre, Initialized, Complete, PinOf, Mnemonic, FlashIdle,
     AttemptCounted, OpenOnlyWithPin, NeverMixed

(* A device with an erased page satisfies the invariant.                   *)
LEMMA InitIInv == Init => IInv
  <1> SUFFICES ASSUME Init PROVE IInv
    OBVIOUS
  <1> USE DEF Init
  <1>1. TypeOK
    BY RecordTypes, ByteAssumption DEF TypeOK, Labels, ByteAssumption
  <1>2. SaveProgress /\ SaveHasCaller /\ RamIsPage /\ FlagFollowsPc /\ InitialisationProgress
    BY DEF SaveProgress, SaveHasCaller, FlashIdle, RamIsPage, FlagFollowsPc, ClosedLabels,
       OpenLabels, InitialisationProgress
  <1>3. OwnersRecord(page) /\ OwnersRecord(wallet_data)
    BY DEF OwnersRecord, Initialized, ErasedRecord, ZeroRecord
  <1>4. AttemptCounted /\ OpenOnlyWithPin /\ NeverMixed
    BY DEF AttemptCounted, OpenOnlyWithPin, NeverMixed
  <1>5. QED BY <1>1, <1>2, <1>3, <1>4 DEF IInv

(* Every step keeps the invariant, the power losses in the middle of a     *)
(* save included.                                                          *)
LEMMA NextIInv == IInv /\ [Next]_vars => IInv'
  <1> SUFFICES ASSUME IInv, [Next]_vars PROVE IInv'
    OBVIOUS
  <1>1. CASE Next
    <2>1. TypeOK'
      BY <1>1, Types
    <2>2. StepGoal' \/ UNCHANGED vars
      BY <1>1, <2>1, ScreenSteps, LoadSteps, InitialiseSteps, DeleteSteps, EnterPinStep,
         AcceptPinStep, RejectPinStep, PowerLossStep, ContinueSaveStep
      DEF Next, Ui, Initialise, AskDelete, LockScreen, Idle
    <2>3. QED BY <2>1, <2>2, StutterStep DEF StepGoal, IInv
  <1>2. CASE UNCHANGED vars
    BY <1>2, StutterStep
  <1>3. QED BY <1>1, <1>2

(* The invariant every claim below rests on: how far a save has come, what *)
(* the record in RAM may differ in from the page, and that an initialized  *)
(* record is the owner's wherever it is complete.                          *)
THEOREM Inductive == Spec => []IInv
  BY InitIInv, NextIInv, PTL DEF Spec

(* Types hold.                                                             *)
THEOREM TypeCorrect == Spec => []TypeOK
  BY Inductive, PTL DEF IInv

(* A complete page that says it is initialized is the owner's and has      *)
(* counted every attempt but for the laps of its byte, whenever and        *)
(* however often power failed before.                                      *)
THEOREM PageIsOwners == Spec => []CompletePageIsOwners
  <1>1. IInv => CompletePageIsOwners
    BY DEF IInv, OwnersRecord, CompletePageIsOwners
  <1>2. QED BY <1>1, Inductive, PTL

(* A deleted wallet stays deleted, whenever power fails.                   *)
THEOREM DeletedStaysDeleted == Spec => []DeletionIsFinal
  <1>1. IInv => DeletionIsFinal
    BY DEF IInv, OwnersRecord, DeletionIsFinal
  <1>2. QED BY <1>1, Inductive, PTL

(* The wallet opens for the owner's pin only, whenever power fails.        *)
THEOREM OpensForOwner == Spec => []OpenOnlyWithPin
  BY Inductive, PTL DEF IInv

(* A mnemonic shown with its last words is the owner's.                    *)
THEOREM ShownIsNotMixed == Spec => []NeverMixed
  BY Inductive, PTL DEF IInv

-----------------------------------------------------------------------------
(* What a stretch between two power losses can reject, torn saves or not.  *)

(* Every step keeps the bound.                                             *)
LEMMA SessionStep ==
    ASSUME IInv, SessionInv, Next
    PROVE  SessionInv'
  <1> DEFINE L == PIN_CODE_MAX_RETRY_COUNT
             n == wallet_data.pin_failed_attempts
  <1>1. /\ L \in Nat /\ L >= 1 /\ L <= ByteMax
        /\ ByteMax \in Nat /\ session \in Nat
        /\ n \in 0..ByteMax /\ pin_failed_attempts \in 0..ByteMax
    BY ByteAssumption DEF ByteAssumption, IInv, TypeOK, WalletRecord
  <1> USE DEF At, Goto, Judge
  <1>2. CASE PowerLoss
    BY <1>1, <1>2 DEF PowerLoss, SessionInv
  <1>3. CASE Boot \/ StartUi \/ Initialise \/ AskDelete
    <2>1. /\ session = 0 /\ session' = 0
          /\ pc' \notin {"enter_pin", "wait"}
      BY <1>3 DEF Boot, StartUi, Initialise, ToggleSelection, ConfirmSelection, RestoreWallet,
         SetupPin, SaveSeed, SaveFlag, AskDelete, KeepWallet, AskAgain, DebugDelete, history, SessionInv
    <2>2. QED BY <1>1, <2>1 DEF SessionInv
  <1>4. CASE LeaveLockPicture
    <2>1. session = 0 /\ session' = 0 /\ pc' = "enter_pin" /\ n' = n
      BY <1>4 DEF LeaveLockPicture, history, storeVars, SessionInv
    <2>2. QED BY <1>1, <2>1 DEF SessionInv
  <1>5. CASE EnterPin
    <2>1. /\ pc = "enter_pin" /\ pc' = "wait" /\ pin_failed_attempts' = n /\ session' = session
      BY <1>5 DEF EnterPin
    <2>2. QED BY <1>1, <2>1 DEF SessionInv
  <1>6. CASE WaitASecond \/ Idle \/ ContinueSave
    <2>1. UNCHANGED <<pc, session, pin_failed_attempts, wallet_data>>
      BY <1>6 DEF WaitASecond, Idle, ContinueSave, ProgramNext, vars, uiVars, storeVars, history
    <2>2. QED BY <2>1 DEF SessionInv
  <1>7. CASE AcceptPin \/ ShowXpub
    <2>1. /\ pc \in {"wait", "derive"} /\ pc' \in {"derive", "show"} /\ session' = session
      BY <1>7 DEF AcceptPin, ShowXpub, history
    <2>2. QED BY <1>1, <2>1 DEF SessionInv
  <1>8. CASE RejectPin
    <2>1. /\ pc = "wait" /\ pc' = "enter_pin" /\ session' = session + 1
          /\ pin_failed_attempts < L - 1 /\ n' = n
      BY <1>1, <1>8 DEF RejectPin, CountRejection, LastAttempt, storeVars
    <2>2. n = pin_failed_attempts + 1
      BY <1>1, <2>1 DEF IInv, AttemptCounted, NextCount
    <2>3. QED BY <1>1, <2>1, <2>2 DEF SessionInv
  <1>9. CASE RejectLastPin
    <2>1. pc = "wait" /\ pc' = "deleted" /\ session' = session + 1
      BY <1>9 DEF RejectLastPin, CountRejection
    <2>2. QED BY <1>1, <2>1 DEF SessionInv
  <1>10. QED
    BY <1>2, <1>3, <1>4, <1>5, <1>6, <1>7, <1>8, <1>9 DEF Next, Ui, LockScreen

(* Whatever the counter is when power comes, from a save cut short or from *)
(* attempts that were never judged, no stretch between two power losses    *)
(* rejects more pins than PIN_CODE_MAX_RETRY_COUNT.                        *)
THEOREM SessionsAreBounded == Spec => []RejectionsPerSession
  <1>1. Init => SessionInv
    BY ByteAssumption DEF Init, SessionInv, ByteAssumption
  <1>2. IInv /\ SessionInv /\ [Next]_vars => SessionInv'
    <2>1. SessionInv /\ UNCHANGED vars => SessionInv'
      BY DEF SessionInv, vars, uiVars, storeVars, history
    <2>2. QED BY <2>1, SessionStep
  <1>3. SessionInv => RejectionsPerSession
    BY DEF SessionInv, RejectionsPerSession
  <1>4. QED BY <1>1, <1>2, <1>3, Inductive, PTL DEF Spec

-----------------------------------------------------------------------------
(* What holds when power never fails while the page is rewritten.          *)

(* Where an action finds and leaves the record the flash will hold.        *)
LEMMA StableRecord ==
    ASSUME IInv, Next, ~PowerFailsDuringSave
    PROVE  /\ FlashIdle \/ ContinueSave
           /\ ContinueSave => Stable' = Stable
           /\ FlashIdle /\ pc # "reset" => Stable = wallet_data
           /\ UNCHANGED storeVars => Stable' = Stable
           /\ PowerLoss => Stable' = Stable
           /\ cursor' = 1 => Stable' = wallet_data'
  <1> USE DEF Stable, FlashIdle
  <1>1. FlashIdle \/ ContinueSave
    BY DEF Next, Ui, Initialise, AskDelete, LockScreen, Boot, StartUi, ToggleSelection, ConfirmSelection,
       RestoreWallet, SetupPin, SaveSeed, SaveFlag, KeepWallet, AskAgain, DebugDelete, LeaveLockPicture,
       EnterPin, WaitASecond, AcceptPin, RejectLastPin, RejectPin, Judge, ShowXpub, Idle, PowerLoss, At
  <1>2. ContinueSave => Stable' = Stable
    <2>1. SUFFICES ASSUME ContinueSave PROVE Stable' = Stable
      OBVIOUS
    <2>2. cursor \in 1..7 /\ wallet_data' = wallet_data
          /\ UNCHANGED <<pc, pin_code, history>>
          /\ ProgramNext
          /\ cursor' = IF cursor = 7 THEN 0 ELSE cursor + 1
      BY <2>1 DEF IInv, TypeOK, ContinueSave, ProgramNext, FlashProgram, Members, uiVars
    <2>3. RamIsPage'
      BY <2>2, ProgramProgress
    <2>4. pc # "reset"
      BY <2>2 DEF IInv, SaveHasCaller, SavingLabels
    <2>5. QED BY <2>2, <2>3, <2>4 DEF RamIsPage
  <1>3. QED BY <1>1, <1>2 DEF IInv, RamIsPage, PowerLoss, storeVars

(* Behind the lock screen there is an owner, and RAM is the page.          *)
LEMMA OpenMeansOwned ==
    ASSUME IInv, FlashIdle, pc \in OpenLabels
    PROVE  owner # None /\ Initialized(page) /\ wallet_data = page
  BY DEF IInv, FlagFollowsPc, RamIsPage, OwnersRecord, OpenLabels

(* While a wallet is set up there is no owner yet, if no save was ever cut *)
(* off.                                                                    *)
LEMMA ClosedMeansNone ==
    ASSUME IInv, UncutInv, FlashIdle, pc \in ClosedLabels, ~PowerFailsDuringSave
    PROVE  owner = None
  BY DEF IInv, UncutInv, NothingIsLost, Stable, FlagFollowsPc, RamIsPage, ClosedLabels

(* The xpub screen shows the mnemonic of the page.                         *)
LEMMA UncutShown ==
    ASSUME IInv, UncutInv, Next, ~PowerFailsDuringSave
    PROVE  ShowsOwnersMnemonic'
  <1>1. CASE pc = "show"
    <2>1. PowerLoss \/ ContinueSave \/ Idle
      BY <1>1 DEF Next, Ui, Initialise, AskDelete, LockScreen, Boot, StartUi, ToggleSelection,
         ConfirmSelection, RestoreWallet, SetupPin, SaveSeed, SaveFlag, KeepWallet, AskAgain,
         DebugDelete, LeaveLockPicture, EnterPin, WaitASecond, AcceptPin, RejectLastPin, RejectPin,
         Judge, ShowXpub, At
    <2>2. QED
      BY <2>1 DEF PowerLoss, ContinueSave, Idle, vars, uiVars, history, UncutInv, ShowsOwnersMnemonic
  <1>2. CASE ShowXpub
    <2>1. /\ FlashIdle /\ pc \in OpenLabels /\ owner' = owner
          /\ shown' = IF Initialized(page) THEN Mnemonic(page) ELSE NoSeedEntered
      BY <1>2 DEF ShowXpub, At, OpenLabels, LoadFromFlash, FlashLoad, history
    <2>2. owner # None /\ Initialized(page) /\ Complete(page)
      BY <2>1, OpenMeansOwned DEF UncutInv, NothingIsLost, Stable
    <2>3. Mnemonic(page) = owner.mnemonic
      BY <2>2 DEF IInv, OwnersRecord
    <2>4. QED BY <2>1, <2>2, <2>3 DEF ShowsOwnersMnemonic
  <1>3. CASE pc # "show" /\ ~ShowXpub
    <2>1. pc' # "show"
      BY <1>3 DEF Next, Ui, Initialise, AskDelete, LockScreen, Boot, StartUi, ToggleSelection,
         ConfirmSelection, RestoreWallet, SetupPin, SaveSeed, SaveFlag, KeepWallet, AskAgain,
         DebugDelete, LeaveLockPicture, EnterPin, WaitASecond, AcceptPin, RejectLastPin, RejectPin,
         Judge, Idle, ContinueSave, PowerLoss, vars, uiVars, At, Goto
    <2>2. IInv'
      BY NextIInv
    <2>3. QED BY <2>1, <2>2 DEF IInv, FlagFollowsPc, ShowsOwnersMnemonic
  <1>4. QED BY <1>1, <1>2, <1>3

(* Every step keeps the owner's wallet on the page, if no save is ever cut *)
(* off.                                                                    *)
LEMMA UncutKeeps ==
    ASSUME IInv, UncutInv, Next, ~PowerFailsDuringSave
    PROVE  NothingIsLost'
  <1> USE DEF At, Goto
  <1>1. NothingIsLost
    BY DEF UncutInv
  <1>2. CASE ToggleSelection \/ ConfirmSelection \/ RestoreWallet \/ KeepWallet \/ AskAgain
             \/ LeaveLockPicture \/ WaitASecond \/ Idle \/ RejectPin
    <2>1. UNCHANGED <<storeVars, owner>>
      BY <1>2 DEF ToggleSelection, ConfirmSelection, RestoreWallet, KeepWallet, AskAgain,
         LeaveLockPicture, WaitASecond, Idle, RejectPin, vars, history
    <2>2. QED BY <1>1, <2>1, StableRecord DEF NothingIsLost
  <1>3. CASE Boot \/ StartUi \/ ShowXpub
    <2>1. UNCHANGED <<page, cursor, owner>>
      BY <1>3 DEF Boot, StartUi, ShowXpub, LoadFromFlash, history
    <2>2. FlashIdle
      BY <1>3 DEF Boot, StartUi, ShowXpub
    <2>3. QED BY <1>1, <2>1, <2>2 DEF NothingIsLost, Stable, FlashIdle
  <1>4. CASE ContinueSave \/ PowerLoss
    <2>1. owner' = owner
      BY <1>4 DEF ContinueSave, PowerLoss, history
    <2>2. QED BY <1>1, <1>4, <2>1, StableRecord DEF NothingIsLost
  <1>5. CASE SetupPin \/ SaveSeed
    <2>1. FlashIdle /\ pc \in ClosedLabels /\ owner' = owner
      BY <1>5 DEF SetupPin, SaveSeed, ClosedLabels, history
    <2>2. owner = None
      BY <2>1, ClosedMeansNone
    <2>3. QED BY <2>1, <2>2 DEF NothingIsLost
  <1>6. CASE SaveFlag
    <2>1. /\ words \in Mnemonics /\ Mnemonic(wallet_data) = words
          /\ Save([wallet_data EXCEPT !.initialized = "WALLET_INITIALIZED_MAGIC"])
      BY <1>6 DEF SaveFlag, SetAsInitialized, IInv, InitialisationProgress
    <2>2. cursor' = 1 /\ wallet_data' = [wallet_data EXCEPT !.initialized = "WALLET_INITIALIZED_MAGIC"]
      BY <2>1, SaveBegins
    <2>3. Initialized(wallet_data') /\ wallet_data'.words_2 = wallet_data.words_2
      BY <2>2 DEF Initialized, IInv, TypeOK, WalletRecord
    <2>4. wallet_data.words_2 = words.words_2
      BY <2>1 DEF Mnemonic
    <2>5. Complete(wallet_data')
      BY <2>1, <2>3, <2>4, Inputs DEF Complete
    <2>6. QED BY <2>2, <2>3, <2>5, StableRecord DEF NothingIsLost
  <1>7. CASE DebugDelete \/ RejectLastPin
    BY <1>7 DEF DebugDelete, RejectLastPin, NothingIsLost
  <1>8. CASE EnterPin \/ AcceptPin
    <2>1. PICK n \in Nat : SetPinFailedAttempts(n)
      BY <1>8 DEF EnterPin, AcceptPin, IInv, TypeOK, WalletRecord
    <2>2. FlashIdle /\ pc \in OpenLabels /\ owner' = owner
      BY <1>8 DEF EnterPin, AcceptPin, Judge, OpenLabels
    <2>3. owner # None /\ Initialized(wallet_data) /\ Complete(wallet_data)
      BY <1>1, <2>2, OpenMeansOwned DEF NothingIsLost, Stable
    <2>4. /\ cursor' = 1
          /\ wallet_data' = [wallet_data EXCEPT !.pin_failed_attempts = n % (ByteMax + 1)]
      BY <2>1, SaveBegins DEF SetPinFailedAttempts
    <2>5. Initialized(wallet_data') /\ Complete(wallet_data')
      BY <2>3, <2>4 DEF Initialized, Complete, IInv, TypeOK, WalletRecord
    <2>6. QED BY <2>4, <2>5, StableRecord DEF NothingIsLost
  <1>9. QED
    BY <1>2, <1>3, <1>4, <1>5, <1>6, <1>7, <1>8
    DEF Next, Ui, Initialise, AskDelete, LockScreen

(* The stable record has counted every attempt, if no save is ever cut     *)
(* off.                                                                    *)
LEMMA StableCounts ==
    ASSUME IInv, NothingIsLost, owner # None, ~PowerFailsDuringSave
    PROVE  AttemptsAre(Stable) /\ Stable.pin_failed_attempts \in 0..ByteMax
  <1>1. Initialized(Stable) /\ Complete(Stable) /\ Stable \in {page, wallet_data}
    BY DEF NothingIsLost, Stable
  <1>2. QED BY <1>1 DEF IInv, OwnersRecord, TypeOK, WalletRecord

(* Each lap of the counter is paid for by power losses in the middle of an *)
(* attempt: what it did not count as rejections was wasted.                *)
LEMMA LapsAreWasted ==
    ASSUME IInv, NothingIsLost, RejectionsSoFar, owner # None, ~PowerFailsDuringSave
    PROVE  WastedSoFar
  <1> DEFINE L == PIN_CODE_MAX_RETRY_COUNT
             M == ByteMax + 1
             c == Stable.pin_failed_attempts
             wait == IF pc = "wait" THEN 1 ELSE 0
  <1>1. /\ L \in Nat /\ M \in Nat /\ laps \in Nat /\ c \in 0..ByteMax /\ wait \in {0, 1}
        /\ rejections \in Nat /\ wasted \in Nat /\ ByteMax \in Nat
    BY StableCounts, ByteAssumption DEF IInv, TypeOK, ByteAssumption
  <1>2. c + laps * M = rejections + wasted + wait
    BY StableCounts DEF AttemptsAre
  <1>3. rejections <= (L - 1) * laps + CountBefore
    BY DEF RejectionsSoFar
  <1>4. CountBefore + wait <= c \/ (CountBefore = 0 /\ wait = 1)
    <2>1. CASE pc # "wait"
      BY <1>1, <2>1 DEF CountBefore
    <2>2. CASE pc = "wait"
      <3>1. FlashIdle \/ ~FlashIdle
        OBVIOUS
      <3>2. Stable = wallet_data
        BY <2>2 DEF IInv, RamIsPage, Stable
      <3>3. c = NextCount(pin_failed_attempts)
        BY <2>2, <3>2 DEF IInv, AttemptCounted
      <3>4. pin_failed_attempts \in 0..ByteMax
        BY DEF IInv, TypeOK
      <3>5. QED BY <1>1, <2>2, <3>3, <3>4 DEF CountBefore, NextCount
    <2>3. QED BY <2>1, <2>2
  <1>5. CASE laps = 0
    BY <1>1, <1>5 DEF WastedSoFar
  <1>6. CASE laps # 0
    <2>1. CountBefore \in Nat
      BY <1>1 DEF CountBefore, IInv, TypeOK
    <2> DEFINE a == laps * M
               b == (L - 1) * laps
               d == (M - L) * laps
    <2>2. a = b + d + laps /\ a \in Int /\ b \in Int /\ d \in Int
      BY <1>1
    <2>3. c + a = rejections + wasted + wait /\ rejections <= b + CountBefore
      BY <1>2, <1>3
    <2>4. laps >= 1
      BY <1>1, <1>6
    <2> HIDE DEF a, b, d, L, M, c, wait
    <2>5. wasted >= d
      BY <1>1, <1>4, <2>1, <2>2, <2>3, <2>4
    <2>6. QED BY <1>1, <2>5 DEF WastedSoFar, d, L, M
  <1>7. QED BY <1>5, <1>6

(* Only a judged pin adds to the rejections, and only a counted one to the *)
(* laps.                                                                   *)
LEMMA UncutRejections ==
    ASSUME IInv, IInv', UncutInv, NothingIsLost', Next, ~PowerFailsDuringSave
    PROVE  RejectionsSoFar'
  <1> DEFINE L == PIN_CODE_MAX_RETRY_COUNT
             most == L - 1
             earlier == most * laps
  <1>1. /\ L \in Nat /\ L >= 1 /\ L <= ByteMax /\ ByteMax \in Nat
        /\ rejections \in Nat /\ laps \in Nat
        /\ pin_failed_attempts \in 0..ByteMax /\ earlier \in Nat /\ most \in Nat
    BY ByteAssumption DEF ByteAssumption, IInv, TypeOK
  <1>2. /\ owner = None => rejections <= earlier + L
        /\ owner # None => rejections <= earlier + most /\ rejections <= earlier + CountBefore
    BY DEF UncutInv, RejectionsSoFar
  <1>3. /\ owner # None => Stable.pin_failed_attempts \in 0..ByteMax
        /\ owner' # None => Stable'.pin_failed_attempts \in 0..ByteMax
        /\ owner # None => CountBefore \in Nat
        /\ owner' # None => CountBefore' \in Nat
    <2>1. NothingIsLost
      BY DEF UncutInv
    <2>2. Stable \in WalletRecord /\ Stable' \in WalletRecord
      BY DEF IInv, TypeOK, Stable
    <2>3. pin_failed_attempts' \in 0..ByteMax
      BY DEF IInv, TypeOK
    <2>4. QED BY <1>1, <2>2, <2>3 DEF WalletRecord, CountBefore
  <1> USE DEF At, Goto, Judge
  <1>4. ASSUME rejections' = 0, laps' \in Nat
        PROVE  RejectionsSoFar'
    <2> DEFINE e == most * laps'
    <2>1. e \in Nat
      <3>1. most \in Nat /\ laps' \in Nat
        BY <1>1, <1>4
      <3>2. \A i, j \in Nat : i * j \in Nat
        OBVIOUS
      <3> HIDE DEF most
      <3>3. most * laps' \in Nat
        BY ONLY <3>1, <3>2, Zenon
      <3>4. QED BY <3>3 DEF e
    <2> HIDE DEF e
    <2>2. e \in Nat /\ 0 <= e + L /\ 0 <= e + most /\ (owner' # None => 0 <= e + CountBefore')
      BY <1>1, <1>3, <2>1
    <2>3. QED BY <1>4, <2>2 DEF RejectionsSoFar, e
  <1>5. ASSUME UNCHANGED <<rejections, laps, owner>>, owner # None => CountBefore <= CountBefore'
        PROVE  RejectionsSoFar'
    <2> HIDE DEF earlier
    <2>1. /\ owner' = None => rejections' <= earlier + L
          /\ owner' # None => rejections' <= earlier + most /\ rejections' <= earlier + CountBefore'
      BY <1>1, <1>2, <1>3, <1>5
    <2>2. most * laps' = earlier
      BY <1>5 DEF earlier
    <2>3. QED BY <2>1, <2>2 DEF RejectionsSoFar
  <1>6. CASE ToggleSelection \/ ConfirmSelection \/ RestoreWallet \/ KeepWallet \/ AskAgain
             \/ LeaveLockPicture \/ WaitASecond \/ Idle
    <2>1. /\ UNCHANGED <<storeVars, history, pin_failed_attempts>>
          /\ pc = "wait" <=> pc' = "wait"
      BY <1>6 DEF ToggleSelection, ConfirmSelection, RestoreWallet, KeepWallet, AskAgain,
         LeaveLockPicture, WaitASecond, Idle, vars, uiVars
    <2>2. Stable' = Stable
      BY <2>1, StableRecord
    <2>3. CountBefore' = CountBefore
      BY <2>1, <2>2 DEF CountBefore
    <2>4. QED BY <1>3, <1>5, <2>1, <2>3 DEF history
  <1>7. CASE Boot \/ StartUi \/ ShowXpub
    <2>1. UNCHANGED <<page, cursor, history>> /\ FlashIdle /\ pc # "wait" /\ pc' # "wait"
      BY <1>7 DEF Boot, StartUi, ShowXpub, LoadFromFlash
    <2>2. CountBefore' = CountBefore
      BY <2>1 DEF CountBefore, Stable, FlashIdle
    <2>3. QED BY <1>3, <1>5, <2>1, <2>2 DEF history
  <1>8. CASE ContinueSave
    <2>1. UNCHANGED <<history, pin_failed_attempts, pc>> /\ Stable' = Stable
      BY <1>8, StableRecord DEF ContinueSave, uiVars
    <2>2. CountBefore' = CountBefore
      BY <2>1 DEF CountBefore
    <2>3. QED BY <1>3, <1>5, <2>1, <2>2 DEF history
  <1>9. CASE PowerLoss
    <2>1. UNCHANGED <<owner, rejections, laps>> /\ pc' = "reset" /\ Stable' = Stable /\ FlashIdle
      BY <1>9, StableRecord DEF PowerLoss
    <2>2. CountBefore' = Stable.pin_failed_attempts
      BY <2>1 DEF CountBefore
    <2>3. pc = "wait" => Stable.pin_failed_attempts = NextCount(pin_failed_attempts)
      BY <2>1, StableRecord DEF IInv, AttemptCounted
    <2>4. owner # None => CountBefore <= CountBefore'
      BY <1>1, <1>3, <2>2, <2>3 DEF CountBefore, NextCount
    <2>5. QED BY <1>5, <2>1, <2>4
  <1>10. CASE SetupPin \/ SaveSeed
    <2>1. FlashIdle /\ pc \in ClosedLabels /\ UNCHANGED history
      BY <1>10 DEF SetupPin, SaveSeed, ClosedLabels
    <2>2. owner = None
      BY <2>1, ClosedMeansNone
    <2>3. QED BY <1>5, <2>1, <2>2 DEF history
  <1>11. CASE SaveFlag \/ DebugDelete \/ AcceptPin
    <2>1. rejections' = 0 /\ laps' = 0
      BY <1>11 DEF SaveFlag, DebugDelete, AcceptPin, CountAnew
    <2>2. QED BY <1>4, <2>1
  <1>12. CASE EnterPin
    <2> DEFINE n == wallet_data.pin_failed_attempts
    <2>1. /\ FlashIdle /\ pc = "enter_pin" /\ pc' = "wait" /\ UNCHANGED <<owner, rejections>>
          /\ pin_failed_attempts' = n /\ laps' = IF n = ByteMax THEN laps + 1 ELSE laps
      BY <1>12 DEF EnterPin
    <2>2. owner # None /\ Stable = wallet_data
      BY <2>1, OpenMeansOwned DEF OpenLabels, Stable
    <2>3. CountBefore = n /\ CountBefore' = IF n = ByteMax THEN 0 ELSE n
      BY <2>1, <2>2 DEF CountBefore
    <2>4. CASE n # ByteMax
      BY <1>3, <1>5, <2>1, <2>2, <2>3, <2>4
    <2>5. CASE n = ByteMax
      <3> DEFINE e == most * laps'
      <3>1. e = earlier + most /\ most \in Nat /\ e \in Nat
        BY <1>1, <2>1, <2>5
      <3>2. rejections' <= earlier + most /\ CountBefore' = 0
        BY <1>2, <2>1, <2>2, <2>3, <2>5
      <3> HIDE DEF e, earlier, most
      <3>3. rejections' <= e + most /\ rejections' <= e + CountBefore'
        BY <1>1, <2>1, <3>1, <3>2
      <3>4. owner' # None
        BY <2>1, <2>2
      <3>5. QED BY <3>3, <3>4 DEF RejectionsSoFar, e, most
    <2>6. QED BY <2>4, <2>5
  <1>13. CASE RejectPin
    <2>1. /\ FlashIdle /\ pc = "wait" /\ pc' = "enter_pin"
          /\ UNCHANGED <<storeVars, owner, laps>>
          /\ rejections' = rejections + 1 /\ pin_failed_attempts < L - 1
      BY <1>1, <1>13 DEF RejectPin, CountRejection, LastAttempt
    <2>2. owner # None /\ Stable = wallet_data /\ Stable' = Stable
      BY <2>1, OpenMeansOwned, StableRecord DEF OpenLabels, Stable
    <2>3. CountBefore = pin_failed_attempts /\ CountBefore' = pin_failed_attempts + 1
      BY <1>1, <2>1, <2>2 DEF CountBefore, IInv, AttemptCounted, NextCount
    <2>4. most * laps' = earlier
      BY <2>1
    <2> HIDE DEF earlier
    <2>5. rejections' <= earlier + most /\ rejections' <= earlier + CountBefore'
      BY <1>1, <1>2, <2>1, <2>2, <2>3
    <2>6. QED BY <2>1, <2>2, <2>4, <2>5 DEF RejectionsSoFar
  <1>14. CASE RejectLastPin
    <2>1. FlashIdle /\ pc = "wait" /\ owner' = None /\ laps' = laps /\ rejections' = rejections + 1
      BY <1>14 DEF RejectLastPin, CountRejection
    <2>2. owner # None
      BY <2>1, OpenMeansOwned DEF OpenLabels
    <2>3. most * laps' = earlier
      BY <2>1
    <2> HIDE DEF earlier
    <2>4. rejections' <= earlier + L
      BY <1>1, <1>2, <2>1, <2>2
    <2>5. QED BY <2>1, <2>3, <2>4 DEF RejectionsSoFar
  <1>15. QED
    BY <1>6, <1>7, <1>8, <1>9, <1>10, <1>11, <1>12, <1>13, <1>14
    DEF Next, Ui, Initialise, AskDelete, LockScreen

(* Every step keeps what holds when no save is cut off.                    *)
LEMMA UncutStep ==
    ASSUME IInv, UncutInv, Next, ~PowerFailsDuringSave
    PROVE  UncutInv'
  <1>1. IInv' /\ NothingIsLost' /\ ShowsOwnersMnemonic'
    BY NextIInv, UncutKeeps, UncutShown
  <1>2. RejectionsSoFar'
    BY <1>1, UncutRejections
  <1>3. WastedSoFar'
    <2>1. CASE owner' # None
      <3>1. (IInv /\ NothingIsLost /\ RejectionsSoFar /\ owner # None => WastedSoFar)'
        BY LapsAreWasted, PTL
      <3>2. QED BY <1>1, <1>2, <2>1, <3>1
    <2>2. CASE owner' = None
      <3>1. \/ wasted' = 0 /\ laps' = 0
            \/ laps' = laps /\ wasted' \in {wasted, wasted + 1}
        BY <2>2, OpenMeansOwned
        DEF Next, Ui, Initialise, AskDelete, LockScreen, Boot, StartUi, ToggleSelection,
            ConfirmSelection, RestoreWallet, SetupPin, SaveSeed, SaveFlag, KeepWallet, AskAgain,
            DebugDelete, LeaveLockPicture, EnterPin, WaitASecond, AcceptPin, RejectLastPin, RejectPin,
            Judge, ShowXpub, Idle, ContinueSave, PowerLoss, vars, history, CountAnew, CountRejection,
            At, OpenLabels
      <3>2. WastedSoFar /\ wasted \in Nat /\ laps \in Nat
        BY DEF UncutInv, IInv, TypeOK
      <3> DEFINE u == ByteMax + 1 - PIN_CODE_MAX_RETRY_COUNT
      <3>3. u \in Int /\ wasted >= u * laps /\ u * laps \in Int
        BY <3>2, ByteAssumption DEF WastedSoFar, ByteAssumption
      <3>4. CASE wasted' = 0 /\ laps' = 0
        BY <3>3, <3>4 DEF WastedSoFar
      <3>5. CASE laps' = laps /\ wasted' \in {wasted, wasted + 1}
        <4> DEFINE p == u * laps
        <4> HIDE DEF p
        <4>1. wasted' >= p
          BY <3>2, <3>3, <3>5 DEF p
        <4>2. QED BY <3>5, <4>1 DEF WastedSoFar, p
      <3>6. QED BY <3>1, <3>4, <3>5
    <2>3. QED BY <2>1, <2>2
  <1>4. QED BY <1>1, <1>2, <1>3 DEF UncutInv

(* Without a power loss in the middle of a save the page is the owner's    *)
(* wallet all the time, not only as far as it is complete.                 *)
THEOREM UncutInductive ==
    ASSUME ~PowerFailsDuringSave PROVE Spec => []UncutInv
  <1>1. Init => UncutInv
    BY ByteAssumption DEF Init, UncutInv, NothingIsLost, ShowsOwnersMnemonic, RejectionsSoFar,
       WastedSoFar, ByteAssumption
  <1>2. IInv /\ UncutInv /\ [Next]_vars => UncutInv'
    <2>1. IInv /\ UncutInv /\ UNCHANGED vars => UncutInv'
      BY DEF vars, storeVars, uiVars, history, UncutInv, NothingIsLost, ShowsOwnersMnemonic, Stable,
         FlashIdle, Initialized, Complete, RejectionsSoFar, CountBefore, WastedSoFar
    <2>2. QED BY <2>1, UncutStep
  <1>3. QED BY <1>1, <1>2, Inductive, PTL DEF Spec

(* Nothing is lost when power fails between saves only.                    *)
THEOREM KeepsWallet ==
    ASSUME ~PowerFailsDuringSave PROVE Spec => []NothingIsLost
  BY UncutInductive, PTL DEF UncutInv

(* No more pins are rejected than the limit but for laps of the counter's  *)
(* byte, and each of those costs as many attempts cut short by power as    *)
(* the byte has counts beyond the limit.                                   *)
THEOREM RejectionLimit ==
    ASSUME ~PowerFailsDuringSave PROVE Spec => []RejectionsBounded
  <1>1. IInv /\ UncutInv => RejectionsBounded
    <2> DEFINE most == PIN_CODE_MAX_RETRY_COUNT - 1
               e == most * laps
    <2> SUFFICES ASSUME IInv, UncutInv PROVE RejectionsBounded
      OBVIOUS
    <2>2. /\ PIN_CODE_MAX_RETRY_COUNT \in Nat /\ laps \in Nat /\ rejections \in Nat
          /\ e \in Int /\ most \in Int
      BY ByteAssumption DEF IInv, TypeOK, ByteAssumption
    <2>7. rejections <= e + PIN_CODE_MAX_RETRY_COUNT \/ rejections <= e + most
      BY DEF UncutInv, RejectionsSoFar
    <2>3. most <= PIN_CODE_MAX_RETRY_COUNT
      BY <2>2
    <2>4. WastedSoFar
      BY DEF UncutInv
    <2> HIDE DEF most, e
    <2>5. rejections <= PIN_CODE_MAX_RETRY_COUNT + e
      BY <2>2, <2>3, <2>7
    <2>6. QED BY <2>2, <2>4, <2>5 DEF RejectionsBounded, WastedSoFar, most, e
  <1>2. QED BY <1>1, UncutInductive, Inductive, PTL

(* The xpub shown belongs to the owner's mnemonic.                         *)
THEOREM ShowsOwners ==
    ASSUME ~PowerFailsDuringSave PROVE Spec => []ShowsOwnersMnemonic
  <1>1. UncutInv => ShowsOwnersMnemonic
    BY DEF UncutInv
  <1>2. QED BY <1>1, UncutInductive, PTL

-----------------------------------------------------------------------------
(* The firmware implements WalletStore.                                    *)

(* An erased page is an empty store.                                       *)
LEMMA StoreInit == Init => Store!Init
  BY DEF Init, Store!Init, Stable, FlashIdle, Initialized, ErasedRecord

(* The abstract wallet while the lock screen is up.                        *)
LEMMA OwnedStore ==
    ASSUME IInv, UncutInv, ~PowerFailsDuringSave, FlashIdle, pc \in OpenLabels
    PROVE  /\ Initialized(Stable) /\ Stable = wallet_data /\ page = wallet_data
           /\ PinOf(Stable) \in PinCodes /\ Mnemonic(Stable) \in Mnemonics
           /\ [pin |-> PinOf(Stable), mnemonic |-> Mnemonic(Stable)] # None
           /\ PinOf(Stable) = owner.pin
           /\ owner # None
           /\ Complete(Stable)
  <1>1. owner # None /\ Stable = wallet_data /\ page = wallet_data
    BY OpenMeansOwned DEF Stable
  <1>2. Initialized(Stable) /\ Complete(Stable)
    BY <1>1 DEF UncutInv, NothingIsLost
  <1>3. PinOf(Stable) = owner.pin /\ Mnemonic(Stable) = owner.mnemonic
    BY <1>1, <1>2 DEF IInv, OwnersRecord
  <1>4. PinOf(Stable) \in PinCodes /\ Mnemonic(Stable) \in Mnemonics
    BY <1>1, <1>3, OwnerTypes DEF IInv
  <1>5. QED BY <1>1, <1>2, <1>3, <1>4, InputAssumption

(* A step that leaves the stable record, the pin to be judged and the      *)
(* shown wallet alone is no step of the store.                             *)
LEMMA StoreStutters ==
    ASSUME UNCHANGED shown,
           pc = "wait" <=> pc' = "wait", pc = "wait" => pin_code' = pin_code,
           pc \in {"derive", "show"} <=> pc' \in {"derive", "show"},
           Stable' = Stable \/ (~Initialized(Stable) /\ ~Initialized(Stable'))
    PROVE  UNCHANGED Store!vars
  BY DEF Store!vars, Initialized, PinOf, Mnemonic

(* The save of the flag creates the wallet.                                *)
LEMMA StoreCreate ==
    ASSUME IInv, IInv', SaveFlag, ~PowerFailsDuringSave, UncutInv
    PROVE  Store!Next
  <1> USE DEF At, Goto
  <1>1. /\ pc = "save_flag" /\ pc' = "locked" /\ FlashIdle
        /\ words \in Mnemonics /\ pin_code \in PinCodes /\ wallet_data.pin_failed_attempts = 0
        /\ PinOf(wallet_data) = pin_code /\ Mnemonic(wallet_data) = words
        /\ Save([wallet_data EXCEPT !.initialized = "WALLET_INITIALIZED_MAGIC"])
        /\ shown' = shown
    BY DEF SaveFlag, SetAsInitialized, IInv, InitialisationProgress
  <1>2. Stable = wallet_data /\ ~Initialized(Stable)
    BY <1>1, StableRecord DEF IInv, FlagFollowsPc, ClosedLabels, Stable, RamIsPage
  <1>3. /\ cursor' = 1 /\ ~FlashIdle'
        /\ wallet_data' = [wallet_data EXCEPT !.initialized = "WALLET_INITIALIZED_MAGIC"]
    BY <1>1, SaveBegins
  <1>4. Stable' = wallet_data'
    BY <1>3 DEF Stable
  <1>5. /\ Initialized(Stable') /\ PinOf(Stable') = pin_code /\ Mnemonic(Stable') = words
        /\ Stable'.pin_failed_attempts = 0
    BY <1>1, <1>3, <1>4 DEF Initialized, PinOf, Mnemonic, IInv, TypeOK, WalletRecord
  <1>6. Store!Create
    BY <1>1, <1>2, <1>5 DEF Store!Create
  <1>7. QED BY <1>6 DEF Store!Next

(* The deletion for debugging empties the store.                           *)
LEMMA StoreDelete ==
    ASSUME IInv, UncutInv, DebugDelete, ~PowerFailsDuringSave
    PROVE  Store!Next
  <1> USE DEF At, Goto
  <1>1. pc = "really_delete" /\ pc' = "deleted" /\ FlashIdle /\ shown' = shown /\ WalletDelete
    BY DEF DebugDelete
  <1>2. ~FlashIdle' /\ ~Initialized(wallet_data')
    BY <1>1, SaveBegins DEF WalletDelete, Initialized
  <1>3. ~Initialized(Stable')
    BY <1>2 DEF Stable
  <1>4. Initialized(Stable) /\ [pin |-> PinOf(Stable), mnemonic |-> Mnemonic(Stable)] # None
    BY <1>1, OwnedStore DEF OpenLabels
  <1>5. Store!Delete
    BY <1>1, <1>3, <1>4 DEF Store!Delete
  <1>6. QED BY <1>5 DEF Store!Next

(* The save of the counter presents the pin.                               *)
LEMMA StorePresent ==
    ASSUME IInv, UncutInv, EnterPin, ~PowerFailsDuringSave
    PROVE  Store!Next
  <1> USE DEF At, Goto
  <1> DEFINE n == wallet_data.pin_failed_attempts
  <1>1. /\ pc = "enter_pin" /\ pc' = "wait" /\ FlashIdle /\ shown' = shown /\ pin_code' \in PinCodes
        /\ pin_failed_attempts' = n
        /\ Save([wallet_data EXCEPT !.pin_failed_attempts = (n + 1) % (ByteMax + 1)])
    BY DEF EnterPin, SetPinFailedAttempts
  <1>2. /\ cursor' = 1 /\ ~FlashIdle'
        /\ wallet_data' = [wallet_data EXCEPT !.pin_failed_attempts = (n + 1) % (ByteMax + 1)]
    BY <1>1, SaveBegins
  <1>3. Stable' = wallet_data'
    BY <1>2 DEF Stable
  <1>4. /\ Initialized(Stable) /\ Stable = wallet_data /\ Complete(Stable)
        /\ [pin |-> PinOf(Stable), mnemonic |-> Mnemonic(Stable)] # None
    BY <1>1, OwnedStore DEF OpenLabels
  <1>5. /\ Initialized(Stable') /\ PinOf(Stable') = PinOf(Stable) /\ Mnemonic(Stable') = Mnemonic(Stable)
        /\ Stable'.pin_failed_attempts = (Stable.pin_failed_attempts + 1) % (ByteMax + 1)
    BY <1>2, <1>3, <1>4 DEF Initialized, PinOf, Mnemonic, IInv, TypeOK, WalletRecord
  <1>6. Store!Present
    BY <1>1, <1>4, <1>5 DEF Store!Present
  <1>7. QED BY <1>6 DEF Store!Next

(* The number of the attempt that a count stands for.                      *)
NumberOf(count) == IF count = 0 THEN ByteMax + 1 ELSE count

(* What the lock screen knows when it judges the pin.                      *)
LEMMA JudgedStore ==
    ASSUME IInv, UncutInv, Judge, ~PowerFailsDuringSave
    PROVE  /\ pc = "wait" /\ FlashIdle
           /\ pin_code \in PinCodes /\ pin_code # None
           /\ Initialized(Stable) /\ Stable = wallet_data
           /\ [pin |-> PinOf(Stable), mnemonic |-> Mnemonic(Stable)] # None
           /\ CheckPinCode(pin_code) <=> pin_code = PinOf(Stable)
           /\ LastAttempt <=> NumberOf(Stable.pin_failed_attempts) >= PIN_CODE_MAX_RETRY_COUNT
  <1> USE DEF Judge, At
  <1>1. /\ pc = "wait" /\ FlashIdle /\ pin_code \in PinCodes
        /\ wallet_data.pin_failed_attempts = NextCount(pin_failed_attempts)
    BY DEF IInv, AttemptCounted
  <1>2. pin_code # None
    BY <1>1, InputAssumption
  <1>3. /\ Initialized(Stable) /\ Stable = wallet_data /\ Complete(Stable)
        /\ [pin |-> PinOf(Stable), mnemonic |-> Mnemonic(Stable)] # None
    BY <1>1, OwnedStore DEF OpenLabels
  <1>4. CheckPinCode(pin_code) <=> pin_code = PinOf(Stable)
    <2>1. pin_code = [length |-> pin_code.length, code |-> pin_code.code]
      BY <1>1, Inputs
    <2>2. QED BY <1>3, <2>1 DEF CheckPinCode, PinOf
  <1>5. LastAttempt <=> NumberOf(Stable.pin_failed_attempts) >= PIN_CODE_MAX_RETRY_COUNT
    <2>1. pin_failed_attempts \in 0..ByteMax
      BY DEF IInv, TypeOK
    <2>2. NumberOf(Stable.pin_failed_attempts) = pin_failed_attempts + 1
      BY <1>1, <1>3, <2>1, ByteAssumption DEF NumberOf, NextCount, ByteAssumption
    <2>3. QED BY <2>1, <2>2, ByteAssumption DEF LastAttempt, ByteAssumption
  <1>6. QED BY <1>1, <1>2, <1>3, <1>4, <1>5

(* The accepted pin is the store's, and its attempts start anew.           *)
LEMMA StoreAccept ==
    ASSUME IInv, UncutInv, AcceptPin, ~PowerFailsDuringSave
    PROVE  Store!Next
  <1> USE DEF At, Goto
  <1>1. /\ Judge /\ CheckPinCode(pin_code) /\ pc' = "derive" /\ shown' = shown
        /\ Save([wallet_data EXCEPT !.pin_failed_attempts = 0 % (ByteMax + 1)])
    BY DEF AcceptPin, CountAnew, SetPinFailedAttempts
  <1>2. /\ ~FlashIdle'
        /\ wallet_data' = [wallet_data EXCEPT !.pin_failed_attempts = 0 % (ByteMax + 1)]
    BY <1>1, SaveBegins
  <1>3. Stable' = wallet_data'
    BY <1>2 DEF Stable
  <1>4. 0 % (ByteMax + 1) = 0
    BY ByteAssumption DEF ByteAssumption
  <1>5. /\ Initialized(Stable') /\ PinOf(Stable') = PinOf(Stable) /\ Mnemonic(Stable') = Mnemonic(Stable)
        /\ Stable'.pin_failed_attempts = 0
    BY <1>1, <1>2, <1>3, <1>4, JudgedStore DEF Initialized, PinOf, Mnemonic, IInv, TypeOK, WalletRecord
  <1>6. Store!Accept
    BY <1>1, <1>5, JudgedStore DEF Store!Accept
  <1>7. QED BY <1>6 DEF Store!Next

(* The rejected pin is not the store's, and the last rejection deletes.    *)
LEMMA StoreReject ==
    ASSUME IInv, UncutInv, RejectPin \/ RejectLastPin, ~PowerFailsDuringSave
    PROVE  Store!Next
  <1> USE DEF At, Goto
  <1>1. Judge /\ ~CheckPinCode(pin_code) /\ pc' \in {"enter_pin", "deleted"} /\ shown' = shown
    BY DEF RejectPin, RejectLastPin
  <1>2. CASE RejectPin
    <2>1. ~LastAttempt /\ UNCHANGED storeVars
      BY <1>2 DEF RejectPin
    <2>2. Stable' = Stable
      BY <2>1 DEF Stable, FlashIdle, storeVars
    <2>3. Store!Reject
      BY <1>1, <2>1, <2>2, JudgedStore, ByteAssumption DEF Store!Reject, Store!Number, NumberOf, ByteAssumption
    <2>4. QED BY <2>3 DEF Store!Next
  <1>3. CASE RejectLastPin
    <2>1. LastAttempt /\ WalletDelete
      BY <1>3 DEF RejectLastPin
    <2>2. ~FlashIdle' /\ ~Initialized(wallet_data')
      BY <2>1, SaveBegins DEF WalletDelete, Initialized
    <2>3. ~Initialized(Stable')
      BY <2>2 DEF Stable
    <2>4. Store!Reject
      BY <1>1, <2>1, <2>3, JudgedStore DEF Store!Reject, Store!Number, NumberOf
    <2>5. QED BY <2>4 DEF Store!Next
  <1>4. QED BY <1>2, <1>3

(* The xpub shown is the one of the stored mnemonic.                       *)
LEMMA StoreShow ==
    ASSUME IInv, UncutInv, ShowXpub, ~PowerFailsDuringSave
    PROVE  Store!Next
  <1> USE DEF At, Goto
  <1>1. /\ pc = "derive" /\ pc' = "show" /\ FlashIdle /\ page' = page /\ cursor' = cursor
        /\ shown' = IF Initialized(page) THEN Mnemonic(page) ELSE NoSeedEntered
    BY DEF ShowXpub, LoadFromFlash, FlashLoad
  <1>2. Initialized(Stable) /\ Stable = page
    BY <1>1, OwnedStore DEF OpenLabels
  <1>3. Stable' = Stable
    BY <1>1 DEF Stable, FlashIdle
  <1>4. Store!Show
    BY <1>1, <1>2, <1>3 DEF Store!Show
  <1>5. QED BY <1>4 DEF Store!Next

(* Switched off between saves the store keeps all it has.                  *)
LEMMA StoreLosePower ==
    ASSUME IInv, PowerLoss, ~PowerFailsDuringSave
    PROVE  Store!Next
  <1>1. FlashIdle /\ cursor' = 0 /\ page' = page /\ pc' = "reset" /\ shown' = None
    BY DEF PowerLoss
  <1>2. Stable' = Stable
    BY <1>1 DEF Stable, FlashIdle
  <1>3. Store!LosePower
    BY <1>1, <1>2 DEF Store!LosePower
  <1>4. QED BY <1>3 DEF Store!Next

(* Every step is a step of the store or none.                              *)
LEMMA StoreStep ==
    ASSUME IInv, UncutInv, IInv', Next, ~PowerFailsDuringSave
    PROVE  [Store!Next]_(Store!vars)
  <1> USE DEF At, Goto
  <1>1. CASE ToggleSelection \/ ConfirmSelection \/ RestoreWallet \/ KeepWallet \/ AskAgain
             \/ LeaveLockPicture \/ WaitASecond \/ Idle
    BY <1>1, StableRecord, StoreStutters
    DEF ToggleSelection, ConfirmSelection, RestoreWallet, KeepWallet, AskAgain,
        LeaveLockPicture, WaitASecond, Idle, vars, uiVars
  <1>2. CASE Boot \/ StartUi
    <2>1. Stable' = Stable
      BY <1>2 DEF Boot, StartUi, LoadFromFlash, Stable, FlashIdle
    <2>2. QED BY <1>2, <2>1, StoreStutters DEF Boot, StartUi
  <1>3. CASE ContinueSave
    BY <1>3, StableRecord, StoreStutters DEF ContinueSave, uiVars
  <1>4. CASE SetupPin \/ SaveSeed
    <2>1. /\ pc \in {"setup_pin", "save_seed"} /\ pc' \in {"save_seed", "save_flag"} /\ FlashIdle
          /\ shown' = shown
      BY <1>4 DEF SetupPin, SaveSeed
    <2>2. ~Initialized(wallet_data) /\ ~Initialized(wallet_data')
      BY <2>1 DEF IInv, FlagFollowsPc, ClosedLabels
    <2>3. ~Initialized(Stable) /\ ~Initialized(Stable')
      BY <2>1, <2>2 DEF Stable, IInv, RamIsPage
    <2>4. QED BY <2>1, <2>3, StoreStutters
  <1>5. QED
    BY <1>1, <1>2, <1>3, <1>4, StoreCreate, StoreDelete, StorePresent, StoreAccept, StoreReject,
       StoreShow, StoreLosePower
    DEF Next, Ui, Initialise, AskDelete, LockScreen

(* The refinement, for every size of the counter and every choice of pins  *)
(* and mnemonics.                                                          *)
THEOREM Refinement ==
    ASSUME ~PowerFailsDuringSave PROVE Spec => ImplementsStore
  <1>1. IInv /\ UncutInv /\ IInv' /\ [Next]_vars => [Store!Next]_(Store!vars)
    <2>1. UNCHANGED vars => UNCHANGED Store!vars
      BY StoreStutters DEF vars, storeVars, uiVars, Stable, FlashIdle
    <2>2. QED BY <2>1, StoreStep
  <1>2. QED
    BY <1>1, StoreInit, Inductive, UncutInductive, PTL DEF Spec, Store!Spec, ImplementsStore

=============================================================================
