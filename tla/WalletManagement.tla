-------------------------- MODULE WalletManagement --------------------------
(***************************************************************************)
(* The wallet record and its operations, src/epmw_firmware/                *)
(* wallet_management.c: a copy in RAM (wallet_data) that every operation   *)
(* changes and then writes to the flash page as a whole.                   *)
(*                                                                         *)
(* An operation of this module is the RAM change together with the start   *)
(* of the save (the page erase); the caller goes on once the save is over, *)
(* that is when FlashIdle holds again.                                     *)
(***************************************************************************)
EXTENDS Integers

CONSTANTS
    ByteMax,        \* the largest value of an uint8_t (255 in the firmware)
    Codes,          \* the digits of a pin code, as abstract values
    WordHalves,     \* halves of a mnemonic's word list, as abstract values
    NoDigits,       \* a pin's digits after they were overwritten with zeros
    ErasedDigits,   \* a pin's digits on an erased page (0xFF bytes)
    NoWords,        \* words overwritten with zeros
    ErasedWords     \* words on an erased page (0xFFFF: in no word list)

VARIABLES page, cursor,
    wallet_data     \* the RAM copy of the record

(* wallet_data_t, in the order of its members.  The word list is two       *)
(* fields so that a save can stop in its middle.  A pin has fewer than     *)
(* eight digits here: the eighth shares a half-word with the counter.      *)
Members == <<"initialized", "length", "code", "pin_failed_attempts", "wc", "words_1", "words_2">>

ErasedRecord ==
    [initialized |-> "ERASED", length |-> ByteMax, code |-> ErasedDigits,
     pin_failed_attempts |-> ByteMax, wc |-> ByteMax,
     words_1 |-> ErasedWords, words_2 |-> ErasedWords]

INSTANCE FlashStorage WITH
    Layout <- Members, Erased <- ErasedRecord

(* The zeroed .bss the record starts from.                                 *)
ZeroRecord ==
    [initialized |-> "ZERO", length |-> 0, code |-> NoDigits,
     pin_failed_attempts |-> 0, wc |-> 0, words_1 |-> NoWords, words_2 |-> NoWords]

WalletRecord ==
    [initialized : {"WALLET_INITIALIZED_MAGIC", "WALLET_NOT_INITIALIZED_MAGIC", "ERASED", "ZERO"},
     length : 0..ByteMax,
     code : Codes \cup {NoDigits, ErasedDigits},
     pin_failed_attempts : 0..ByteMax,
     wc : 0..ByteMax,
     words_1 : WordHalves \cup {NoWords, ErasedWords},
     words_2 : WordHalves \cup {NoWords, ErasedWords}]

Initialized(record) == record.initialized = "WALLET_INITIALIZED_MAGIC"

(* The mnemonic of a record, as wallet_management_get_mnemonic_seed gives  *)
(* it: the pointer to the words and their count.                           *)
Mnemonic(record) == [wc |-> record.wc, words_1 |-> record.words_1, words_2 |-> record.words_2]

PinOf(record) == [length |-> record.length, code |-> record.code]

(* wallet_management_init and wallet_is_initialized both load the record;  *)
(* the second one answers Initialized(wallet_data').                       *)
LoadFromFlash ==
    /\ wallet_data' = FlashLoad
    /\ UNCHANGED <<page, cursor>>

(* Every operation below ends in wallet_management_save_to_flash.          *)
Save(record) ==
    /\ wallet_data' = record
    /\ FlashErase

(* Mutant: only the lengths are compared.                                  *)
CheckLengthOnly(pin) == wallet_data.length = pin.length

(* compare_pin_codes: the lengths, then the digits up to that length.      *)
CheckPinCode(pin) ==
    /\ wallet_data.length = pin.length
    /\ wallet_data.code = pin.code

(* Mutant: the attempts of the wallet deleted before are kept.             *)
SetPinKeepAttempts(pin) ==
    Save([wallet_data EXCEPT !.length = pin.length, !.code = pin.code])

(* Mutant: the wallet counts as initialized as soon as it has a pin.       *)
SetPinAndFlag(pin) ==
    Save([wallet_data EXCEPT !.length = pin.length, !.code = pin.code,
                             !.pin_failed_attempts = 0,
                             !.initialized = "WALLET_INITIALIZED_MAGIC"])

SetPinCode(pin) ==
    Save([wallet_data EXCEPT !.length = pin.length, !.code = pin.code,
                             !.pin_failed_attempts = 0])

(* Mutant: the word count is tested the wrong way round.                   *)
SetSeedTestInverted(m) ==
    IF m.wc % 3 = 0
    THEN UNCHANGED <<page, cursor, wallet_data>>
    ELSE Save([wallet_data EXCEPT !.wc = m.wc, !.words_1 = m.words_1, !.words_2 = m.words_2])

(* Mutant: the copy loop stops before the end of the words.                *)
SetSeedShort(m) ==
    Save([wallet_data EXCEPT !.wc = m.wc, !.words_1 = m.words_1])

(* A word count that is no multiple of three leaves the record alone, and  *)
(* the caller is not told.                                                 *)
SetMnemonicSeed(m) ==
    IF m.wc % 3 # 0
    THEN UNCHANGED <<page, cursor, wallet_data>>
    ELSE Save([wallet_data EXCEPT !.wc = m.wc, !.words_1 = m.words_1, !.words_2 = m.words_2])

SetAsInitialized ==
    Save([wallet_data EXCEPT !.initialized = "WALLET_INITIALIZED_MAGIC"])

SetPinFailedAttempts(n) ==
    Save([wallet_data EXCEPT !.pin_failed_attempts = n % (ByteMax + 1)])

(* Mutant: the flag is left standing.                                      *)
DeleteKeepsFlag ==
    Save([initialized |-> wallet_data.initialized,
          length |-> 0, code |-> NoDigits,
          pin_failed_attempts |-> wallet_data.pin_failed_attempts,
          wc |-> 0, words_1 |-> NoWords, words_2 |-> NoWords])

(* wallet_delete: words, count and pin are zeroed, the attempts counter is *)
(* left as it is.                                                          *)
WalletDelete ==
    Save([initialized |-> "WALLET_NOT_INITIALIZED_MAGIC",
          length |-> 0, code |-> NoDigits,
          pin_failed_attempts |-> wallet_data.pin_failed_attempts,
          wc |-> 0, words_1 |-> NoWords, words_2 |-> NoWords])

(* A turn of the save in progress.                                         *)
ProgramNext ==
    /\ FlashProgram(wallet_data)
    /\ UNCHANGED wallet_data
=============================================================================
