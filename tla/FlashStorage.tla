---------------------------- MODULE FlashStorage ----------------------------
(***************************************************************************)
(* The one flash page that keeps the wallet, src/epmw_firmware/            *)
(* flash_storage.c over libopencm3's F1 flash driver.                      *)
(*                                                                         *)
(* A save erases the page and then programs the bytes of the caller's      *)
(* structure again, upwards, half-word by half-word.  The page is modelled *)
(* as a record whose fields are the groups of half-words that hold one     *)
(* member of the structure each; Layout lists them in the order the loop   *)
(* reaches them.  A field that was erased and not programmed yet reads as  *)
(* it does in Erased (all bits one).  Power may fail between any two of    *)
(* these steps: what the page then holds is what it holds.                 *)
(***************************************************************************)
EXTENDS Naturals, Sequences

CONSTANTS
    Layout,     \* the fields of the saved structure, in programming order
    Erased      \* the record an erased page reads as

VARIABLES
    page,       \* the flash page at FLASH_STORAGE_ADDRESS
    cursor      \* 0: no save in progress; i: the loop programs Layout[i] next

(* The flash is locked and the caller of flash_save_data has returned.     *)
FlashIdle == cursor = 0

(* flash_save_data begins: unlock, erase the page.                         *)
FlashErase ==
    /\ page' = Erased
    /\ cursor' = 1

(* One turn of the programming loop for the caller's structure data; after *)
(* the last field the flash is locked and flash_save_data returns.         *)
FlashProgram(data) ==
    /\ cursor > 0
    /\ page' = [page EXCEPT ![Layout[cursor]] = data[Layout[cursor]]]
    /\ cursor' = IF cursor = Len(Layout) THEN 0 ELSE cursor + 1

(* flash_load_data: the structure the caller receives.                     *)
FlashLoad == page
=============================================================================
