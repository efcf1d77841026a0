-------------------------------- MODULE Bits --------------------------------
(***************************************************************************)
(* The shift that display.c, wallet/crypto/bip39.c and the lock screen's   *)
(* wait in ui.c, under src/epmw_firmware/, are made of.                    *)
(***************************************************************************)
EXTENDS Integers

(* 1 << n, a recursive function and not 2^n so that it can be reasoned     *)
(* about.                                                                  *)
Shifted(n) ==
    LET power[k \in 0..n] == IF k = 0 THEN 1 ELSE 2 * power[k - 1]
    IN  power[n]
=============================================================================
