-------------------------- MODULE MCWalletLifecycle --------------------------
(* WalletLifecycle with two pins and two mnemonics for TLC.                *)
EXTENDS WalletLifecycle

CONSTANTS d1, d2, w1, w2

MCPinCodes == {[length |-> 4, code |-> d1], [length |-> 4, code |-> d2]}
MCMnemonics == {[wc |-> 3, words_1 |-> w1, words_2 |-> w2],
                [wc |-> 6, words_1 |-> w2, words_2 |-> w1]}
=============================================================================
