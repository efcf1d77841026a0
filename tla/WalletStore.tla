----------------------------- MODULE WalletStore -----------------------------
(***************************************************************************)
(* What the wallet promises its owner, with nothing of how it is stored:   *)
(* there is a wallet or there is none; it is opened by presenting its pin; *)
(* every presented pin is counted before it is judged, in a byte that runs *)
(* over; the wallet is given up when the pin presented at the limit or     *)
(* beyond it is wrong; an open wallet shows the mnemonic it was created    *)
(* with; losing power closes the wallet and forgets no counted pin.        *)
(*                                                                         *)
(* WalletLifecycle implements it when no save of the page is cut short.    *)
(***************************************************************************)
EXTENDS Naturals

CONSTANTS
    PinCodes,                   \* the pins a user can choose
    Mnemonics,                  \* the mnemonics a user can enter
    None,                       \* no wallet, no pin, nothing shown
    PIN_CODE_MAX_RETRY_COUNT,   \* the limit of counted attempts
    ByteMax                     \* the last count before 0 follows again

VARIABLES
    wallet,     \* None or [pin, mnemonic]
    attempts,   \* pins counted since the wallet was created or last opened
    presented,  \* None or the pin waiting to be judged
    open,       \* is the wallet open?
    shown       \* None or the mnemonic the shown xpub belongs to

vars == <<wallet, attempts, presented, open, shown>>

Init ==
    /\ wallet = None
    /\ attempts = 0
    /\ presented = None
    /\ open = FALSE
    /\ shown = None

Create ==
    /\ wallet = None
    /\ \E p \in PinCodes, m \in Mnemonics : wallet' = [pin |-> p, mnemonic |-> m]
    /\ attempts' = 0
    /\ UNCHANGED <<presented, open, shown>>

(* The owner's own decision, taken before the wallet is opened.            *)
Delete ==
    /\ wallet # None
    /\ presented = None
    /\ ~open
    /\ wallet' = None
    /\ attempts' = 0
    /\ UNCHANGED <<presented, open, shown>>

Present ==
    /\ wallet # None
    /\ presented = None
    /\ ~open
    /\ presented' \in PinCodes
    /\ attempts' = (attempts + 1) % (ByteMax + 1)
    /\ UNCHANGED <<wallet, open, shown>>

Accept ==
    /\ wallet # None
    /\ presented = wallet.pin
    /\ presented' = None
    /\ open' = TRUE
    /\ attempts' = 0
    /\ UNCHANGED <<wallet, shown>>

(* The number of the pin just counted; none is the 0th.                    *)
Number == IF attempts = 0 THEN ByteMax + 1 ELSE attempts

Reject ==
    /\ wallet # None
    /\ presented # None
    /\ presented # wallet.pin
    /\ presented' = None
    /\ IF Number >= PIN_CODE_MAX_RETRY_COUNT
       THEN wallet' = None /\ attempts' = 0
       ELSE UNCHANGED <<wallet, attempts>>
    /\ UNCHANGED <<open, shown>>

Show ==
    /\ open
    /\ shown' = wallet.mnemonic
    /\ UNCHANGED <<wallet, attempts, presented, open>>

LosePower ==
    /\ presented' = None
    /\ open' = FALSE
    /\ shown' = None
    /\ UNCHANGED <<wallet, attempts>>

Next == Create \/ Delete \/ Present \/ Accept \/ Reject \/ Show \/ LosePower

Spec == Init /\ [][Next]_vars
=============================================================================
