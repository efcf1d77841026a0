------------------------------- MODULE Base58 -------------------------------
(***************************************************************************)
(* b58enc of src/epmw_firmware/wallet/external_libs/base58.c, as           *)
(* wallet_address_from_mnemonic calls it: with a buffer of its own and a   *)
(* size that nothing has set.  A digit is its value, not its character.    *)
(***************************************************************************)
EXTENDS Integers, Sequences

CONSTANTS
    Datas,          \* what may be encoded, sequences of bytes
    Sizes           \* what *b58sz may hold

DatasFit == Datas \subseteq Seq(0..255)

VARIABLES
    data, b58sz,    \* the arguments
    buf,            \* the digits, the most significant first
    i, j, high,     \* next byte, digit being written, digits below are final
    carry,
    pc,             \* "byte", "digit" or "done"
    returned, b58   \* the result and what was written, << -1 >> for nothing

vars == <<data, b58sz, buf, i, j, high, carry, pc, returned, b58>>

(* The zeros a sequence begins with.                                       *)
ZeroCount(bytes) ==
    CHOOSE count \in 0..Len(bytes) :
        /\ \A k \in 1..count : bytes[k] = 0
        /\ count < Len(bytes) => bytes[count + 1] # 0

Digits(length) == ((length * 138) \div 100) + 1

Init ==
    /\ data \in Datas /\ b58sz \in Sizes
    /\ buf = [k \in 1..Digits(Len(data) - ZeroCount(data)) |-> 0]
    /\ i = ZeroCount(data) /\ high = Len(buf) - 1 /\ j = high
    /\ carry = 0 /\ pc = "byte" /\ returned = FALSE /\ b58 = <<-1>>

(* The outer loop's head: the byte is added at the lowest digit.           *)
NextByte ==
    /\ pc = "byte" /\ i < Len(data)
    /\ carry' = data[i + 1] /\ j' = Len(buf) - 1 /\ pc' = "digit"
    /\ UNCHANGED <<data, b58sz, buf, i, high, returned, b58>>

\* Mutant: the loop ends with the carry, before the digits already in use.
MoreDigitsByCarry == carry # 0
MoreDigits == j > high \/ carry # 0

(* The inner loop's body; at the topmost digit it breaks off.              *)
Digit ==
    /\ pc = "digit" /\ MoreDigits
    /\ LET sum == carry + 256 * buf[j + 1] IN
       buf' = [buf EXCEPT ![j + 1] = sum % 58] /\ carry' = sum \div 58
    /\ IF j = 0 THEN i' = i + 1 /\ high' = 0 /\ pc' = "byte" /\ UNCHANGED j
                ELSE j' = j - 1 /\ UNCHANGED <<i, high, pc>>
    /\ UNCHANGED <<data, b58sz, returned, b58>>

ByteDone ==
    /\ pc = "digit" /\ ~MoreDigits
    /\ i' = i + 1 /\ high' = j /\ pc' = "byte"
    /\ UNCHANGED <<data, b58sz, buf, j, carry, returned, b58>>

(* Leading zero digits are skipped, and the text is written only if the    *)
(* size that was passed has room for it.                                   *)
Significant == SubSeq(buf, 1 + ZeroCount(buf), Len(buf))
Text == [k \in 1..ZeroCount(data) |-> 0] \o Significant
Write ==
    /\ pc = "byte" /\ i = Len(data) /\ pc' = "done"
    /\ b58sz' = Len(Text) + 1
    /\ returned' = (b58sz > Len(Text))
    /\ b58' = IF b58sz > Len(Text) THEN Text ELSE b58
    /\ UNCHANGED <<data, buf, i, j, high, carry>>

Next == NextByte \/ Digit \/ ByteDone \/ Write

Spec == Init /\ [][Next]_vars

-----------------------------------------------------------------------------
(* What the first digits are worth, none of them, one, two...              *)
Values(digits, base) ==
    LET value[k \in 0..Len(digits)] ==
            IF k = 0 THEN 0 ELSE base * value[k - 1] + digits[k]
    IN  value
Value(digits, base) == Values(digits, base)[Len(digits)]

(* After each byte the digits are worth the bytes taken, so buf is long    *)
(* enough for the last carry to be zero, and stopping at high, the topmost *)
(* digit in use, leaves none unmultiplied (base58.c:155-169).              *)
(* A text that is written is the data's: a one for each leading zero byte, *)
(* then a number without leading zeros; the size returned is its length    *)
(* with the end, also when the size passed was too small and nothing is    *)
(* written (base58.c:171-187).                                             *)
TextIsEncoding ==
    /\ pc = "byte" => carry = 0 /\ Value(buf, 58) = Values(data, 256)[i]
    /\ pc = "done" =>
        /\ returned <=> b58 # <<-1>>
        /\ returned =>
              /\ ZeroCount(b58) = ZeroCount(data)
              /\ Value(b58, 58) = Value(data, 256)
              /\ b58sz = Len(b58) + 1
=============================================================================
