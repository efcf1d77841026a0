------------------------------- MODULE BigNum -------------------------------
(***************************************************************************)
(* The multi-precision arithmetic of                                       *)
(* src/epmw_firmware/wallet/external_libs/bignum256.c.  A number is a      *)
(* sequence of bytes, the least significant first; bytes and numbers are   *)
(* scaled down.  Every operation is a call of its own on operands chosen   *)
(* at the start.                                                           *)
(***************************************************************************)
EXTENDS Integers, Sequences, Bits

CONSTANTS
    ByteBits,       \* bits of a byte (8)
    Size,           \* bytes of a number (32)
    Modulus,        \* the prime n of the field
    ComplementSize, \* size_complement_n, bytes of complement_n
    Operations,     \* the functions called
    Operands        \* the values they are called with

Radix == Shifted(ByteBits)
(* What a byte counts for: as many times as the bytes below it hold values. *)
Power[i \in 0..(2 * Size)] == IF i = 0 THEN 1 ELSE Radix * Power[i - 1]
Limit == Power[Size]
Complement == Limit - Modulus

(* The warnings at n and bigInvert, and what lets the reduction end: in    *)
(* both of ecdsa.c's tables the top bit of complement_n's last byte is     *)
(* clear.                                                                  *)
FieldFits ==
    /\ ByteBits \in Nat \ {0} /\ Size \in Nat /\ ComplementSize \in 0..(Size - 1)
    /\ Modulus \in 2..(Limit - 1) /\ \A d \in 2..(Modulus - 1) : Modulus % d # 0
    /\ Modulus % Radix >= 2
    /\ 2 * Complement <= Power[ComplementSize]
    /\ Operands \subseteq 0..(Limit - 1)

Bytes(value, size) == [i \in 1..size |-> (value \div Power[i - 1]) % Radix]
(* What the lowest bytes are worth, none of them, one, two...              *)
Parts(a) ==
    LET part[i \in 0..Len(a)] ==
            IF i = 0 THEN 0 ELSE part[i - 1] + a[i] * Power[i - 1]
    IN  part
Value(a) == Parts(a)[Len(a)]
Zeros(size) == <<>> \o [i \in 1..size |-> 0]
Widened(a, size) == <<>> \o [i \in 1..size |-> IF i <= Len(a) THEN a[i] ELSE 0]

n == Bytes(Modulus, Size)
complement_n == Bytes(Complement, ComplementSize)

(* bigCompareVariableSize: the most significant byte that differs decides. *)
Compare(a, b) ==
    IF a = b THEN "EQUAL"
    ELSE LET top == CHOOSE i \in 1..Len(a) :
                        a[i] # b[i] /\ \A j \in (i + 1)..Len(a) : a[j] = b[j]
         IN  IF a[top] > b[top] THEN "GREATER" ELSE "LESS"

(* bigAddVariableSizeNoModulo                                              *)
Add(a, b) ==
    LET carry[i \in 0..Len(a)] ==
            IF i = 0 THEN 0 ELSE (a[i] + b[i] + carry[i - 1]) \div Radix
    IN  [r |-> [i \in 1..Len(a) |-> (a[i] + b[i] + carry[i - 1]) % Radix],
         carry |-> carry[Len(a)]]

(* bigSubtractVariableSizeNoModulo                                         *)
Subtract(a, b) ==
    LET borrow[i \in 0..Len(a)] ==
            IF i = 0 THEN 0 ELSE IF a[i] < b[i] + borrow[i - 1] THEN 1 ELSE 0
    IN  [r |-> [i \in 1..Len(a) |-> (Radix + a[i] - b[i] - borrow[i - 1]) % Radix],
         borrow |-> borrow[Len(a)]]

(* Mutant: the carry out of the high byte is lost.                         *)
MultiplyBytesNoHighCarry(st, a, b, i, j) ==
    LET low == st.r[i + j - 1] + ((a[i] * b[j]) % Radix)
        high == st.r[i + j] + ((a[i] * b[j]) \div Radix) + (low \div Radix)
    IN  [r |-> [st.r EXCEPT ![i + j - 1] = low % Radix, ![i + j] = high % Radix],
         high_carry |-> 0]

(* One turn of the inner loop of bigMultiplyVariableSizeNoModulo.          *)
MultiplyBytes(st, a, b, i, j) ==
    LET product == a[i] * b[j]
        low == st.r[i + j - 1] + (product % Radix)
        high == st.r[i + j] + (product \div Radix) + (low \div Radix) + st.high_carry
    IN  [r |-> [st.r EXCEPT ![i + j - 1] = low % Radix, ![i + j] = high % Radix],
         high_carry |-> high \div Radix]

(* One of the outer: the i-th byte of a by every byte of b, added to sum.  *)
Row(sum, a, b, i) ==
    LET turn[j \in 0..Len(b)] ==
            IF j = 0 THEN [r |-> sum, high_carry |-> 0]
            ELSE MultiplyBytes(turn[j - 1], a, b, i, j)
    IN  turn

(* bigMultiplyVariableSizeNoModulo: every byte of a by every byte of b.    *)
Rows(a, b) ==
    LET sum[i \in 0..Len(a)] ==
            IF i = 0 THEN Zeros(Len(a) + Len(b)) ELSE Row(sum[i - 1], a, b, i)[Len(b)].r
    IN  sum
Multiply(a, b) == Rows(a, b)[Len(a)]

(* The loop of bigMultiply and bigModuloTo256: while bytes above the       *)
(* lowest Size may be set, they are cleared and their multiple of the      *)
(* complement is added, over the remaining bytes.                          *)
Turn(full, size) ==
    LET above == SubSeq(full, Size + 1, size)
        multiple == Widened(Multiply(complement_n, above), size)
    IN  Widened(Add(Widened(SubSeq(full, 1, Size), size), multiple).r, Len(full))
Remains(size) == size - Size + ComplementSize

(* The loop, of which each turn leaves a byte less at least.               *)
NextTurn(st) ==
    IF st.remaining <= Size THEN st
    ELSE [full |-> Turn(st.full, st.remaining), remaining |-> Remains(st.remaining)]
Turns(full) ==
    LET loop[t \in 0..Size] ==
            IF t = 0 THEN [full |-> full, remaining |-> Len(full)] ELSE NextTurn(loop[t - 1])
    IN  loop
Reduce(full) == Turns(full)[Size].full

(* bigModulo: at most one subtraction.                                     *)
Modulo(a) == IF Compare(a, n) = "LESS" THEN a ELSE Subtract(a, n).r

(* bigMultiply, without the bytes it drops at the end; Carried: whether a  *)
(* bit was among them.                                                     *)
Low(full) == SubSeq(full, 1, Size)
MultiplyModulo(a, b) == Modulo(Low(Reduce(Multiply(a, b))))
Carried(a, b) ==
    LET full == Reduce(Multiply(a, b)) IN \E i \in (Size + 1)..(2 * Size) : full[i] # 0

(* bigAdd: reduced if it does not fit or is not below n.                   *)
AddModulo(a, b) ==
    LET sum == Add(a, b)
    IN  IF sum.carry = 1 \/ Compare(sum.r, n) # "LESS" THEN Subtract(sum.r, n).r ELSE sum.r

(* bigSubtract                                                             *)
SubtractModulo(a, b) ==
    LET difference == Subtract(a, b)
    IN  IF difference.borrow = 1 THEN Add(difference.r, n).r ELSE difference.r

-----------------------------------------------------------------------------
VARIABLES
    op,         \* the function called
    op1, op2,   \* its operands, bytes
    pc,         \* "call", "reduce", "ladder" or "done"
    full_r,     \* bigMultiply's double-size product
    remaining,  \* and the bytes of it that may be non-zero
    r, temp,    \* the result, and bigInvert's second product
    bit,        \* bits of n - 2 that bigInvert has still to take
    dropped     \* a bit above Size bytes was dropped at a reduction's end

vars == <<op, op1, op2, pc, full_r, remaining, r, temp, bit, dropped>>

Field == { Bytes(value, Size) : value \in 0..(Modulus - 1) }

Init ==
    /\ op \in Operations
    /\ op1 \in { Bytes(value, Size) : value \in Operands }
    /\ op2 \in { Bytes(value, Size) : value \in Operands }
    /\ op \in {"bigAdd", "bigSubtract", "bigInvert"} => op1 \in Field /\ op2 \in Field
    /\ op = "bigInvert" => op1 = op2 /\ Value(op1) # 0
    /\ pc = "call"
    /\ full_r = Zeros(2 * Size) /\ remaining = 0
    /\ r = Zeros(Size) /\ temp = Zeros(Size) /\ bit = 0 /\ dropped = FALSE

Return(value) == r' = value /\ pc' = "done"

bigAdd ==
    /\ op = "bigAdd" /\ pc = "call" /\ Return(AddModulo(op1, op2))
    /\ UNCHANGED <<op, op1, op2, full_r, remaining, temp, bit, dropped>>

bigSubtract ==
    /\ op = "bigSubtract" /\ pc = "call" /\ Return(SubtractModulo(op1, op2))
    /\ UNCHANGED <<op, op1, op2, full_r, remaining, temp, bit, dropped>>

(* bigMultiply: the product, then a turn of the loop at a time, then the   *)
(* last subtraction on what is left in the lowest bytes.                   *)
bigMultiply ==
    /\ op = "bigMultiply" /\ pc = "call"
    /\ full_r' = Multiply(op1, op2) /\ remaining' = 2 * Size /\ pc' = "reduce"
    /\ UNCHANGED <<op, op1, op2, r, temp, bit, dropped>>

ReduceTurn ==
    /\ pc = "reduce" /\ remaining > Size
    /\ full_r' = Turn(full_r, remaining)
    /\ remaining' = Remains(remaining)
    /\ UNCHANGED <<op, op1, op2, pc, r, temp, bit, dropped>>

ReduceEnd ==
    /\ pc = "reduce" /\ remaining <= Size
    /\ Return(Modulo(Low(full_r)))
    /\ dropped' = (full_r # Widened(Low(full_r), 2 * Size))
    /\ UNCHANGED <<op, op1, op2, full_r, remaining, temp, bit>>

(* bigInvert: a Montgomery ladder over the bits of n - 2, of which the     *)
(* lowest byte alone is decremented.                                       *)
bigInvert ==
    /\ op = "bigInvert" /\ pc = "call"
    /\ r' = Bytes(1, Size) /\ temp' = op1
    /\ bit' = Size * ByteBits /\ pc' = "ladder"
    /\ UNCHANGED <<op, op1, op2, full_r, remaining, dropped>>

NMinus2Bit(k) ==
    LET byte == n[1 + (k \div ByteBits)]
        decremented == IF k < ByteBits THEN byte - 2 ELSE byte
    IN  (decremented \div Shifted(k % ByteBits)) % 2

LadderStep ==
    /\ pc = "ladder" /\ bit > 0
    /\ LET squared == IF NMinus2Bit(bit - 1) = 1 THEN temp ELSE r IN
       /\ r' = IF NMinus2Bit(bit - 1) = 1 THEN MultiplyModulo(r, temp) ELSE MultiplyModulo(r, r)
       /\ temp' = IF NMinus2Bit(bit - 1) = 1 THEN MultiplyModulo(temp, temp)
                                             ELSE MultiplyModulo(r, temp)
       /\ dropped' = (dropped \/ Carried(r, temp) \/ Carried(squared, squared))
    /\ bit' = bit - 1
    /\ UNCHANGED <<op, op1, op2, pc, full_r, remaining>>

LadderEnd ==
    /\ pc = "ladder" /\ bit = 0 /\ pc' = "done"
    /\ UNCHANGED <<op, op1, op2, full_r, remaining, r, temp, bit, dropped>>

Next == \/ bigAdd \/ bigSubtract \/ bigMultiply \/ ReduceTurn \/ ReduceEnd
        \/ bigInvert \/ LadderStep \/ LadderEnd

Spec == Init /\ [][Next]_vars

-----------------------------------------------------------------------------
(* Sums, differences and products are the field's, and below n; a product  *)
(* is smaller by the complement of n when a bit was dropped at the end of  *)
(* the reduction, which up to there never changes the residue              *)
(* (bignum256.c:504-519).  While no bit is dropped, the ladder holds op1   *)
(* to the power of the bits taken and to one more (bignum256.c:545-575),   *)
(* so that it ends with the inverse.                                       *)
ResultIsModular ==
    LET exact == CASE op = "bigAdd" -> Value(op1) + Value(op2)
                   [] op = "bigSubtract" -> Modulus + Value(op1) - Value(op2)
                   [] OTHER -> Value(op1) * Value(op2)
    IN  /\ pc = "reduce" => (Value(full_r) - exact) % Modulus = 0
        /\ pc = "reduce" /\ remaining <= Size => Value(full_r) < 2 * Modulus
        /\ pc = "done" /\ op # "bigInvert" =>
               Value(r) = (exact % Modulus) - (IF dropped THEN Complement ELSE 0)
        /\ op = "bigInvert" /\ ~dropped =>
               /\ pc = "ladder" => Value(temp) = (Value(r) * Value(op1)) % Modulus
               /\ pc = "done" => (Value(r) * Value(op1)) % Modulus = 1

(* "remaining denotes the maximum number of possible non-zero bytes left   *)
(* in the result" (bignum256.c:501), and so, after the loop, "The upper    *)
(* 256 bits of r should now be 0" (bignum256.c:520).                       *)
UpperIsZero ==
    pc = "reduce" => \A i \in (remaining + 1)..(2 * Size) : full_r[i] = 0
=============================================================================
