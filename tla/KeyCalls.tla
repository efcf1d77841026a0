------------------------------ MODULE KeyCalls ------------------------------
(***************************************************************************)
(* The calls of wallet.h (WalletKeys) and the functions they rest on, each *)
(* by itself: numbers (BigNum), points (PointMultiply) and the text of an  *)
(* address (Base58).  fun says what a behaviour calls.                     *)
(***************************************************************************)
EXTENDS WalletKeys

CONSTANTS
    SignHashes, SignRandoms, SignChallenges, SignKeys,  \* of the signing calls
    ByteBits, Modulus, ComplementSize, Operations, Operands,    \* of BigNum
    B, ScalarBits, G, Scalars,                          \* of PointMultiply
    Datas, Sizes                                        \* of Base58

VARIABLES
    fun,            \* "derive", "sign", "number", "point" or "text"
    pc, bit,        \* of whichever is called
    op, op1, op2, full_r, remaining, r, temp, dropped,          \* BigNum
    point, scalar, accumulator, junk, out,                      \* PointMultiply
    data, b58sz, buf, next, digit, high, carry, returned, b58   \* Base58

numbers == <<op, op1, op2, full_r, remaining, r, temp, dropped>>
points == <<point, scalar, accumulator, junk, out>>
texts == <<data, b58sz, buf, next, digit, high, carry, returned, b58>>
allVars == <<fun, vars, pc, bit, numbers, points, texts>>

-----------------------------------------------------------------------------
Sign == INSTANCE WalletKeys WITH
    Hashes <- SignHashes, Randoms <- SignRandoms, Challenges <- SignChallenges,
    Keys <- SignKeys, Children <- {}
Number == INSTANCE BigNum
Curve == INSTANCE PointMultiply WITH p <- point, k <- scalar
Text == INSTANCE Base58 WITH i <- next, j <- digit

ASSUME CallsAssumption ==
    /\ Number!FieldFits /\ Curve!CurveFits /\ Text!DatasFit
    /\ SignHashes \cup SignRandoms \cup SignKeys \subseteq 0..(Limit - 1)
    /\ SignChallenges \subseteq 0..(Power[HashSize] - 1)

-----------------------------------------------------------------------------
NoKeys ==
    /\ field = 0 /\ hmac = <<>> /\ call = "idle" /\ path = <<>> /\ level = 0
    /\ node = NoNode /\ derived = TRUE /\ xpub = Nothing /\ address = Nothing
    /\ key = 0 /\ sk = 0 /\ signed = Unsigned
NoNumber ==
    /\ op = "" /\ op1 = <<>> /\ op2 = <<>> /\ full_r = <<>> /\ remaining = 0
    /\ r = <<>> /\ temp = <<>> /\ dropped = FALSE
NoCurve == point = G /\ scalar = 0 /\ accumulator = G /\ junk = G /\ out = <<>>
NoText ==
    /\ data = <<>> /\ b58sz = 0 /\ buf = <<>> /\ next = 0 /\ digit = 0 /\ high = 0
    /\ carry = 0 /\ returned = FALSE /\ b58 = <<>>

InitAll ==
    \/ fun = "derive" /\ Init /\ NoNumber /\ NoCurve /\ NoText /\ pc = "" /\ bit = 0
    \/ fun = "sign" /\ Sign!Init /\ NoNumber /\ NoCurve /\ NoText /\ pc = "" /\ bit = 0
    \/ fun = "number" /\ Number!Init /\ NoKeys /\ NoCurve /\ NoText
    \/ fun = "point" /\ Curve!Init /\ NoKeys /\ NoNumber /\ NoText
    \/ fun = "text" /\ Text!Init /\ NoKeys /\ NoNumber /\ NoCurve /\ bit = 0

Derive == fun = "derive" /\ Next /\ UNCHANGED <<fun, pc, bit, numbers, points, texts>>
SignNow == fun = "sign" /\ Sign!Next /\ UNCHANGED <<fun, pc, bit, numbers, points, texts>>
Calculate == fun = "number" /\ Number!Next /\ UNCHANGED <<fun, vars, points, texts>>
Multiply == fun = "point" /\ Curve!Next /\ UNCHANGED <<fun, vars, numbers, texts>>
Encode == fun = "text" /\ Text!Next /\ UNCHANGED <<fun, vars, bit, numbers, points>>

NextAll == Derive \/ SignNow \/ Calculate \/ Multiply \/ Encode

SpecAll == InitAll /\ [][NextAll]_allVars

(* BigNum!ResultIsModular, for every call (bignum256.c:356-577).           *)
ResultIsModular == fun = "number" => Number!ResultIsModular

(* PointMultiply!SerialisedIsMultiple (ecdsa.c:296-417).                   *)
SerialisedIsMultiple == fun = "point" => Curve!SerialisedIsMultiple

(* Base58!TextIsEncoding (base58.c:145-189).                               *)
TextIsEncoding == fun = "text" => Text!TextIsEncoding
=============================================================================
