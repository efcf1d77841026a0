--------------------------- MODULE PointMultiply ---------------------------
(***************************************************************************)
(* Scalar multiplication on secp256k1                                      *)
(* (src/epmw_firmware/wallet/external_libs/ecdsa.c): doubling and adding   *)
(* from the top bit down, in mixed coordinates, with dummy additions for   *)
(* the bits that are zero, then the way back to affine coordinates and the *)
(* serialisation.  Field elements are numbers; BigNum has their bytes.     *)
(***************************************************************************)
EXTENDS Integers, Sequences, Bits

CONSTANTS
    P, B,           \* the field's prime and the curve y^2 = x^3 + B
    N,              \* the order of the base point
    ScalarBits,     \* bits of a scalar (256)
    G,              \* the base point, which setToG gives
    Scalars         \* what it is multiplied by

Mul(a, b) == (a * b) % P
Plus(a, b) == (a + b) % P
Minus(a, b) == (a - b) % P
\* bigInvert takes zero to zero
Invert == [a \in 0..(P - 1) |-> IF a = 0 THEN 0 ELSE CHOOSE i \in 1..(P - 1) : Mul(a, i) = 1]

AffineInfinity == [x |-> 0, y |-> 0, infinity |-> TRUE]
JacobianZero == [x |-> 0, y |-> 0, z |-> 0, infinity |-> FALSE]

affineToJacobian(in) == [x |-> in.x, y |-> in.y, z |-> 1, infinity |-> in.infinity]

jacobianToAffine(in) ==
    LET s == Invert[Mul(in.z, in.z)]
        t == Invert[Mul(Mul(in.z, in.z), in.z)]
    IN  [x |-> Mul(in.x, s), y |-> Mul(in.y, t), infinity |-> in.infinity]

pointDouble(p) ==
    LET y2 == Mul(p.y, p.y)
        t == Mul(4, Mul(y2, p.x))
        u == Mul(3, Mul(p.x, p.x))
        x == Minus(Minus(Mul(u, u), t), t)
    IN  [x |-> x, y |-> Minus(Mul(Minus(t, x), u), Mul(8, Mul(y2, y2))),
         z |-> Mul(2, Mul(p.z, p.y)), infinity |-> p.infinity \/ p.y = 0]

(* The part of pointAdd after the choice of the area it writes to.         *)
Scaled(p1, p2) == [s |-> Mul(Mul(p1.z, p1.z), p2.x),
                   t |-> Mul(Mul(Mul(p1.z, p1.z), p1.z), p2.y)]
Same(p1, p2) == p1.x = Scaled(p1, p2).s /\ p1.y = Scaled(p1, p2).t

AddInto(p1, p2) ==
    LET scaled == Scaled(p1, p2)
        s == Minus(scaled.s, p1.x)
        t == Minus(scaled.t, p1.y)
        v == Mul(s, s)
        u == Mul(v, p1.x)
        s3 == Mul(s, v)
        x == Minus(Minus(Minus(Mul(t, t), s3), u), u)
    IN  [x |-> x, y |-> Minus(Mul(Minus(u, x), t), Mul(s3, p1.y)), z |-> Mul(p1.z, s),
         infinity |-> p1.infinity \/ (p1.x = scaled.s /\ p1.y # scaled.t)]

(* pointAdd: if p1 is O, p2 is copied into it, else into junk; if either   *)
(* is O, everything else is written to junk.                               *)
pointAdd(p1, junk, p2) ==
    LET dummy == p1.infinity \/ p2.infinity
        copied == IF p1.infinity THEN [p1 |-> affineToJacobian(p2), junk |-> junk]
                                 ELSE [p1 |-> p1, junk |-> affineToJacobian(p2)]
        work == IF dummy THEN copied.junk ELSE copied.p1
        doubled == ~dummy /\ Same(work, p2)
        sum == IF doubled THEN pointDouble(work) ELSE AddInto(work, p2)
    IN  [p1 |-> IF dummy THEN copied.p1 ELSE sum,
         junk |-> IF dummy THEN sum ELSE copied.junk]

(* Mutant: y's lowest bit is not kept.                                     *)
ecdsaSerialiseXOnly(point, do_compress) ==
    IF point.infinity THEN <<0>>
    ELSE IF do_compress THEN <<2, point.x>> ELSE <<4, point.x, point.y>>

(* ecdsaSerialise: infinity is one byte; y is cut to its lowest bit.       *)
ecdsaSerialise(point, do_compress) ==
    IF point.infinity THEN <<0>>
    ELSE IF do_compress THEN <<2 + (point.y % 2), point.x>>
    ELSE <<4, point.x, point.y>>

-----------------------------------------------------------------------------
VARIABLES
    p, k,           \* the arguments: p is overwritten with the result
    accumulator, junk,
    bit,            \* bits of k still to take
    pc,             \* "call", "double", "add", "return" or "serialised"
    out             \* what ecdsaSerialise wrote

vars == <<p, k, accumulator, junk, bit, pc, out>>

Init ==
    /\ p = G /\ k \in Scalars /\ bit = ScalarBits /\ pc = "double"
    /\ accumulator = [JacobianZero EXCEPT !.infinity = TRUE] /\ junk = JacobianZero
    /\ out = <<>>

Double ==
    /\ pc = "double" /\ bit > 0
    /\ accumulator' = pointDouble(accumulator) /\ pc' = "add"
    /\ UNCHANGED <<p, k, junk, bit, out>>

AddBit ==
    /\ pc = "add"
    /\ LET one_bit == (k \div Shifted(bit - 1)) % 2
           sum == pointAdd(accumulator, junk, IF one_bit = 1 THEN p ELSE AffineInfinity)
       IN  accumulator' = sum.p1 /\ junk' = sum.junk
    /\ bit' = bit - 1 /\ pc' = "double"
    /\ UNCHANGED <<p, k, out>>

Return ==
    /\ pc = "double" /\ bit = 0
    /\ p' = jacobianToAffine(accumulator) /\ pc' = "return"
    /\ UNCHANGED <<k, accumulator, junk, bit, out>>

Serialise(do_compress) ==
    /\ pc = "return"
    /\ out' = ecdsaSerialise(p, do_compress) /\ pc' = "serialised"
    /\ UNCHANGED <<p, k, accumulator, junk, bit>>

Next == Double \/ AddBit \/ Return \/ \E do_compress \in BOOLEAN : Serialise(do_compress)

Spec == Init /\ [][Next]_vars

-----------------------------------------------------------------------------
(* The group law, as textbooks state it.                                   *)
Slope(a, b) == IF a = b THEN Mul(Mul(3, Mul(a.x, a.x)), Invert[Mul(2, a.y)])
               ELSE Mul(Minus(b.y, a.y), Invert[Minus(b.x, a.x)])
GroupSum(a, b) ==
    IF a.infinity THEN b ELSE IF b.infinity THEN a
    ELSE IF a.x = b.x /\ Plus(a.y, b.y) = 0 THEN AffineInfinity
    ELSE LET slope == Slope(a, b)
             x == Minus(Minus(Mul(slope, slope), a.x), b.x)
         IN  [x |-> x, y |-> Minus(Mul(slope, Minus(a.x, x)), a.y), infinity |-> FALSE]

(* The base added to itself, none of it, once, twice...                    *)
Multiple ==
    LET times[m \in 0..(Shifted(ScalarBits) - 1)] ==
            IF m = 0 THEN AffineInfinity ELSE GroupSum(times[m - 1], G)
    IN  times

(* The field and the curve are ones, the base lies on the curve, and the   *)
(* law is associative where that is used: as many multiples added to       *)
(* themselves are twice as many.                                           *)
CurveFits ==
    /\ P > 3 /\ \A d \in 2..(P - 1) : P % d # 0
    /\ N < P /\ B \in Nat
    /\ ScalarBits \in Nat /\ Shifted(ScalarBits) > P
    /\ Scalars \subseteq 0..(Shifted(ScalarBits) - 1)
    /\ G \in [x : 0..(P - 1), y : 0..(P - 1), infinity : {FALSE}]
    /\ (G.y * G.y - G.x * G.x * G.x - B) % P = 0
    /\ \A m \in 0..((Shifted(ScalarBits) - 1) \div 2) :
           GroupSum(Multiple[m], Multiple[m]) = Multiple[2 * m]
SamePoint(a, b) == a.infinity = b.infinity /\ (~a.infinity => a = b)

(* After every turn of the loop (ecdsa.c:325-335) the accumulator is the   *)
(* base times the bits taken, whatever the scalar, the order of the base   *)
(* or multiples of it included: a dummy addition leaves it alone, and the  *)
(* cases O, equal points and opposite points are told apart.  What is      *)
(* serialised gives back the multiple, compressed or not: the parity picks *)
(* one of the two points with that x (ecdsa.c:381-417).                    *)
SerialisedIsMultiple ==
    /\ pc = "double" => SamePoint(jacobianToAffine(accumulator), Multiple[k \div Shifted(bit)])
    /\ pc = "serialised" =>
        IF out = <<0>> THEN Multiple[k].infinity
        ELSE \A y \in 0..(P - 1) :
                 /\ Mul(y, y) = Plus(Mul(out[2], Mul(out[2], out[2])), B)
                 /\ IF out[1] = 4 THEN y = out[3] ELSE out[1] = 2 + (y % 2)
                 => Multiple[k] = [x |-> out[2], y |-> y, infinity |-> FALSE]
=============================================================================
