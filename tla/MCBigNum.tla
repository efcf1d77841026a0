------------------------------ MODULE MCBigNum ------------------------------
(* Bytes of two bits, and primes as near a power of four as n is to 2^256. *)
EXTENDS BigNum

Reduced == 0..(Modulus - 1)
=============================================================================
