------------------------------- MODULE MCKeys -------------------------------
(***************************************************************************)
(* KeyCalls with numbers of four bytes of two bits, on a curve of prime    *)
(* order 223 below its field's prime 229, as secp256k1's is.               *)
(***************************************************************************)
EXTENDS KeyCalls

\* 1; 139, which makes the key zero after the master's 84; and N itself
MCHashes == {Swap(1), Swap(139), Swap(223)}
OneMaster == {Swap(84)}
MCG == [x |-> 2, y |-> 48, infinity |-> FALSE]
AllNumbers == 0..(Limit - 1)
\* the edges of a byte, of the complement, of n, and some between
SomeNumbers == 0..3 \cup {15, 16, 17, 63, 64, 65, 128} \cup 248..255
               \cup {(37 * v) % 251 : v \in 1..4}
MCSignHashes == {Swap(1)}
MCRandoms == {0, Swap(1), Swap(223), Swap(226), Swap(255), 228, 224, 100}
MCKeyValues == {Swap(3), Swap(222), 84}
MCDatas == UNION { [1..length -> {0, 1, 57, 58, 255}] : length \in 0..3 }
=============================================================================
