----------------------------- MODULE WalletKeys -----------------------------
(***************************************************************************)
(* The calls of src/epmw_firmware/wallet/wallet.h: an extended public key  *)
(* and an address from a mnemonic, and a Schnorr signature, with the       *)
(* derivation of wallet/external_libs/bip32.c.  They share bignum256.c's   *)
(* field and may come in any order.  A point is its multiple of the base   *)
(* point (PointMultiply); numbers are their value in memory order, the     *)
(* lowest byte first (BigNum); the hashes are oracles.                     *)
(***************************************************************************)
EXTENDS Integers, FiniteSets, Sequences, Functions

CONSTANTS
    P, N,           \* the field's prime and the order of the base point
    Base, Size,     \* values of a byte (256) and bytes of a number (32)
    HashSize,       \* bytes kept of a challenge (24)
    MasterKeys,     \* first halves of the master nodes of the mnemonics used
    Hashes,         \* first halves of what hmacSha512 may return
    Randoms,        \* the random bytes a caller may pass
    Challenges,     \* what blake2b may return, cut to HashSize bytes
    Keys,           \* signing keys a caller may pass, as it stores them
    Children        \* indices of addresses

(* The numbers that 0, 1, 2... bytes hold, and one past the largest.        *)
Power[i \in 0..Size] == IF i = 0 THEN 1 ELSE Base * Power[i - 1]
Limit == Power[Size]

ASSUME KeysAssumption ==
    /\ {P, N, Base, Size, HashSize} \subseteq Nat /\ Base > 1 /\ HashSize < Size
    /\ N < P /\ P < Limit /\ 2 * N > Limit
    /\ MasterKeys \cup Hashes \cup Randoms \cup Keys \subseteq 0..(Limit - 1)
    /\ Challenges \subseteq 0..(Power[HashSize] - 1)

(* swapEndian256 and swapEndianUniversal: what is left of the number after *)
(* its i lowest bytes, and those bytes the other way round.                *)
Rests(value, size) ==
    LET rest[i \in 0..size] == IF i = 0 THEN value ELSE rest[i - 1] \div Base
    IN  rest
Turning(value, size) ==
    LET turned[i \in 0..size] ==
            IF i = 0 THEN 0 ELSE Base * turned[i - 1] + (Rests(value, size)[i - 1] % Base)
    IN  turned
Swapped(value, size) == Turning(value, size)[size]
Swap(value) == Swapped(value, Size)

NoPoint == -1
(* pointMultiply of the base point; its infinity serialises to one byte.   *)
Point(k) == IF k % N = 0 THEN NoPoint ELSE k % N

(* bigModulo, bigAdd and bigMultiply in the field m.                       *)
bigModulo(a, m) == IF a < m THEN a ELSE a - m
bigAdd(a, b, m) == IF a + b < m THEN a + b ELSE (a + b - m) % Limit
bigMultiply(a, b, m) == (a * b) % m

(* The child index of the path each caller builds: 44', 429', 0', 0 and,   *)
(* for an address, its own.                                                *)
Path == <<44, 429, 0, 0>>
Hardened(level) == level < 3

VARIABLES
    field,      \* n: 0 until bigSetField is first called, then P or N
    hmac,       \* what hmacSha512 returned for what it was given
    call,       \* "idle", or the call that derives
    path, level,    \* its path and the steps taken
    node,       \* current_node: key (in memory order) and chain code
    derived,    \* the derivation did not fail
    xpub, address,  \* what the last calls gave, without their encoding
    key,        \* the signing key as the caller stored it
    sk,         \* and what its buffer holds now
    signed      \* the last signature and what was hashed for it

vars == <<field, hmac, call, path, level, node, derived, xpub, address, key, sk, signed>>

Nothing == [master |-> NoPoint, chain |-> NoPoint, pub |-> NoPoint, child |-> NoPoint, derived |-> FALSE]
NoNode == [master |-> 0, key |-> 0, chain |-> 0]
Unsigned == [c |-> 0, z |-> 0, w |-> NoPoint, pk |-> NoPoint]

Init ==
    /\ field = 0 /\ hmac = <<>> /\ call = "idle" /\ path = <<>> /\ level = 0
    /\ node = NoNode /\ derived = TRUE
    /\ xpub = Nothing /\ address = Nothing
    /\ key \in Keys /\ sk = key /\ signed = Unsigned

(* The call's first half: pbkdf2_hmac_sha512 and bip32SeedToNode give the  *)
(* mnemonic's master node.                                                 *)
Begin(name, steps, master) ==
    /\ call = "idle" /\ call' = name /\ path' = steps /\ level' = 0 /\ derived' = TRUE
    /\ node' = [master |-> master, key |-> master, chain |-> -master]
    /\ UNCHANGED <<field, hmac, xpub, address, key, sk, signed>>

(* A failure returns at once and leaves out and chain_code uninitialised.  *)
Fail(newField) ==
    /\ derived' = FALSE /\ level' = Len(path) /\ field' = newField
    /\ \E garbage \in Hashes : node' = [node EXCEPT !.key = garbage, !.chain = NoPoint]

(* The field the sum is taken in: setFieldToN comes before it.             *)
\* Mutant: the sum is taken in the field the last call left.
SumFieldLeft == IF Hardened(level) THEN field ELSE P
SumField == N

(* hmac_data and its key, the parent's chain code: the private key for a   *)
(* hardened step, else its point.                                          *)
HmacInput(parent, steps, index) ==
    <<parent.chain, Hardened(steps),
      IF Hardened(steps) THEN parent.key ELSE Point(Swap(parent.key)), index>>
(* A step down the path in bip32DerivePrivate and in its twin with the     *)
(* chain code: hmacSha512, then the sum of its left half and the key.      *)
DeriveStep ==
    LET hardened == Hardened(level)
        k == Swap(node.key)
        data == HmacInput(node, level, path[level + 1])
        fieldNow == IF hardened THEN field ELSE P
    IN
    /\ call # "idle" /\ level < Len(path)
    /\ \/ /\ ~hardened /\ Point(k) = NoPoint
          /\ Fail(P) /\ UNCHANGED hmac
       \/ /\ hardened \/ Point(k) # NoPoint
          /\ IF data \in DOMAIN hmac THEN UNCHANGED hmac
             ELSE \E hash \in Hashes :
                     hmac' = [q \in DOMAIN hmac \cup {data} |->
                                 IF q = data
                                 THEN [key |-> hash, chain |-> 1 + Cardinality(DOMAIN hmac)]
                                 ELSE hmac[q]]
          /\ LET left == Swap(hmac'[data].key)
                 sum == bigAdd(left, k, SumField)
             IN  \/ left >= N /\ Fail(fieldNow)
                 \/ left < N /\ sum = 0 /\ Fail(N)
                 \/ /\ left < N /\ sum # 0
                    /\ node' = [node EXCEPT !.key = Swap(sum), !.chain = hmac'[data].chain]
                    /\ level' = level + 1 /\ field' = N /\ UNCHANGED derived
    /\ UNCHANGED <<call, path, xpub, address, key, sk, signed>>

(* The call's last part, which does not ask whether the derivation failed: *)
(* the point of the key it has.  Both return 1.                            *)
Finish ==
    /\ call # "idle" /\ level = Len(path)
    /\ LET result == [master |-> node.master, chain |-> node.chain,
                      pub |-> Point(Swap(node.key)), child |-> path[level], derived |-> derived]
       IN  IF call = "xpub" THEN xpub' = [result EXCEPT !.child = NoPoint] /\ UNCHANGED address
                            ELSE address' = result /\ UNCHANGED xpub
    /\ field' = P /\ call' = "idle" /\ path' = <<>> /\ level' = 0
    /\ node' = NoNode /\ derived' = TRUE
    /\ UNCHANGED <<hmac, key, sk, signed>>

wallet_xpub_from_mnemonic(master) == Begin("xpub", Path, master)
wallet_address_from_mnemonic(master, child) == Begin("address", Append(Path, child), master)

(* wallet_ergo_schnorr_sign.  Before any call has set the field, bigModulo *)
(* reads n through a null pointer and subtracts what it finds, or nothing. *)
Nonce(random) == IF field = 0 THEN 0..random ELSE {bigModulo(random, field)}

\* Mutant: the challenge is multiplied as the hash wrote it.
ChallengeNumberUnswapped(c_hash) == c_hash
ChallengeNumber(c_hash) == Swapped(c_hash, HashSize)

wallet_ergo_schnorr_sign(random, c_hash) ==
    /\ call = "idle"
    /\ \E nonce \in Nonce(random) :
          LET y == Swap(nonce)
              turned == Swap(sk)
              z == bigAdd(bigMultiply(turned, ChallengeNumber(c_hash), N), y, N)
          IN  \/ /\ y = 0
                 /\ signed' = Unsigned /\ UNCHANGED <<field, sk>>
              \/ /\ y # 0 /\ c_hash = 0
                 /\ signed' = Unsigned /\ sk' = turned /\ field' = P
              \/ /\ y # 0 /\ c_hash # 0
                 /\ signed' = [c |-> c_hash, z |-> Swap(z), w |-> Point(y),
                               pk |-> Point(turned)]
                 /\ sk' = turned /\ field' = N
    /\ UNCHANGED <<hmac, call, path, level, node, derived, xpub, address, key>>

(* The caller stores a key in its buffer.                                  *)
StoreKey(k) ==
    /\ call = "idle" /\ key' = k /\ sk' = k /\ signed' = Unsigned
    /\ UNCHANGED <<field, hmac, call, path, level, node, derived, xpub, address>>

Next ==
    \/ \E master \in MasterKeys : wallet_xpub_from_mnemonic(master)
    \/ \E master \in MasterKeys, child \in Children : wallet_address_from_mnemonic(master, child)
    \/ DeriveStep \/ Finish
    \/ \E random \in Randoms, c_hash \in Challenges : wallet_ergo_schnorr_sign(random, c_hash)
    \/ \E k \in Keys : StoreKey(k)

Spec == Init /\ [][Next]_vars

-----------------------------------------------------------------------------
(* Whatever was called before, the key of an address is the one that a     *)
(* holder of the extended public key alone derives for that child          *)
(* (wallet.c:25-72, 74-92; bip32.c:52-181), unless a derivation failed.    *)
AddressMatchesXpub ==
    /\ xpub.derived /\ address.derived /\ xpub.master = address.master
    /\ xpub.pub # NoPoint /\ address.pub # NoPoint
    => LET data == <<xpub.chain, FALSE, xpub.pub, address.child>>
       IN  /\ data \in DOMAIN hmac
           /\ address.pub = (Swap(hmac[data].key) + xpub.pub) % N

(* In whatever field the call found bignum256.c and whatever its nonce, a  *)
(* signature verifies under the key that the buffer holds after it:        *)
(* z G - c pk is the point that was hashed (wallet.c:128-208).             *)
SignatureVerifies ==
    signed.c # 0 /\ signed.w # NoPoint /\ Point(sk) # NoPoint =>
        /\ signed.pk = Point(sk)
        /\ (Swap(signed.z) - Swapped(signed.c, HashSize) * Point(sk)) % N = signed.w
=============================================================================
