---------------------------- MODULE Bip39Coding ----------------------------
(***************************************************************************)
(* Bytes to words of a mnemonic, words to bytes, and the checksum: the     *)
(* functions bip39_base2048_encode, bip39_base2048_decode and              *)
(* bip39_validate_checksum of src/epmw_firmware/wallet/crypto/bip39.c.     *)
(* Both directions are one loop that shifts the bits of its input, one at  *)
(* a time, into items of the other size.                                   *)
(***************************************************************************)
EXTENDS Integers, Sequences, Bits

(* What is called: the bits of a word and of a byte, 11 and 8, and what is *)
(* encoded, and what is decoded or validated.  Items of fewer bits let all *)
(* short inputs be checked.                                                *)
CONSTANT Codings

(* What a caller of these functions has to keep to: sizes that fit the     *)
(* uint8_t they are counted in, and mnemonics with a checksum of at most a *)
(* byte.  Three words are four bytes and one bit.                          *)
SizesFit ==
    \A c \in Codings :
        /\ c.word_bits \in Nat \ {0} /\ c.byte_bits \in Nat \ {0}
        /\ 3 * c.word_bits = 4 * c.byte_bits + 1
        /\ c.bytes \subseteq Seq(Nat) /\ c.words \subseteq Seq(Nat)
        /\ \A s \in c.bytes : Len(s) * c.byte_bits < 255 * c.word_bits
        /\ \A s \in c.words : /\ Len(s) * c.word_bits < 255 * c.byte_bits
                              /\ Len(s) <= 3 * c.byte_bits

VARIABLES
    word_bits, byte_bits,
    call,           \* "encode", "decode" or "validate"
    data_in, padding, \* the arguments, include_padding or extract_padding
    read,           \* bits of data_in shifted so far
    acc, loaded_bits, data_out, \* word or byte, and the locals of their name
    at,             \* "load", "check" (the checksum is next) or "done"
    hash,           \* history: the bytes hashed and the first of the SHA-256
    answer          \* of bip39_validate_checksum

args == <<word_bits, byte_bits, call, data_in, padding>>
out == <<acc, loaded_bits, data_out>>
vars == <<args, read, out, at, hash, answer>>

From == IF call = "encode" THEN byte_bits ELSE word_bits
To == IF call = "encode" THEN word_bits ELSE byte_bits

(* bip39_required_memory_size_encoding and _decoding: as many items as are *)
(* full, one more if there is a rest and it is asked for; a uint8_t.       *)
Required(n, pad) ==
    (((n * From) \div To) + (IF ((n * From) % To) # 0 /\ pad THEN 1 ELSE 0)) % 256

(* The counts of words bip39_validate_checksum goes on with.               *)
CountOk(n) == n >= 3 /\ n <= 24 /\ n % 3 = 0

Init ==
    /\ \E c \in Codings :
        /\ word_bits = c.word_bits /\ byte_bits = c.byte_bits
        /\ \/ call = "encode" /\ data_in \in c.bytes /\ padding \in BOOLEAN
           \/ call = "decode" /\ data_in \in c.words /\ padding \in BOOLEAN
           \/ call = "validate" /\ data_in \in c.words /\ padding = TRUE
    /\ read = 0 /\ acc = 0 /\ loaded_bits = 0 /\ data_out = <<>> /\ answer = FALSE
    /\ hash = [of |-> <<>>, is |-> 0]
    /\ at = IF call = "validate" /\ ~CountOk(Len(data_in)) THEN "done" ELSE "load"

(* Bit k of an item, the highest is bit 1.                                 *)
Bit(item, size, k) == (item \div Shifted(size - k)) % 2
BitAt(s, size, k) == Bit(s[1 + ((k - 1) \div size)], size, 1 + ((k - 1) % size))

Full(bits) == bits = To

(* One turn of the inner loop.                                             *)
LoadBit ==
    /\ at = "load" /\ read < From * Len(data_in)
    /\ read' = read + 1
    /\ LET more == 2 * acc + BitAt(data_in, From, read + 1)
       IN  IF Full(loaded_bits + 1)
           THEN /\ data_out' = Append(data_out, more)
                /\ acc' = 0 /\ loaded_bits' = 0
           ELSE /\ acc' = more /\ loaded_bits' = loaded_bits + 1
                /\ UNCHANGED data_out
    /\ UNCHANGED <<args, at, hash, answer>>

(* Mutant: the rest stays at the low end.                                  *)
RestAtLowEnd(value, bits) == value

(* A rest is moved to the high end of an item of its own.                  *)
Rest(value, bits) == value * Shifted(To - bits)

(* Behind the loops.                                                       *)
Finish ==
    /\ at = "load" /\ read = From * Len(data_in)
    /\ data_out' = IF padding /\ loaded_bits > 0
                   THEN Append(data_out, Rest(acc, loaded_bits)) ELSE data_out
    /\ at' = IF call = "validate" THEN "check" ELSE "done"
    /\ UNCHANGED <<args, read, acc, loaded_bits, hash, answer>>

(* Mutant: as if a checksum had one bit less.                              *)
MaskedOneLess(byte, n) == byte - (byte % Shifted(byte_bits + 1 - (n \div 3)))

(* The first n/3 bits of a byte: hash[0] & (0x100 - (1 << (8 - n/3))).     *)
Masked(byte, n) == byte - (byte % Shifted(byte_bits - (n \div 3)))

(* The hash of all bytes but the last may begin with any byte.             *)
CheckSum ==
    /\ at = "check"
    /\ \E first \in 0..(Shifted(byte_bits) - 1) :
        LET n == Len(data_in)
            last == Required(n, TRUE)
        IN  /\ hash' = [of |-> SubSeq(data_out, 1, last - 1), is |-> first]
            /\ answer' = (data_out[last] = Masked(first, n))
    /\ at' = "done"
    /\ UNCHANGED <<args, read, out>>

Next == LoadBit \/ Finish \/ CheckSum

Spec == Init /\ [][Next]_vars

-----------------------------------------------------------------------------
(* Properties                                                              *)

BitsOf(s, size) == [k \in 1..(size * Len(s)) |-> BitAt(s, size, k)]

(* The loops neither lose, twist nor invent a bit: at any time the items   *)
(* written and the one in the making are the bits read so far; in the end  *)
(* the items are the bits of the input, filled up with zeros if a rest is  *)
(* kept and without the rest otherwise.  They fill what the caller         *)
(* reserved, as bip39_required_memory_size_... asks for, and never more.   *)
SameBits ==
    LET ins == BitsOf(data_in, From)
        outs == BitsOf(data_out, To)
        reserved == Required(Len(data_in), padding)
    IN  /\ at = "load" => outs \o BitsOf(<<acc>>, loaded_bits) = SubSeq(ins, 1, read)
        /\ at # "load" /\ read > 0 =>
              /\ \A k \in 1..Len(outs) : outs[k] = IF k <= Len(ins) THEN ins[k] ELSE 0
              /\ Len(outs) = To * reserved
              /\ IF padding THEN Len(outs) >= Len(ins) ELSE Len(outs) <= Len(ins)
        /\ Len(data_out) <= reserved

(* The number that some bits are.                                          *)
Number(bits) ==
    LET value[k \in 0..Len(bits)] == IF k = 0 THEN 0 ELSE 2 * value[k - 1] + bits[k]
    IN  value[Len(bits)]

(* BIP-39: of every 33 bits of a mnemonic the last n/3 of all are the      *)
(* first bits of the hash of the others, which are whole bytes.  A         *)
(* mnemonic of 3, 6, .. or 24 words is accepted if and only if they are;   *)
(* others never.                                                           *)
ChecksumIsBip39 ==
    call = "validate" /\ at = "done" =>
        LET n == Len(data_in)
            bits == BitsOf(data_in, word_bits)
            entropy == Len(bits) - (n \div 3)
            byte(i) == SubSeq(bits, byte_bits * (i - 1) + 1, byte_bits * i)
        IN  IF n \in {3, 6, 9, 12, 15, 18, 21, 24}
            THEN /\ hash.of = [i \in 1..(entropy \div byte_bits) |-> Number(byte(i))]
                 /\ answer <=> \A k \in 1..(n \div 3) :
                                  bits[entropy + k] = Bit(hash.is, byte_bits, k)
            ELSE ~answer
=============================================================================
