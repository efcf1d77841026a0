----------------------------- MODULE Bip39Calls -----------------------------
(***************************************************************************)
(* The functions of src/epmw_firmware/wallet/crypto/bip39.c beside each    *)
(* other, one call of one of them a behaviour: the searches (Bip39Search), *)
(* the coding and the checksum (Bip39Coding), and the parser (Bip39Text).  *)
(* They share the names of their locals; fun says whose they are.          *)
(***************************************************************************)
EXTENDS Bip39Search

CONSTANTS
    Codings,        \* of Bip39Coding
    List, MaxText   \* of Bip39Text

VARIABLES
    fun,                        \* "search", "code" or "text"
    at,                         \* where the coding or the parser is
    word_bits, byte_bits, call, data_in, padding, read, acc, loaded_bits,
    data_out, hash, answer,     \* Bip39Coding
    str, words                  \* Bip39Text

Code == INSTANCE Bip39Coding
Text == INSTANCE Bip39Text

ASSUME CodingAssumption == Code!SizesFit

(* The parser counts words in a uint8_t: 256 take 511 characters.          *)
ASSUME TextAssumption == Text!WellFormed(List) /\ MaxText \in 0..510

locals == <<word_bits, byte_bits, call, data_in, padding, read, acc, loaded_bits,
            data_out, hash, answer>>
allVars == <<fun, vars, at, locals, str, words>>

NoSearch == list = List /\ exact = TRUE /\ left = 0 /\ right = 0 /\ pc = "idle"
NoCoding ==
    /\ word_bits = 0 /\ byte_bits = 0 /\ call = "encode" /\ data_in = <<>> /\ padding = FALSE
    /\ read = 0 /\ acc = 0 /\ loaded_bits = 0 /\ data_out = <<>> /\ answer = FALSE
    /\ hash = [of |-> <<>>, is |-> 0]
NoText == str = <<>> /\ words = <<>>

InitAll ==
    \/ fun = "search" /\ Init /\ at = "done" /\ NoCoding /\ NoText
    \/ fun = "code" /\ Code!Init /\ word = <<>> /\ result = 0 /\ NoSearch /\ NoText
    \/ fun = "text" /\ Text!Init /\ NoSearch /\ NoCoding

Search == fun = "search" /\ Next /\ UNCHANGED <<fun, at, locals, str, words>>
Convert == fun = "code" /\ Code!Next /\ UNCHANGED <<fun, vars, str, words>>
Parse == fun = "text" /\ Text!Next
         /\ UNCHANGED <<fun, list, exact, left, right, pc, locals>>

NextAll == Search \/ Convert \/ Parse

SpecAll == InitAll /\ [][NextAll]_allVars /\ WF_allVars(Search /\ Probe)

(* Bip39Coding!SameBits, for every call of the coding (bip39.c:41-93).     *)
SameBits == fun = "code" => Code!SameBits

(* Bip39Coding!ChecksumIsBip39, for every validation (bip39.c:310-332).    *)
ChecksumIsBip39 == fun = "code" => Code!ChecksumIsBip39

(* Bip39Text!ParsesTokens, for every call of the parser (bip39.c:263-305). *)
ParsesTokens == fun = "text" => Text!ParsesTokens
=============================================================================
