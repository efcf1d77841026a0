SPECIFICATION SpecAll
CONSTANTS
    P = 229
    N = 223
    Base = 4
    Size = 4
    HashSize = 3
    MasterKeys <- OneMaster
    Hashes <- MCHashes
    Randoms = {27}
    Challenges = {57}
    Keys = {84}
    Children = {0}
    ByteBits = 2
    Modulus = 251
    ComplementSize = 2
    Operations = {"bigAdd", "bigSubtract", "bigMultiply", "bigInvert"}
    Operands <- SomeNumbers
    B = 6
    ScalarBits = 8
    G <- MCG
    Scalars <- AllNumbers
    Datas <- MCDatas
    Sizes = {0, 3, 53}
    SignHashes <- MCSignHashes
    SignRandoms <- MCRandoms
    SignChallenges = {0, 1, 16, 57, 63}
    SignKeys <- MCKeyValues
INVARIANTS
    AddressMatchesXpub
    SignatureVerifies
    ResultIsModular
    SerialisedIsMultiple
    TextIsEncoding
CHECK_DEADLOCK FALSE
