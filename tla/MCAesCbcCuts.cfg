\* CBC, one short text cut anywhere.
SPECIFICATION Spec
CONSTANTS
    BlockSize = 2
    IvSize = 1
    ByteBase = 8
    MaxEnds = 2
    RandomBytes = {0, 6}
    Encrypt <- MCEncrypt
    XorByte <- MCXor
    InitialIV <- MCInitialIV
    OtherIV <- MCOtherIV
    Texts <- MCCbcTexts
    Modes = {"CBC"}
    Paddings = {"PKCS7"}
INVARIANT CbcAnyCut
