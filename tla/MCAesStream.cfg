\* Every mode and padding type, a text of four bytes, two messages.
SPECIFICATION Spec
CONSTANTS
    BlockSize = 2
    IvSize = 1
    ByteBase = 8
    MaxEnds = 2
    RandomBytes = {0, 6}
    Encrypt <- MCEncrypt
    XorByte <- MCXor
    InitialIV <- MCInitialIV
    OtherIV <- MCOtherIV
    Texts <- MCTexts
    Modes = {"ECB", "CBC", "CTR", "GCM"}
    Paddings = {"PKCS7", "ISO10126", "Zeros", "None"}
INVARIANTS KeepsItsState  
