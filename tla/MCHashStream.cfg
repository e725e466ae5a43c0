\* All three classes, two texts in pieces of any length, digests at any time.
SPECIFICATION Spec
CONSTANTS
    BlockSize = 6
    SizeBytes = 2
    LenMod = 32
    CountMod = 16
    MaxAbsorbed = 15
    Texts <- MCTexts
    Algorithms = {"SHA256", "MD5", "SHA1"}
INVARIANTS NothingLost CountRight PadsRight
