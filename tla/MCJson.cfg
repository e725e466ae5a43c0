\* Every short text and edited longer ones, and two more calls of any kind.
SPECIFICATION Spec
CONSTANTS
    MaxCalls = 3
    MaxIndex = 1
    Texts <- MCTexts
    Again <- MCAgain
    Keys <- MCKeys
    Written <- MCWritten
INVARIANTS TreeWellFormed ParsesMeaning FailureKeeps WritesMeaning
