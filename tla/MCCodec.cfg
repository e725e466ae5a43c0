SPECIFICATION Spec
CONSTANTS
    Given <- MCGiven
    Typed <- MCTyped
    Word = 65536
    Unknown = Unknown
INVARIANTS
    RoundTrips
    DigitsRight
    StaysInside
