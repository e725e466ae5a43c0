SPECIFICATION Spec
CONSTANTS
    o1 = o1
    o2 = o2
    o3 = o3
    b1 = b1
    b2 = b2
    b3 = b3
    b4 = b4
    Obj = {o1, o2}
    Block = {b1, b2, b3}
    Null = Null
    Byte = {0, 1, 2}
    Unset = Unset
    Stops = {0}
    Texts <- MCTexts
    Sizes = {0, 1, 4}
    Unit = 4
    IntMod = 8
    MaxCalls = 5
SYMMETRY Addresses
INVARIANTS
    TypeOK
    MemorySafe
    OneOwner
    FieldsTrue
    ComparisonsAgree
PROPERTIES
    ImplementsString
