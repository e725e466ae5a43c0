SPECIFICATION FairSpec
CONSTANTS
    s1 = s1
    s2 = s2
    s3 = s3
    r1 = r1
    r2 = r2
    ByteBase = 2
    Packages <- MCPackages
    Window = 5
    MaxSends = 2
    Client = Client
    Server = Server
    Senders = {s1, s2}
    Receivers = {r2}
    At <- MCAt
    Nobody = Nobody
    Asserts = TRUE
INVARIANTS
    SendsWholeFrames
    OnlyEmptyAborts
PROPERTIES
    ImplementsLink
    ReceiverReturns
