SPECIFICATION FairSpec
CONSTANTS
    s1 = s1
    s2 = s2
    s3 = s3
    r1 = r1
    r2 = r2
    ByteBase = 2
    Packages <- MCFew
    Window = 3
    MaxSends = 1
    Client = Client
    Server = Server
    Senders = {s1, s3}
    Receivers = {r1, r2}
    At <- MCAt
    Nobody = Nobody
    Asserts = FALSE
PROPERTIES
    BegunPackageArrives
