SPECIFICATION FairSpec
CONSTANTS
    Threads = 2
    Clients = {c1, c2}
    Tasks = {t1, t2, t3}
    Owner = Owner
    Nobody = Nobody
    NoTask = NoTask
INVARIANTS
    TypeOK
    NoLostWakeup
    StopIsHeard
    OnePlace
    Drained
PROPERTIES
    ImplementsService
    AcceptedTaskRuns
    DestructorReturns
