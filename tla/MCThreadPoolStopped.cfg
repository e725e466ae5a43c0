SPECIFICATION Spec
CONSTANTS
    Threads = 2
    Clients = {c1}
    Tasks = {t1, t2, t3}
    Owner = Owner
    Nobody = Nobody
    NoTask = NoTask
PROPERTIES
    NoEnqueueOnStopped
