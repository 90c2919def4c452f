SPECIFICATION Spec
CONSTANTS
    Threads = {t1, t2, t3}
    Proxies = {p1, p2}
    QueueEvents = 1
    QueueMoves = 1
    Callers = {t1, t2}
    Main = t1
    None = None
    MaxTrips = 2
    MakerIds = {101}
    MaxMade = 2
    MaxSent = 2
    MaxFd = 5
    MaxSockets = 3
    MaxOthers = 1
INVARIANTS
    ReadersSound ObjectsSound ThreadsSound SocketsSound
PROPERTIES
    ClientSteps ClientProceeds
CHECK_DEADLOCK FALSE
