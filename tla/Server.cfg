SPECIFICATION Spec
CONSTANTS
    Threads = {t1, t2}
    Pools = {q1, q2}
    MaxNest = 3
    Buffers = {b1, b2}
    INT32_MAX = 7
    Numbers <- SentNumbers
    MaxRefs = 2
    Clients = {c1, c2}
    GoodClients = {c1}
    Interfaces = {i1, i2}
    Hidden <- HiddenFromOne
    Limit = 3
    MaxRequests = 1
    Ids = {2, 3}
    MaxDepth = 4
    p1 = p1
    p2 = p2
    p3 = p3
    c2 = c2
    i2 = i2
    None = None
    Stale = Stale
INVARIANTS
    MemorySound SocketSound GlobalsSound 
PROPERTIES
    ServerSteps ServerProceeds
CHECK_DEADLOCK FALSE
