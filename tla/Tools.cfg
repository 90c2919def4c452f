SPECIFICATION Spec
CONSTANTS
    a = a
    b = b
    d = d
    x = x
    Empty = Empty
    Absent = Absent
    Wrong = Wrong
    shm = shm
    pool = pool
INVARIANTS
    CursorsSound 
PROPERTIES
    CursorsLoad
CHECK_DEADLOCK FALSE
