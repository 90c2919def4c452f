SPECIFICATION Spec
CONSTANTS
    l1 = l1
    l2 = l2
    l3 = l3
    t1 = t1
    t2 = t2
    t3 = t3
    None = None
    NoValue = NoValue
    Lost = Lost
    Timer = Timer
    f1 = f1
    f2 = f2
    s1 = s1
    s2 = s2
    i1 = i1
INVARIANTS
    BytesSound StructuresSound
PROPERTIES
       LoopSteps PlumbingProceeds
CHECK_DEADLOCK FALSE
