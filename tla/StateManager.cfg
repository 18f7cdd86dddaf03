SPECIFICATION Spec
CONSTANTS
    p1 = p1
    p2 = p2
    t1 = t1
    o1 = o1
    o2 = o2
    o3 = o3
    o4 = o4
    Keys = {2, 3, 4}
    Pids = {p1, p2}
    PidOf <- TwoPids
    Tids = {t1}
    Objs = {o1, o2, o3, o4}
    UnknownObj = o1
    Absent = Absent
    Nil = Nil
    Workloads <- EveryStream
SYMMETRY SpareObjs
INVARIANTS
    LiveProcessIndexed
    
    NoThreadToRecycled
    SoleOwner
    PidIndexSound
PROPERTY ImplementsLifecycle
