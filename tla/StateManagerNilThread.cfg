SPECIFICATION Spec
CONSTANTS
    p1 = p1
    p2 = p2
    t1 = t1
    o1 = o1
    o2 = o2
    o3 = o3
    o4 = o4
    Keys = {2, 3}
    Pids = {p1}
    PidOf <- OnePid
    Tids = {t1}
    Objs = {o1, o2, o3}
    UnknownObj = o1
    Absent = Absent
    Nil = Nil
    Workloads <- OrderedStream
SYMMETRY SpareObjs
INVARIANT NoNilThread
