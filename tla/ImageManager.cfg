SPECIFICATION Spec
CONSTANTS
    b1 = b1
    b2 = b2
    a1 = a1
    a2 = a2
    o1 = o1
    o2 = o2
    o3 = o3
    Bases = {b1, b2}
    Addrs = {a1, a2}
    Covers <- TwoImages
    Objs = {o1, o2, o3}
    Absent = Absent
    MaxMappings = 1
    MaxScrapes = 2
SYMMETRY SpareObjs
INVARIANTS CacheCoherent SoleOwner ResolvedNameRight ZeroCountMarked
