SPECIFICATION Spec
SYMMETRY Identical
CONSTANTS
    Cpus = {0, 1}
    Stats = {o1, o2, o3, o4, o5, o6}
    Scrapers = {s1, s2}
    NBuckets = 2
    None = None
    MaxSwitches = 2
    MaxTime = 2
    MaxScrapes = 3
INVARIANTS
    SoleOwner
    CountedOnce
    LossBounded
    BucketsMatchCount
    CpuRight
    SumWithinTime
