CONSTANTS
    d1 = d1
    CPUs = {c1}
    Scrapers = {s1, s2}
    Buffers = {b1, b2, b3}
    Drivers = {d1}
    None = None
    MaxDpcs = 3
    Workloads <- MCWorkloads
    CleanEvery = 1
SPECIFICATION Spec
SYMMETRY Symmetry
INVARIANTS
    CountedOnce
    IsrMatchedOnce
    LossBounded
    SeriesGoWithDriver
