SPECIFICATION Spec
SYMMETRY Identical
CONSTANTS
    sys = sys
    a = a
    b = b
    nobody = nobody
    Procs = {sys, a, b}
    SystemProc = sys
    UnknownProc = nobody
    ProgramOf <- MCProgramOf
    Tags = {t1, t2}
    TagsOf <- MCTags
    Objs = {o1, o2, o3}
    Maps = {m1, m2}
    Scrapers = {s1}
    Kinds = {"memory", "network"}
    EnablePerProcess = {"memory", "network"}
    ByProtocol = TRUE
    None = None
    Workloads <- MCWorkloads
INVARIANTS
    ExportComplete
    ExportNotInflated
    NoInheritance
    ProgramsWithinSystem
    ServiceRight
PROPERTIES
    ServiceStable
