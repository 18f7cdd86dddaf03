CONSTANTS
    Kernel = Kernel
    Exporter = Exporter
    Workers = {w1, w2}
    None = None
    MaxStops = 1
    MaxAttempts = 2
SPECIFICATION Spec
SYMMETRY Symmetry
INVARIANT NothingLeftActive
CHECK_DEADLOCK FALSE
