CONSTANTS
    Kernel = Kernel
    Exporter = Exporter
    Workers = {w1, w2}
    None = None
    MaxStops = 2
    MaxAttempts = 2
SPECIFICATION Spec
INVARIANTS
    OneRestarter
    NoStopForgotten
PROPERTIES
    StopGate
    StopReturns
CHECK_DEADLOCK FALSE
