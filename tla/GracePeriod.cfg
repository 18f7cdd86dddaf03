SPECIFICATION Spec
CONSTANTS
    MinGrace = 30000
    WatchTimeout = 100000
    Steps = {5000, 20000}
    Intervals = {10000, 20000, 40000, 65000}
    MaxInFlight = 1
    MaxScrapes = 6
PROPERTIES SteadyGrace ExportedUnlessStalled
