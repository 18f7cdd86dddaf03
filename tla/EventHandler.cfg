SPECIFICATION HandlersSpec
CONSTANTS
    Groups = {"disk_io", "threadcs", "perfinfo", "network", "memory", "registry"}
    Disks = {d1, d2}
    Partitions = {p1, p2}
    NoVolume = NoVolume
    NoHandler = NoHandler
    MaxEvents = 2
INVARIANTS
    NothingMisrouted
    GroupSuffices
    CountedOnce
    NoNilCollector
    DiskInfoServed
