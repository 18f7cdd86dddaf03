SPECIFICATION Spec
CONSTANTS
    c1 = c1
    c2 = c2
    v1 = v1
    v2 = v2
    Keys = {0, 1, 2}
    Values = {v1, v2}
    Clients = {c1, c2}
    Rangers = {c1}
    Requests <- MCRequests
    numShards = 2
    Absent = Absent
INVARIANT NoMapRace
PROPERTIES
    ImplementsMap
    EveryCallReturns
