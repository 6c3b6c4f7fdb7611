SPECIFICATION FairSpec
CONSTANTS
    Pods = {p1}
    p1 = p1
    NoEntry = NoEntry
    NoPod = NoPod
    Rounds = {r1}
    r1 = r1
    Workers = {w1, w2}
    w1 = w1
    w2 = w2
    Consumers = {c1}
    c1 = c1
    ChanCap = 1
    MaxRemovals = 1
    Faults = {}
    MaxFaults = 0
PROPERTIES
    RepairCompletes
