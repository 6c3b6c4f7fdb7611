SPECIFICATION Spec
CONSTANTS
    Pods = {p1}
    p1 = p1
    NoEntry = NoEntry
    NoPod = NoPod
    Rounds = {r1}
    r1 = r1
    Workers = {w1, w2}
    w1 = w1
    w2 = w2
    Consumers = {c1, c2}
    c1 = c1
    c2 = c2
    ChanCap = 1
    MaxRemovals = 2
    Faults = {"create", "memory"}
    MaxFaults = 1
SYMMETRY Symmetry
INVARIANTS
    TypeOK
    RecordsTrue
PROPERTIES
    CreatedFromImage
    KeepsPromise
