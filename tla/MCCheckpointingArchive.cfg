SPECIFICATION Spec
CONSTANTS
    Pods = {p1, p2}
    p1 = p1
    p2 = p2
    NoArchive = NoArchive
    Rounds = {r1}
    r1 = r1
    Consumers = {c1}
    c1 = c1
    PausedAtOnce = 1
    PickLimit = 2
    SemaphoreCap = 2
    ChanCap = 1
    Recheckpoint = 1
    Mortal = {}
    MaxVictims = 2
    MaxClock = 0
SYMMETRY Symmetry
INVARIANTS
    KilledHasArchive
