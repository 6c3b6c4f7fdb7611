SPECIFICATION Spec
CONSTANTS
    Pods = {p1}
    p1 = p1
    NoArchive = NoArchive
    Rounds = {r1, r2}
    r1 = r1
    r2 = r2
    Consumers = {c1, c2}
    c1 = c1
    c2 = c2
    PausedAtOnce = 1
    PickLimit = 1
    SemaphoreCap = 1
    ChanCap = 1
    Recheckpoint = 1
    Mortal = {p1}
    MaxVictims = 1
    MaxClock = 1
SYMMETRY Symmetry
INVARIANTS
    TypeOK
    SemaphoreHeld
    ClaimNeedsCall
