SPECIFICATION Spec
CONSTANTS
    p1 = p1
    p2 = p2
    p3 = p3
    Pods = {p1, p2, p3}
    Priority <- Ranked
    Sentinel = 2
    OtherPods = 0
    PauseLists <- PausedPods
    CandidateLists <- AllCandidates
    RecordLists <- PodRecords
    MaxWrites = 1
INVARIANTS
    TypeOK
    ReturnsRemnants
    KilledOnce
    OthersStayPaused
    StuckResolved
