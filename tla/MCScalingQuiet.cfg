SPECIFICATION Spec
CONSTANTS
    Pods = {p1, p2}
    p1 = p1
    p2 = p2
    OwnLimit <- Larger
    RepairRequest <- NoRepair
    MinSize = 3
    MaxSize = 6
    MinScaleSize = 2
    DownThreshold = 1
    TimeWindow = 1
    Capacity = 12
    Usages = {2, 3, 5}
    NodeUsages = {4, 8, 12}
    Growths = {0, 3}
    MaxFailures = 0
SYMMETRY Symmetry
INVARIANTS
    TypeOK
    ThrottledAreWaiting
PROPERTIES
    ScaledInFull
