SPECIFICATION FairSpec
CONSTANTS
    Pods = {p1}
    p1 = p1
    OwnLimit <- Larger
    RepairRequest <- AllRepaired
    MinSize = 3
    MaxSize = 6
    MinScaleSize = 2
    DownThreshold = 2
    TimeWindow = 3
    Capacity = 12
    Usages = {2, 3, 5}
    NodeUsages = {4, 12}
    Growths = {0, 3}
    MaxFailures = 3
PROPERTIES
    QuotaKeepsLimit
    ScaleDownKeepsUsage
    ThrottledResumed
