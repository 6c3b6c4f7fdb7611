SPECIFICATION Spec
CONSTANTS
    Pods = {p1, p2}
    p1 = p1
    p2 = p2
    NoStats = NoStats
    MaxTimeWindow = 3
    DownThreshold = 2
    Modulus = 4
    MaxCpu <- Cpu
    MaxLives <- Lives
INVARIANTS
    TypeOK
    WindowReadable
    WrapsOnlyAfterRestart
    MarksKept
PROPERTIES
    OneKillPerRestart
