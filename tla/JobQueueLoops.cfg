SPECIFICATION Spec
CONSTANTS
    j1 = j1
    j2 = j2
    j3 = j3
    None = None
    Jobs = {j2, j3}
    Type <- MCType
    RetryMax <- NoRetry
    Mine = {}
    ClassOrder <- AiOnly
    Limit <- One
    MaxRedeliveries = 0
    Loops = {l1, l2}
    Runners = {r1, r2}
    Admins = {}
    MaxRequests = 1
    MaxFaults = 1
    MaxCrashes = 0
SYMMETRY Symmetry
INVARIANTS
    LimitKept
    ProcessingFlag
CHECK_DEADLOCK FALSE
