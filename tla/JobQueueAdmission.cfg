SPECIFICATION Spec
CONSTANTS
    j1 = j1
    j2 = j2
    j3 = j3
    None = None
    Jobs = {j2}
    Type <- MCType
    RetryMax <- NoRetry
    Mine = {}
    ClassOrder <- AiOnly
    Limit <- One
    MaxRedeliveries = 1
    Loops = {l1}
    Runners = {r1, r2}
    Admins = {a1}
    MaxRequests = 1
    MaxFaults = 0
    MaxCrashes = 0
INVARIANTS
    AdmissionRestored
CHECK_DEADLOCK FALSE
