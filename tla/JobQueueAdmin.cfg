SPECIFICATION Spec
CONSTANTS
    j1 = j1
    j2 = j2
    j3 = j3
    None = None
    Jobs = {j1, j2}
    Type <- TypeAi
    RetryMax <- RetryJ2
    Mine = {j1}
    ClassOrder <- AiOnly
    Limit <- One
    MaxRedeliveries = 0
    Loops = {l1}
    Runners = {r1, r2}
    Admins = {a1}
    MaxRequests = 0
    MaxFaults = 0
    MaxCrashes = 0
SYMMETRY Symmetry
INVARIANTS ExecutionBudget
PROPERTIES
    NoResurrection
CHECK_DEADLOCK FALSE
