SPECIFICATION Spec
CONSTANTS
    j1 = j1
    j2 = j2
    j3 = j3
    None = None
    Jobs = {j1, j2}
    Type <- MCType
    RetryMax <- NoRetry
    Mine = {}
    ClassOrder <- ChatAi
    Limit <- One
    MaxRedeliveries = 1
    Loops = {l1}
    Runners = {r1, r2}
    Admins = {}
    MaxRequests = 1
    MaxFaults = 0
    MaxCrashes = 1
SYMMETRY Symmetry
INVARIANTS
    TypeOK
    OwnershipInv
    ExclusiveExecution
    ExecutionBudget
PROPERTIES
    NoResurrection
    Lifecycle
CHECK_DEADLOCK FALSE
