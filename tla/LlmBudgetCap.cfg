SPECIFICATION Spec
CONSTANTS
    r1 = r1
    r2 = r2
    r3 = r3
    d1 = d1
    tenant = tenant
    model = model
    Requests = {r1, r2, r3}
    Decisions = {}
    Buckets = {tenant}
    Cap <- MCTightCap
    Applies <- MCOneApplies
    Quote <- MCOneAttempt
    Margin = 25
    UsageReports <- MCTrueReports
    Observed = {}
    MaxFaults = 0
    MaxMonths = 1
    MaxCrashes = 0
INVARIANTS MonthlyCapBound
CHECK_DEADLOCK FALSE
