SPECIFICATION FairSpec
CONSTANTS
    r1 = r1
    r2 = r2
    r3 = r3
    d1 = d1
    tenant = tenant
    model = model
    Requests = {r1, d1}
    Decisions = {d1}
    Buckets = {tenant, model}
    Cap <- MCCap
    Applies <- MCApplies
    Quote <- MCQuote
    Margin = 25
    UsageReports <- MCReports
    Observed = {r1}
    MaxFaults = 1
    MaxMonths = 1
    MaxCrashes = 1
INVARIANTS TypeOK ReservedIsOpen SpentIsLedger CapKept WithinReserve NoFreeCall
PROPERTIES CorrectedOnce HoldsClose Reservations
CHECK_DEADLOCK FALSE
