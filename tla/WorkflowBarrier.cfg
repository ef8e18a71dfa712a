SPECIFICATION FairSpec
CONSTANTS
    NoopTasks <- AllNoopTasks
    JobTasks <- MCJobTasks
    Transitions <- MCTransitions
    Writers <- AllWriters
    Items <- OneOrganization
    Inputs <- WithoutOrganizations
    Slots = 2
    RetryMax = 1
    MergeAttempts = 2
    MaxRedeliveries = 1
    MaxJobs = 5
    MaxFailures <- OneFailure
INVARIANTS TypeOK CompletedIsMerged JoinSeesAll OneJob
PROPERTIES RunEnds
CHECK_DEADLOCK FALSE
