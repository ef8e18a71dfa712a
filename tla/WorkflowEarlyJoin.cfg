SPECIFICATION Spec
CONSTANTS
    NoopTasks <- AllNoopTasks
    JobTasks <- AllJobTasks
    Transitions <- AllTransitions
    Writers <- AllWriters
    Items <- OneOrganization
    Inputs <- WithOrganizations
    Slots = 2
    RetryMax = 1
    MergeAttempts = 2
    MaxRedeliveries = 1
    MaxJobs = 8
    MaxFailures <- Calm
INVARIANTS JoinWaits
CHECK_DEADLOCK FALSE
