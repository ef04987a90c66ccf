\* The programs other than the pool come to an end.
CHECK_DEADLOCK FALSE
SPECIFICATION ConcurrencySpec
CONSTANTS
    Workers = {w1, w2}
    NJobs = 4
    BufferSize = 2
    Resizers = {r1, r2}
    Compressors = {c1}
    Uploaders = {u1}
    Count = 3
    Tasks = 3
    MaxConcurrency = 2
    Numbers = 5
    Producers = {1, 2}
    PerSource = 2
    Wanted = 3
    Hands = {1, 2}
    NumJobs = 3
    JobsCap = 3
    ResultsCap = 3
    MaxRetries = 4
    InitialDelay = 2
    MaxDelay = 9
    Multiplier = 2
    JitterFactor = 1
    Retries = 3
    Routines = {1, 2, 3}
    Writer = 1
    Children = {1, 2}
    MaxTicks = 2
    FastCount = 5
    SlowCount = 3
    ChanCap = 10
INVARIANTS
    PoolInv
    PipelineAccounts
    BoundedAndWaitedFor
    ChannelsDeliver
    RetriesKeepSchedule
    SharedWithoutHarm
PROPERTIES
    ProgramsEnd
