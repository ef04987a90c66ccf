\* Servers stop on a signal, histories are bounded.
CHECK_DEADLOCK FALSE
SPECIFICATION ServicesSpec
CONSTANTS
    Addrs = {a1, a2}
    Handlers = {h1, h2}
    Unit = 2
    Rate = 1
    Burst = 1
    MaxTime = 4
    MaxAllowed = 3
    Idle = Idle
    Callers = {c}
    Threshold = 3
    HalfOpenMax = 2
    ResetTimeout = 2
    MaxFailures = 12
    Requests = {1, 2, 3}
    Startup = 0
    Conns = {1, 2}
    Instances = {1, 2}
    Names = {"api", "database"}
    Timeout = 1
    MaxEntries = 2
    Intervals = 3
    Accounts = {1, 2}
    Amounts = {1, 2}
    MaxEvents = 4
    Payments = 3
    Malformed = {2}
    MaxCrashes = 2
    Orders = {1, 2, 3}
    Garbled = {2}
    MaxInFlight = 2
    MaxAttempts = 2
    Calls = {1, 2, 3}
    MaxCreated = 2
    Clients = {1, 2}
    Emails = {1}
    Passwords = {0}
    MaxUsers = 2
    MaxTasks = 1
    Routes = {1, 2}
    Bounds = {1, 2}
    Durations = {1, 2, 3}
    MaxRequests = 3
    WebRequests = {1, 2}
    Runs = {1, 2}
INVARIANT BucketsWithinCount
