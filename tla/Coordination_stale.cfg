\* Sessions may stop asking, and Lock stops at MaxToken: then nothing moves.
CHECK_DEADLOCK FALSE
SPECIFICATION CoordinationSpec
CONSTANTS
    Callers = {c1, c2, c3}
    Threshold = 3
    HalfOpenMax = 2
    ResetTimeout = 1
    MaxFailures = 5
    Sessions = {s1, s2, s3}
    Keys = {k1, k2}
    TTLs = {1, 2}
    MaxToken = 3
    NoName = NoName
    w = w
    Name <- SharedName
    Publishers = {p1, p2}
    Subscribers = {r1, r2}
    Topics = {t1, t2}
    Slow = {r2}
    BufferSize = 2
    MaxEvents = 2
    Brief = {p2}
PROPERTY OnlyOwnLeaseReleased
