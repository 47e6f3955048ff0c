CONSTANTS
    m1 = m1
    m2 = m2
    other = other
    seen = seen
    count = count
    now = now
    stored = stored
    NoName = NoName
    Seen = Seen
    Calls = {m1, m2, other}
    Waiters = {seen, count, now}
    Upstreams = {stored}
    UpstreamOf <- MCUpstreamOf
    Routes = {stored}
    MaxInMemory = 2
    RecordingOn = TRUE
    Matching <- MCMatching
    Expected <- MCExpected
    Timeout <- MCTimeout
    MaxTimeout = 2
SPECIFICATION WaitFairSpec
INVARIANTS
    TypeOK
    RingBounded
    StorageFirst
    SameOrder
    WaitTypeOK
    SleepsOnlyWhilePending
    WaitsWithinTimeout
PROPERTIES
    RecordIsAtomic
    RecordCompletes
    StableMatchPasses
    AssertionAnswered
