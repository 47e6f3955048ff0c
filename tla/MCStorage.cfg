CONSTANTS
    e1 = e1
    e2 = e2
    e3 = e3
    Nobody = Nobody
    Flusher = Flusher
    Exchanges = {e1, e2, e3}
    Large = {e2}
    Kinds = {"jsonl", "sqlite", "memory"}
    MaxCrashes = 2
SPECIFICATION FairSpec
INVARIANTS
    TypeOK
    AckedLoadBack
    UnreadableOnlyIfTorn
    FlushIsDurable
PROPERTIES
    AppendEnds
CHECK_DEADLOCK FALSE
