CONSTANTS
    c1 = c1
    c2 = c2
    c3 = c3
    Commands = {c1, c2, c3}
    Timed = {c1, c2}
    Unset = Unset
    Failed = Failed
SPECIFICATION FairSpec
INVARIANTS
    OwnAnswer
PROPERTY CallsSettle
CHECK_DEADLOCK FALSE
