CONSTANTS
    r1 = r1
    r2 = r2
    r3 = r3
    r4 = r4
    s1 = s1
    s2 = s2
    Any = Any
    Binary = Binary
    NoStorage = NoStorage
    Unlimited = Unlimited
    Idle = Idle
    DefaultCap = 3
    Requests = {r1, r2, r3, r4}
    LiveRequest <- MCLiveRequest
    TargetOf <- MCTargetOf
    Keys <- MCKeys
    Answers <- MCAnswers
    BuilderCalls <- MCBuilderCalls
    WireLines <- MCWireLines
    MaxOps = 4
SPECIFICATION Spec
INVARIANTS
    BuiltAsAsked
    FoundAsSent
    ForwardedUnderPrefix
PROPERTIES
    CommandsKeepToScope
CHECK_DEADLOCK FALSE
