CONSTANTS
    r1 = r1
    r2 = r2
    r3 = r3
    s1 = s1
    s2 = s2
    s3 = s3
    m1 = m1
    m2 = m2
    plain = plain
    secret = secret
    half = half
    rewritten = rewritten
    bare = bare
    Unlimited = Unlimited
    Nobody = Nobody
    Requests = {r1, r2}
    Keys <- MCKeys
    KeyOf <- MCKeyOf
    Chain <- MCFullChain
    RedactBy <- MCFullRedact
    Rewrite <- MCRewrite
    Truncate <- MCTruncate
    WayIn <- MCFullWayIn
    WayOut <- MCFullWayOut
    Stubs = {s3}
    StubMatches <- MCStubMatches
    StubTimes <- MCStubTimes
    Configs <- MCMixedConfigs
    MaxRestarts = 0
SPECIFICATION FairSpec
INVARIANTS
    TypeOK
    RedactedAtRest
PROPERTIES
    SeenNotForwarded
    DrainCompletes
    EveryRequestEnds
