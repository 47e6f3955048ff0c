CONSTANTS
    r1 = r1
    r2 = r2
    r3 = r3
    s1 = s1
    s2 = s2
    s3 = s3
    m1 = m1
    m2 = m2
    plain = plain
    secret = secret
    half = half
    rewritten = rewritten
    bare = bare
    Unlimited = Unlimited
    Nobody = Nobody
    Requests = {r1, r2, r3}
    Keys <- MCKeys
    KeyOf <- MCKeyOf
    Chain <- MCPlainChain
    RedactBy <- MCPlainRedact
    Rewrite <- MCRewrite
    Truncate <- MCTruncate
    WayIn <- MCPlainWays
    WayOut <- MCPlainWays
    Stubs = {s1}
    StubMatches <- MCStubMatches
    StubTimes <- MCStubTimes
    Configs <- MCRecordThenReplay
    MaxRestarts = 1
SPECIFICATION Spec
SYMMETRY MCSymmetry
INVARIANTS
    StubFireLimit
    IndexSound
    AppendedOnce
PROPERTIES
    FirstWriteWins
    ReloadKeepsKeys
