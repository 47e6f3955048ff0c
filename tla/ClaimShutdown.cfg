CONSTANTS
    u1 = u1
    u2 = u2
    k1 = k1
    k2 = k2
    here = here
    tcp = tcp
    Order <- MCOrder
    Sorted <- MCSorted
    Conns = {k1, k2}
    UpstreamOf <- MCUpstreamOf
    Wedged = {}
    Callers = {here, tcp}
    TcpCallers = {tcp}
    QueueCap = 1
    Budget = 2
    Slack = 1
    DefaultDrain = 3
    FatalAccepts = {}
    MaxFlush = 1
SPECIFICATION Spec
INVARIANT ReturnsInTime
CHECK_DEADLOCK FALSE
