\* Two processes that are started, serve, die and are started from two images.
SPECIFICATION FairDeployment
CONSTANTS
    u0 = u0
    u1 = u1
    u2 = u2
    n0 = n0
    n1 = n1
    n2 = n2
    s1 = s1
    s2 = s2
    c1 = c1
    c2 = c2
    w1 = w1
    t1 = t1
    t2 = t2
    g1 = g1
    g2 = g2
    UserId = {u0, u1, u2}
    Nickname = {n0, n1, n2}
    Text = {t1, t2}
    Coord <- MCCoord
    GateType = {g1, g2}
    Absent = Absent
    Null = Null
    Malformed = Malformed
    Omitted = Omitted
    Proc = {p1, p2}
    Identities <- Namesakes
    Requests <- UserRequests
    Seeds <- NoSeeds
    MaxFaults = 1
    SceneId = {s1}
    CircuitId = {}
    WireId = {}
    Images <- MCImages
    MaxCrashes = 1
    TestUser <- MCTestUser
    TestIdentity <- Tester
INVARIANTS ServedByMigratedTables
PROPERTIES TakenForEver UndisturbedStartServes
