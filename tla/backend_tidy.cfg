\* Two processes whose clients stay inside one scene.
SPECIFICATION TidySpec
CONSTANTS
    u0 = u0
    u1 = u1
    u2 = u2
    n0 = n0
    n1 = n1
    n2 = n2
    s1 = s1
    s2 = s2
    c1 = c1
    c2 = c2
    w1 = w1
    t1 = t1
    t2 = t2
    g1 = g1
    g2 = g2
    UserId = {u0, u1, u2}
    Nickname = {n0, n1, n2}
    Text = {t1, t2}
    Coord <- MCCoord
    GateType = {g1, g2}
    Absent = Absent
    Null = Null
    Malformed = Malformed
    Omitted = Omitted
    Proc = {p1, p2}
    Identities <- AliceOnly
    Requests <- TidyRequests
    Seeds <- AliceSeeds
    MaxFaults = 0
    SceneId = {s1, s2}
    CircuitId = {c1, c2}
    WireId = {w1}
SYMMETRY ProcSymmetry
INVARIANTS WiresAreListed
PROPERTIES SceneDeletionStaysInside
