CONSTANTS
    s1 = s1
    s2 = s2
    u1 = u1
    u2 = u2
    b1 = b1
    b2 = b2
    Shares = {s1, s2}
    Users = {u1, u2}
    Clients = {c1}
    Browsers = {b1, b2}
    MaxConns = 2
    SmbScenes <- MCScenes
    Nobody = Nobody
SPECIFICATION SmbFairSpec
INVARIANTS LoginsFollowLocations
PROPERTIES CallsEnd
CHECK_DEADLOCK FALSE
