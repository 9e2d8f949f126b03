SPECIFICATION Spec
CONSTANTS
    NULL = NULL
    n1 = n1
    n2 = n2
    Srcs = {s1, s2}
    s1 = s1
    s2 = s2
    Addrs = {a4, b4, c6}
    a4 = a4
    b4 = b4
    c6 = c6
    Names = {n1, n2}
    FamilyOf <- MCFamilyOf
    Resolves <- MCResolves
    REMOTE_ADDR = a4
    CONFIG_AUTH = FALSE
    MAX_UDP_CONN_NUM = 3
    Remotes = {r1, r2, r3}
    r1 = r1
    r2 = r2
    r3 = r3
    Queries = {q1, q2}
    q1 = q1
    q2 = q2
    Worlds <- MCNames
INVARIANT Routed
CHECK_DEADLOCK FALSE
