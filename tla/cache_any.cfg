SPECIFICATION ClientSpec
CONSTANTS
    w1 = w1
    m1 = m1
    m2 = m2
    s1 = s1
    p1 = p1
    p2 = p2
    a1 = a1
    a2 = a2
    r1 = r1
    r2 = r2
    x1 = x1
    None = None
    Processes = {w1}
    Models = {m1, m2}
    Secrets = {s1}
    Params = {p1, p2}
    Upstreams = {"gpt", "nova"}
    Accounts = {"A", ""}
    Configs <- TheConfigs
    Addresses = {a1, a2}
    Allowed = {a1}
    Capacity = 2
    ClientRequests = {r1, r2}
    Administrators = {x1}
    MaxChanges = 2
    MaxArrivals = 4
SYMMETRY Alike
INVARIANTS ClientFits AddressAllowed LeastRecentlyUsedGoes QuietClearIsClean
CHECK_DEADLOCK FALSE
