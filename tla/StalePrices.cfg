SPECIFICATION ValuationsAlone
CONSTANTS
    Demands = 3
    Capacities = 2
    Owners = {o1}
    Licences = {byol, li}
    Byol = byol
    Li = li
    NoLicence = nolicence
    Pools = {"pg", "ora", "db2", "aur"}
    Licensed = {"pg", "aur"}
    Flexible = {"pg", "db2", "aur"}
    Oracle = {"ora"}
    Aurora = {"aur"}
    Classes = {"small", "large"}
    Units <- MCUnits
    Counts = {1}
    i1 = i1
    r1 = r1
    Workloads = {i1}
    Reserved = {r1}
    Generators = {g1, g2}
    FreshFor = 0
    MaxCoverages = 2
    MaxHours = 1
    x1 = x1
    s1 = s1
    Items = {x1}
    Scopes = {s1}
    ScopeOf <- MCScopeOf
    Collections = {c1, c2, c3}
    Applies = {t1, t2, t3}
    MaxStops = 2
    g2 = g2
    c1 = c1
    c2 = c2
    c3 = c3
    t1 = t1
    t2 = t2
    t3 = t3
    u1 = u1
    u2 = u2
    q2 = q2
    Findings = {f1, f2}
    MaxRuns = 3
    Snapshots = {eu, us}
    Unrecorded = unrecorded
    Versions = {v1}
    Writers = {w1, w2}
    f2 = f2
    w2 = w2
    eu = eu
    Users = {u1, u2}
    First = u1
    Requests = {q1, q2}
    MaxSessions = 3
    MaxLinks = 2
    MaxVersion = 2
    MaxSecrets = 2
    MaxCode = 3
    e2 = e2
    sku1 = sku1
    Skus = {sku1, sku2}
    Editors = {e1, e2}
    MaxDay = 2
    MaxPrices = 4
    MaxChanges = 4
    h2 = h2
    b1 = b1
    m1 = m1
    Profiles = {1, 2, 3}
    Handlers = {h1, h2}
    Methods = {m1, m2}
    AwsAccounts = {b1, b2}
    Askers = {k1, k2}
    k1 = k1
    k2 = k2
    Buckets = {1, 2}
    Services = {"s1", "s2"}
    Ttl = 1
    MaxMinute = 2
    MaxBilled = 2
    n1 = n1
    y2 = y2
    Threads = {y1, y2}
    CwAccounts = {n1, n2}
    MaxCwRuns = 2
    MaxCalls = 2
    MaxHour = 2
PROPERTIES
    NewRunReadsCatalog
CHECK_DEADLOCK FALSE
