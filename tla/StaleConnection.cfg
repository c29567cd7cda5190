SPECIFICATION ConnectionsSpec
CONSTANTS
    a1 = a1
    a2 = a2
    Assets = {a1, a2}
    Regions = {"us", "sa"}
    MaxCloud = 1
    v1 = v1
    v2 = v2
    OciAssets = {v1, v2}
    Compartments = {"t", "c"}
    Tenancy = "t"
    Children <- MCChildren
    OciRegions <- MCRegions
    MaxOciCloud = 1
    Jobs = {j1, j2, j3}
    Settings = {1, 2}
    Secrets = {k1, k2}
    f1 = f1
    f2 = f2
    Findings = {f1, f2}
    MaxRuns = 3
    MaxEvents = 4
    MaxTime = 2
    Requests = {q1}
    Amounts = {1}
PROPERTIES
    OldTestMarksNothing
CHECK_DEADLOCK FALSE
