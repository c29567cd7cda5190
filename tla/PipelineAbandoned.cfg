SPECIFICATION PipelineAlone
CONSTANTS
    Instances = {w1}
    Days = 0
    MaxPolicies = 1
    MaxFaults = 0
    Schedulers = {s1}
    Callers = {}
    Routes = {}
    MaxRuns = 2
    MaxDeaths = 1
    Commits = {v0}
    Baseline = v0
    MaxPushes = 0
    MaxTroubles = 0
    Accounts = {a1}
    Workers = {w1}
    Requests = {q1}
    MaxScans = 1
    MaxCrashes = 0
PROPERTIES
    AbandonedStageRecovered
CHECK_DEADLOCK FALSE
