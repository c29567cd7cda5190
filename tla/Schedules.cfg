SPECIFICATION SchedulesSpec
CONSTANTS
    Instances = {w1, w2}
    Days = 1
    MaxPolicies = 2
    MaxFaults = 2
    Schedulers = {s1}
    Callers = {c1}
    Routes = {u1}
    MaxRuns = 2
    MaxDeaths = 1
    Commits = {v0, v1, v2}
    Baseline = v0
    MaxPushes = 3
    MaxTroubles = 3
    Accounts = {a1}
    Workers = {w1, w2}
    Requests = {q1}
    MaxScans = 3
    MaxCrashes = 1
INVARIANTS
    DaySweptByOne
    SuccessWasApplied
    RecordsAreTrue
    Recoverable
    RunFollowsScan
    BoundedDuplicates
PROPERTIES
    TodayIsSwept
    NextRunComes
    MixtureEnds
    ScansEnd
    DueIsServed
    SweepEnds
CHECK_DEADLOCK FALSE
