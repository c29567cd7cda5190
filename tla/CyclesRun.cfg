SPECIFICATION FairSpec
CONSTANTS
    Findings = {f1}
    Runs = {r1, r2}
    Clients = {c1}
    Grids <- MCGrids
    MaxTime = 2
    MaxVersion = 2
    MaxAhead = 0
INVARIANTS
    ClosedComplete
    SteadyDisjoint
    ScheduleContinues
PROPERTIES
    SteadyCloses
CHECK_DEADLOCK FALSE
