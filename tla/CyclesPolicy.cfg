SPECIFICATION FairSpec
CONSTANTS
    Findings = {f1}
    Runs = {}
    Clients = {}
    Grids <- MCGrids
    MaxTime = 4
    MaxVersion = 3
    MaxAhead = 0
PROPERTIES
    OverdueCloses
CHECK_DEADLOCK FALSE
