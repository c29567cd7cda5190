SPECIFICATION CourseSpec
CONSTANTS
    Findings = {f1}
    Runs = {r1, r2, r3}
    NoRun = NoRun
    Rules = {rule}
    Regions = {region}
    AllRegions = AllRegions
    RuleOf <- MCRuleOf
    RegionOf <- MCRegionOf
    MissingThreshold = 2
    Sweeps = {s1}
    Enabled = {"rejected", "treated", "resolved_external", "open"}
    Days <- MCDays
    BatchSize = 1
    MaxTime = 4
SYMMETRY RunSymmetry
INVARIANTS
    LastSeenIsLatest
    PresenceIsProven
    ReviewIsExact
PROPERTIES
    LaterRunWins
    SweepSparesReappeared
    ImplementsContract
CHECK_DEADLOCK FALSE
