SPECIFICATION CollectionSpec
CONSTANTS
    Findings = {f1}
    Runs = {r1, r2, r3, r4}
    NoRun = NoRun
    Rules = {rule}
    Regions = {region}
    AllRegions = AllRegions
    RuleOf <- MCRuleOf
    RegionOf <- MCRegionOf
    MissingThreshold = 2
    Sweeps = {}
    Enabled = {"rejected", "treated", "resolved_external", "open"}
    Days <- MCDays
    BatchSize = 1
    MaxTime = 5
SYMMETRY RunSymmetry
INVARIANTS
    SeenLaterIsActive
CHECK_DEADLOCK FALSE
