SPECIFICATION Spec
CONSTANTS
    Accounts = {a1}
    Workers = {w1}
    Requests = {q1}
    MaxScans = 2
    MaxCrashes = 0
INVARIANTS
    OneActive
