SPECIFICATION SpecHistory
CONSTANTS
    l1 = l1
    l2 = l2
    Logins = {l1, l2}
    Boot = Boot
    NoClient = NoClient
    Backlog = 1
INVARIANTS OnePairing JIDSaved
CONSTRAINT OnlyLogins
SYMMETRY LoginSymmetry
CHECK_DEADLOCK FALSE
