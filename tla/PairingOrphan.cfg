SPECIFICATION Spec
CONSTANTS
    Logins = {l1}
    Boot = Boot
    NoClient = NoClient
    Backlog = 1
INVARIANT ConnectedIsPaired
CHECK_DEADLOCK FALSE
