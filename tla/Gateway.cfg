SPECIFICATION FairSpec
CONSTANTS
    r1 = r1
    r2 = r2
    Requests = {r1, r2}
    Commands = {r2}
    Endpoints <- MCEndpoints
    Boot = boot
    None = none
    QueueSize = 1
INVARIANTS TypeOK Truthful ShutdownLosesNothing
PROPERTIES HandlersEnd ServerExits
\* The process may exit.
CHECK_DEADLOCK FALSE
