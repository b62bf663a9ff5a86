SPECIFICATION FairSpec
CONSTANTS
    Creates = {1, 2}
    Deletes = {3}
    Updates = {4}
    Devices = {5, 6}
    Boot = Boot
    None = None
INVARIANTS TypeOK AgreeAtRest OneAtWork ClosedIsDown
PROPERTY DeletedWorkerEnds
CHECK_DEADLOCK FALSE
