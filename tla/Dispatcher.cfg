SPECIFICATION FairSpec
CONSTANTS
    Workers = {w1, w2}
    Retries = 2
    QueueSize = 1
    Closers = {c1, c2}
    MaxEvents = 3
INVARIANTS TypeOK FateTells InOrder
PROPERTIES SettledOnce CloseQuiesces CloseCompletes AcceptedSettles
CHECK_DEADLOCK FALSE
