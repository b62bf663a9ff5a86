SPECIFICATION FairSpec
CONSTANTS
    Logins = {l1}
    Boot = Boot
    NoClient = NoClient
    Backlog = 1
INVARIANTS TypeOK JIDWasPaired Undisturbed
PROPERTIES ConsumerEnds PairingEnds
CHECK_DEADLOCK FALSE
