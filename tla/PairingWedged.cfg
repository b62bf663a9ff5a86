SPECIFICATION FairSpec
CONSTANTS
    Logins = {l1}
    Boot = Boot
    NoClient = NoClient
    Backlog = 1
PROPERTY PairingOffers
CHECK_DEADLOCK FALSE
