SPECIFICATION Spec
CONSTANTS
    Creates = {1, 2, 3}
    Deletes = {4, 5}
    Updates = {6}
    Devices = {7}
    Boot = Boot
    None = None
PROPERTY ExistsMeansSession
CHECK_DEADLOCK FALSE
