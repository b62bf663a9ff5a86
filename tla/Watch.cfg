\* A buffer of four and polls of three: both limits are passed, and restarts and cut
\* answers fall between any two polls.
CONSTANTS
    Capacity = 4
    Window = 3
    MaxMessages = 6
    MaxCuts = 1
    Ids = {1, 2, 3, 4, 5, 6}
    NoId = 0
    Texts = {"old", "new"}
    NoText = "none"
SPECIFICATION Spec
INVARIANT PrintedOnce
PROPERTIES ImplementsLog WatchCatchesUp
