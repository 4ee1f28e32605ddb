SPECIFICATION Spec
CONSTANTS
    Windows = {"w1", "w2"}
    Slots = {1, 2}
    Channels = {"c1", "c2", "c3"}
    Egresses = {"e1", "e2"}
    StopTries = 2
    PurgeTries = 2
    Starts <- MCOneRemoval
INVARIANT PurgedStopped
CHECK_DEADLOCK FALSE
