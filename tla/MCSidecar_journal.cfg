SPECIFICATION SidecarSpec
CONSTANTS
    Turns = {t1, t2}
    CircuitThreshold = 2
    MaxChild = 2
    MaxCall = 1
    MaxFrames = 1
    MaxRows = 2
INVARIANT JournalInOrder
CHECK_DEADLOCK FALSE
