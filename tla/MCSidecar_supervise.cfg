SPECIFICATION FairSidecarSpec
CONSTANTS
    Turns = {t1}
    CircuitThreshold = 2
    MaxChild = 2
    MaxCall = 1
    MaxFrames = 1
    MaxRows = 1
INVARIANTS SidecarTypeOK OneChild NoOrphanCall
PROPERTIES WakeIsServed LiveChildServed
CHECK_DEADLOCK FALSE
