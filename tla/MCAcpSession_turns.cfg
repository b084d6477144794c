\* A thread with requests, a stop at any time, and an agent that may do anything.
CONSTANTS
    p1 = p1  s1 = s1
    Nobody = Nobody
    Callers = {p1}
    Stoppers = {s1}
    MaxId = 2
    MaxPipe = 2
    MaxOut = 1
    MaxParked = 1
SPECIFICATION FairAcpSpec
INVARIANTS AcpTypeOK StopsOnlyItsTurn NothingLeftBehind AsksAreKept
PROPERTIES StopEndsTurn
CHECK_DEADLOCK FALSE
