\* The ticks and deliveries of a job, next to the dispatching loop.
CONSTANTS
    j1 = j1  k1 = k1  timer = timer
    NoOcc = NoOcc
    Jobs = {j1}
    Keys = {k1}
    Dispatchers = {timer}
    Loop = timer
    MaxTime = 1
    MaxGen = 1
SPECIFICATION FairSchedSpec
INVARIANTS SchedTypeOK OpenHasJob FileKnowsWork
PROPERTIES Implements PendingSettles
