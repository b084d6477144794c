\* The installer waits for its card.
CONSTANTS
    t1 = t1  t2 = t2  h1 = h1  h2 = h2  a1 = a1  a2 = a2
    NoTicket = NoTicket
    Tickets = {t1}
    Args = {h1}
    Askers = {a1}
    Ttl = 1
    StepCap = 1
    TotalCap = 2
    MaxTime = 2
    MaxNonce = 0
SPECIFICATION Spec
INVARIANTS WaitCanBeAnswered
