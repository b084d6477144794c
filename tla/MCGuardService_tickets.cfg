\* Two tickets, one permission request, the installer and executors.
CONSTANTS
    t1 = t1  t2 = t2  h1 = h1  h2 = h2  a1 = a1  a2 = a2
    NoTicket = NoTicket
    Tickets = {t1, t2}
    Args = {h1, h2}
    Askers = {a1}
    Ttl = 1
    StepCap = 1
    TotalCap = 2
    MaxTime = 2
    MaxNonce = 1
SPECIFICATION FairSpec
INVARIANTS TypeOK SpentOnce SpendIsBacked
PROPERTIES DecidedIsFrozen DecisionArrives
