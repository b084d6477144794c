\* Two callers and three tasks, for one slot at a time and two in all.
CONSTANTS
    root = root  a = a  b = b  d = d  ra = ra  rb = rb  rd = rd  c1 = c1  c2 = c2
    NoWork = NoWork
    NoRun = NoRun
    Nobody = Nobody
    Root = root
    Works = {root, a, b, d}
    Runs = {ra, rb, rd}
    RunOf <- MCRunOf
    Tickets = {}
    Effects = {}
    Callers = {c1, c2}
    MaxConcurrent = 1
    MaxTotal = 2
    DiskMayFail = TRUE
SYMMETRY Symmetry
SPECIFICATION DelegationSpec
INVARIANTS DelegationTypeOK CapOvershoot SessionBacked
PROPERTIES LeakNeedsFault
