\* One Work, Run, ticket and effect on a disk whose writes may fail.
CONSTANTS
    w1 = w1  w2 = w2  r1 = r1  r2 = r2  t1 = t1  t2 = t2  e1 = e1  e2 = e2
    NoWork = NoWork
    NoRun = NoRun
    Works = {w1}
    Runs = {r1}
    Tickets = {t1}
    Effects = {e1}
    DiskMayFail = TRUE
SPECIFICATION Spec
CONSTRAINT EffectsBehindBrokenRow
INVARIANTS TypeOK PendingGate RefusalCauses ReplayAgrees
PROPERTIES TerminalIsFinal
