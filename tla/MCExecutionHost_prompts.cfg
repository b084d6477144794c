\* The relay, prompts that share a Run with it, a delegated child, archives and steering.
CONSTANTS
    w1 = w1  w2 = w2  r1 = r1  r2 = r2  t1 = t1  e1 = e1  p1 = p1  p2 = p2
    NoWork = NoWork
    NoRun = NoRun
    NoTicket = NoTicket
    Works = {w1, w2}
    Runs = {r1, r2}
    Tickets = {t1}
    Effects = {e1}
    Prompts = {p1, p2}
    DiskMayFail = FALSE
SPECIFICATION FairHostSpec
CONSTRAINT HostBound
INVARIANTS HostTypeOK DeniedNeverRuns  GateIsBacked RestartCauses
PROPERTIES RelayAnswers
