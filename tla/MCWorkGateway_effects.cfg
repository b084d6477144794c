\* Two Works with two effects each, archived and created again.
CONSTANTS
    w1 = w1  w2 = w2  r1 = r1  r2 = r2  t1 = t1  t2 = t2  e1 = e1  e2 = e2
    NoWork = NoWork
    NoRun = NoRun
    Works = {w1, w2}
    Runs = {}
    Tickets = {}
    Effects = {e1, e2}
    DiskMayFail = FALSE
SPECIFICATION Spec
SYMMETRY Symmetry
PROPERTY UncertaintyIsKept
