SPECIFICATION LeaseSpec
CONSTANTS
    Leases = {l1, l2}
    Resources = {r}
    ProviderHandles = {r}
    Bindings = {b1, b2}
    Scopes = {s}
    Ttl = 1
    MaxTime = 2
    MaxGen = 1
    MaxFence = 4
SYMMETRY Symmetry
INVARIANTS LeaseTypeOK OneWriter
PROPERTIES LossIsFinal FenceGrows
CHECK_DEADLOCK FALSE
