SPECIFICATION FairSpec
CONSTANTS
    p1 = p1  p2 = p2  o1 = o1  o2 = o2  e1 = e1  e2 = e2
    Procs = {p1, p2}
    OwnerIds = {o1, o2}
    OwnerOf <- SharedOwner
    NoOwner = NoOwner
    Effects = {e1}
    NoEffect = NoEffect
    MaxEpoch = 1
    Calls <- OneCall
    Gated = {}
    Observed = {}
    MaxCut = 1
    Faults = {"crash"}
    MaxFaults = 1
PROPERTIES DispatchedSettles
CHECK_DEADLOCK FALSE
