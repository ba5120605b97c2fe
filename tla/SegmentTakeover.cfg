SPECIFICATION Spec
CONSTANTS
    p1 = p1  p2 = p2  o1 = o1  o2 = o2  e1 = e1  e2 = e2
    Procs = {p1, p2}
    OwnerIds = {o1, o2}
    OwnerOf <- OwnOwners
    NoOwner = NoOwner
    Effects = {e1}
    NoEffect = NoEffect
    MaxEpoch = 2
    Calls <- OneCall
    Gated = {e1}
    Observed = {e1}
    MaxCut = 1
    Faults = {"crash", "lapse", "storage"}
    MaxFaults = 2
INVARIANTS TypeOK StateMatchesLedger OneToolResult ToldTruthfully
CHECK_DEADLOCK FALSE
