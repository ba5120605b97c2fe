SPECIFICATION Spec
CONSTANTS
    p1 = p1  p2 = p2  o1 = o1  o2 = o2  e1 = e1  e2 = e2
    Procs = {p1, p2}
    OwnerIds = {o1, o2}
    OwnerOf <- SharedOwner
    NoOwner = NoOwner
    Effects = {e1, e2}
    NoEffect = NoEffect
    MaxEpoch = 1
    Calls <- TwoCalls
    Gated = {e1}
    Observed = {}
    MaxCut = 1
    Faults = {"storage"}
    MaxFaults = 1
INVARIANTS StateMatchesLedger OneToolResult ApprovalGate RunInOrder ToldTruthfully NoCasConflict
PROPERTIES LedgerSpec
SYMMETRY Twins
CHECK_DEADLOCK FALSE
