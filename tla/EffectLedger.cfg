SPECIFICATION LedgerSpec
CONSTANTS
    p1 = p1  p2 = p2  p3 = p3  o1 = o1  o2 = o2
    Procs = {p1, p2, p3}
    OwnerIds = {o1, o2}
    OwnerOf <- TwinOwners
    NoOwner = NoOwner
    e1 = e1  Effects = {e1}
    NoEffect = NoEffect
    MaxEpoch = 3
INVARIANTS LedgerTypeOK OnePermit AtMostOnce QuiescentIsQuiet OneOwner SettledIsQuiet
PROPERTIES TakeoverReconcilesQuiet UsesLease
CHECK_DEADLOCK FALSE
