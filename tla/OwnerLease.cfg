SPECIFICATION Spec
CONSTANTS
    p1 = p1  p2 = p2  o1 = o1  o2 = o2
    Procs = {p1, p2}
    OwnerIds = {o1, o2}
    OwnerOf <- OwnOwners
    NoOwner = NoOwner
    CfgToken = 1
    MaxTenure = 3
INVARIANTS TypeOK FencedByTenure
PROPERTIES WritesFollowTenures ReleaseDeletesOwnTenure ImplementsLease OnlyLostTurnsStopped
