SPECIFICATION Spec
CONSTANTS
    r1 = r1  r2 = r2  r3 = r3  c1 = c1  c2 = c2  c3 = c3
    Commands = {c1, c2, c3}
    NoCmd = NoCmd
    Posts = {r1, r2, r3}
    Faults = {}
    MaxFaults = 0
    MaxFacts = 1
INVARIANT OneTurn
SYMMETRY Symmetry
CHECK_DEADLOCK FALSE
CONSTRAINT Bound
