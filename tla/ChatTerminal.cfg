SPECIFICATION Spec
CONSTANTS
    r1 = r1  r2 = r2  r3 = r3  c1 = c1  c2 = c2  c3 = c3
    Commands = {c1}
    NoCmd = NoCmd
    Posts = {r1}
    Faults = {"crash"}
    MaxFaults = 1
    MaxFacts = 1
INVARIANTS TerminalWithRow
CHECK_DEADLOCK FALSE
