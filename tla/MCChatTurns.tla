----------------------------- MODULE MCChatTurns -----------------------------
(* Instances of ChatTurns: a few requests for up to three commands.         *)
EXTENDS ChatTurns, FiniteSets, TLC

CONSTANTS r1, r2, r3, c1, c2, c3

\* Bound: three requests with one disturbance, or two with two.
Bound == Cardinality({r \in Posts : post[r] # Idle}) + MaxFaults - faults.left <= 4

Symmetry == Permutations(Posts) \cup Permutations(Commands)
=============================================================================
