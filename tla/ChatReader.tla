----------------------------- MODULE ChatReader -----------------------------
(***************************************************************************)
(* What a chat stream promises its client (ADR 0077, 7): starting after a  *)
(* given fact, it tells the facts of the session one by one, each the next *)
(* one after the last it told, so that none is told twice, out of order or *)
(* left out.  It may stop at any point, and be taken up again there.       *)
(***************************************************************************)
EXTENDS Naturals

VARIABLES
    facts,  \* the positions of the facts the reader is entitled to
    from,   \* the position after which it reads
    pos,    \* the last position it was told, or from
    seen    \* the positions it was told

readerVars == <<facts, from, pos, seen>>

ReaderInit == facts \subseteq Nat /\ from = 0 /\ pos = 0 /\ seen = {}

\* New facts come after all that was told.
Grow ==
    /\ facts \subseteq facts'
    /\ facts' \subseteq Nat
    /\ \A i \in facts' \ facts : i > pos
    /\ UNCHANGED <<from, pos, seen>>

\* The next fact is told.
Tell ==
    \E i \in facts :
        /\ i > pos /\ \A j \in facts : j > pos => i <= j
        /\ pos' = i
        /\ seen' = seen \cup {i}
        /\ UNCHANGED <<facts, from>>

\* Another stream begins, after a position of the client's choice.
Begin ==
    /\ facts' \subseteq Nat
    /\ from' \in Nat /\ pos' = from' /\ seen' = {}

ReaderSpec == ReaderInit /\ [][Grow \/ Tell \/ Begin]_readerVars

\* What the stream amounts to: everything up to where it is, and only that.
ToldAll == seen = {i \in facts : from < i /\ i <= pos}
=============================================================================
