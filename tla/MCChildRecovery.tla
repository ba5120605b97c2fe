--------------------------- MODULE MCChildRecovery ---------------------------
EXTENDS ChildRecovery

CONSTANTS w1, w2, l1, l2

\* The commands that differ for the child: a control for it or its parent, a
\* sibling's control, and a decision on its own effect.
SentToAll == {<<"cancel", "parent">>, <<"cancel", "other">>, <<"deny", "child">>, <<"allow", "child">>}

\* Lease ids are interchangeable: l1 is issued before l2.
Ordered == l2 \in issued => l1 \in issued
=============================================================================
