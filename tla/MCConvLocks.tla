----------------------------- MODULE MCConvLocks -----------------------------
EXTENDS ConvLocks

CONSTANTS r1, r2, r3, c1, x, y, l1, l2, l3, l4

Tasks    == {r1, r2, r3, c1}
Runners  == {r1, r2, r3}
Convs    == {x, y}
\* Only one runner works on the other conversation.
Convs2   == [t \in Tasks |-> IF t = r3 THEN y ELSE x]
Locks    == {l1, l2, l3, l4}
Limits   == {0, 1}
=============================================================================
