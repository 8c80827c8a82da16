------------------------------ MODULE MCApproval ------------------------------
EXTENDS Approval, TLC

CONSTANTS w1, w2, w3, alice, bob, root, bash

OneUser     == {alice}
TwoUsers    == {alice, bob}
Nothing     == {}
TwoWords    == {"always", "text"}
OneWord     == {"always"}
AllWords    == {"allow", "always", "deny", "text"}
LastTwo     == {w2, w3}
FirstTwo    == {w1, w2}
ThreeAsked  == {w1, w2, w3}
Third       == {w3}
OneTool     == {bash}
ByAlice     == [w \in Waiter |-> IF w \in Asks THEN Nobody ELSE alice]
AllOneTool  == [w \in Waiter |-> bash]
\* The first two are of rounds whose back end counts its requests anew.
ReusedIds   == [w \in Waiter |-> IF w = w3 THEN 2 ELSE 1]
\* The first two differ in nothing.
Symmetry    == Permutations(FirstTwo)
=============================================================================
