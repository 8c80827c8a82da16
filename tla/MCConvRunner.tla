----------------------------- MODULE MCConvRunner -----------------------------
(* Instances of ConvRunner for TLC: model values and symmetry. *)
EXTENDS ConvRunner, TLC
CONSTANTS m1, m2, s1

TwoMessages   == {m1, m2}
None          == {}
OneSteerable  == {m1}
TheOther      == {m2}
OneStop       == {s1}

\* Messages that no constant tells apart are interchangeable.
MessageSymmetry == Permutations(Msg \ (Steerable \cup MediaOnly \cup Removable))

=============================================================================
