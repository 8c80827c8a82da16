------------------------------ MODULE MCRelayHub ------------------------------
(* An instance of RelayHub for TLC: two connections of gateways, of the same  *)
(* or of two machines, and two browser connections of one session.            *)
EXTENDS RelayHub, TLC
CONSTANTS g1, g2, b1, b2, home, work, phone

Gateways == {g1, g2}
Browsers == {b1, b2}
Machines == {home, work}
Sessions == {phone}
SessionOfBrowser == [b \in Browsers |-> phone]

Symmetry == Permutations(Gateways) \cup Permutations(Browsers) \cup Permutations(Machines)

=============================================================================
