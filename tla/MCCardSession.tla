---------------------------- MODULE MCCardSession ----------------------------
(* Instances of CardSession for TLC. *)
EXTENDS CardSession
CONSTANTS feishu, web

Both      == {feishu, web}
JustOne   == {feishu}
\* Feishu makes card entities (plain cards in threads, left to the web here).
CardsOf   == [p \in Both |-> {p = feishu}]
Entities  == [p \in JustOne |-> {TRUE}]

=============================================================================
