------------------------------- MODULE MCOutbox -------------------------------
(* Instances of Outbox for TLC: two messages of WeCom, one of Feishu. *)
EXTENDS Outbox
CONSTANTS w1, w2, f1, wecom, feishu

Messages == {w1, w2, f1}
Kinds    == {wecom, feishu}
KindOfMessage == [m \in Messages |-> IF m = f1 THEN feishu ELSE wecom]
ChunksOf == [m \in Messages |-> IF m = w1 THEN 2 ELSE 1]
Calls    == {feishu}
Comments == {}
Configs  == {{wecom, feishu}, {feishu}}

=============================================================================
