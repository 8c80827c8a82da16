------------------------------ MODULE ConvMutex ------------------------------
(* A mutex per conversation: what the runner and the session commands rely on *)
(* when they work on one.                                                     *)
CONSTANTS Conv, Task, ConvOf

VARIABLE inside   \* the tasks that work on their conversation

Init == inside = {}

Enter(t) ==
    /\ t \notin inside /\ \A u \in inside : ConvOf[u] # ConvOf[t]
    /\ inside' = inside \cup {t}

Leave(t) == t \in inside /\ inside' = inside \ {t}

Next == \E t \in Task : Enter(t) \/ Leave(t)

Spec == Init /\ [][Next]_inside

=============================================================================
