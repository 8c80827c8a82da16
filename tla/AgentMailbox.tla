---------------------------- MODULE AgentMailbox -----------------------------
(* What a conversation of the gateway promises, without saying how: messages  *)
(* wait, the agent works on one batch of waiting messages at a time, and a    *)
(* message that was settled stays settled, so that it is never given to the   *)
(* agent a second time.  Only a crash loses a waiting message, and only a     *)
(* message whose stored record outlived it may come back.                     *)
CONSTANT Msg

VARIABLES
    status,   \* what the sender of each message may rely on
    escaped   \* messages whose stored record was not deleted in time

Status == {"new", "waiting", "running", "settled", "lost"}

Init == status = [m \in Msg |-> "new"] /\ escaped = {}

Become(B, s) == status' = [m \in Msg |-> IF m \in B THEN s ELSE status[m]]
With(s)      == {m \in Msg : status[m] = s}

Accept(m) == status[m] = "new" /\ Become({m}, "waiting") /\ UNCHANGED escaped

\* The agent takes a batch; nothing else is running.
Start(B) ==
    /\ With("running") = {} /\ B # {} /\ B \subseteq With("waiting")
    /\ Become(B, "running") /\ UNCHANGED escaped

\* The round is over, whatever its outcome.
Finish == With("running") # {} /\ Become(With("running"), "settled") /\ UNCHANGED escaped

\* Waiting messages are stopped, refused, dropped, recalled, or steered into
\* the round that is running.
Dismiss(B) ==
    B # {} /\ B \subseteq With("waiting") /\ Become(B, "settled") /\ UNCHANGED escaped

\* Deleting the record of a message fails.
Escape(B) == escaped' = escaped \cup B /\ UNCHANGED status

\* A crash ends the round and loses waiting messages that had no record.
Crash(L, B) ==
    /\ L \subseteq With("waiting")
    /\ status' = [m \in Msg |-> IF m \in L THEN "lost"
                                ELSE IF status[m] = "running" THEN "settled" ELSE status[m]]
    /\ escaped' = escaped \cup B

Reopen(m) ==
    status[m] = "settled" /\ m \in escaped /\ Become({m}, "waiting") /\ UNCHANGED escaped

Next ==
    \/ \E m \in Msg : Accept(m) \/ Reopen(m)
    \/ \E B \in SUBSET Msg : Start(B) \/ Dismiss(B) \/ Escape(B)
    \/ Finish
    \/ \E L, B \in SUBSET Msg : Crash(L, B)

Spec == Init /\ [][Next]_<<status, escaped>>

=============================================================================
