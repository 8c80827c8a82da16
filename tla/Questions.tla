------------------------------ MODULE Questions ------------------------------
(* What the approval of tools promises to agents and users, without the list  *)
(* of entries, the channels, the time limits and the receive loop: a question *)
(* is decided once, its card says what a user decided, and the agent gets     *)
(* that decision or is told that nobody gave one.  A tool is let through      *)
(* without a question only after a user was asked about it.                   *)

CONSTANTS
    Waiter,        \* the requests
    Asks,          \* those that are questions of a terminal agent
    Tool, ToolOf

VARIABLES
    asked,         \* the requests that were made
    decision,      \* the answer of each, "none" at first
    confirmed,     \* what its card says a user answered
    outcome,       \* what its agent got
    granted        \* the tools allowed for the session

vars == <<asked, decision, confirmed, outcome, granted>>

Withdrawals == {"superseded", "evicted", "cancelled"}
Verdicts(w) == IF w \in Asks THEN {"text"} ELSE {"allow", "always", "deny"}
Decisions   == {"none", "text", "allow", "always", "deny"} \cup Withdrawals

Open(w) == w \in asked /\ outcome[w] = "none"

Init ==
    /\ asked = {} /\ granted = {}
    /\ decision = [w \in Waiter |-> "none"] /\ confirmed = [w \in Waiter |-> "none"]
    /\ outcome = [w \in Waiter |-> "none"]

\* A request is made; the permission mode may answer it at once.
Ask(w) ==
    /\ w \notin asked /\ asked' = asked \cup {w}
    /\ \/ UNCHANGED outcome
       \/ w \notin Asks /\ outcome' = [outcome EXCEPT ![w] = "fixed"]
    /\ UNCHANGED <<decision, confirmed, granted>>

\* A user decides an open question, and its card says so.
Decide(w, verdict) ==
    /\ Open(w) /\ decision[w] = "none"
    /\ decision' = [decision EXCEPT ![w] = verdict]
    /\ confirmed' = [confirmed EXCEPT ![w] = verdict]
    /\ UNCHANGED <<asked, outcome, granted>>

\* The program answers open questions itself, but none that is decided.
Withdrawn ==
    /\ decision' \in [Waiter -> Decisions]
    /\ \A w \in Waiter : decision'[w] # decision[w] =>
          Open(w) /\ decision[w] = "none" /\ decision'[w] \in Withdrawals
Withdraw == Withdrawn /\ UNCHANGED <<asked, confirmed, outcome, granted>>

\* The agent gets the decision ...
Conclude(w) ==
    /\ Open(w) /\ decision[w] # "none"
    /\ outcome' = [outcome EXCEPT ![w] = decision[w]]
    /\ UNCHANGED <<asked, decision, confirmed, granted>>

\* ... or learns that there is none, which may withdraw other questions.
GiveUp(w, how) ==
    /\ Open(w) /\ outcome' = [outcome EXCEPT ![w] = how] /\ Withdrawn
    /\ UNCHANGED <<asked, confirmed, granted>>

\* The tool is allowed for the session: nobody is asked.
LetThrough(w) ==
    /\ Open(w) /\ w \notin Asks /\ decision[w] = "none" /\ ToolOf[w] \in granted
    /\ outcome' = [outcome EXCEPT ![w] = "auto"]
    /\ UNCHANGED <<asked, decision, confirmed, granted>>

\* "Always" grants the tool of the question that is answered, and of no other.
Grant(w) ==
    /\ w \in asked \ Asks /\ decision[w] = "none"
    /\ granted' = granted \cup {ToolOf[w]}
    /\ UNCHANGED <<asked, decision, confirmed, outcome>>
Revoke ==
    granted' = {} /\ UNCHANGED <<asked, decision, confirmed, outcome>>

Next ==
    \/ \E w \in Waiter :
          \/ Ask(w) \/ Conclude(w) \/ LetThrough(w) \/ Grant(w)
          \/ \E verdict \in Verdicts(w) : Decide(w, verdict)
          \/ \E how \in {"timeout", "unreachable", "aborted"} : GiveUp(w, how)
    \/ Withdraw \/ Revoke

Spec == Init /\ [][Next]_vars
=============================================================================
