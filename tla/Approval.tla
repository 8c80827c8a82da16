------------------------------- MODULE Approval -------------------------------
(* The questions the agents of one conversation ask its users: how they are   *)
(* registered with the PermissionRouter, how the receive loop takes a message *)
(* for the answer to one of them, and how time-outs, /stop, the cap on        *)
(* pending questions and aborted rounds answer the others.                    *)
(*                                                                            *)
(* A waiter is one call of handle_permission_kind_socket, handle_ask_socket   *)
(* or the permission hook of a back end.  The receive loop handles one        *)
(* message at a time and looks at the router several times on the way; each   *)
(* look is a step, because the router's lock is released in between.          *)
(*                                                                            *)
(* Abstractions.  The list of pending entries is a set with the position of   *)
(* each push.  All tools are in approval_tools, and the platform returns a    *)
(* message id for every card.  The mode "ask" stands for ask and auto-claude, *)
(* "deny" for deny and off.                                                   *)
EXTENDS Integers, FiniteSets

CONSTANTS
    Waiter,      \* the requests made in the conversation
    Asks,        \* those that are questions of a terminal agent (kind Ask)
    Hooked,      \* those made through the hook, which dies with its round
    User, Admin, \* who may answer
    Word,        \* what they say; "text" stands for words that are no decision
    InitiatorOf, \* whose round each belongs to, Nobody if that is not known
    IdOf,        \* request id of each: a back end may use one again
    Tool, ToolOf,
    Cap,         \* PENDING_PER_CONV_CAP
    Nobody,      \* no waiter, no card, no user
    MaxReplies,  \* bound: messages the users send
    MaxCancels,  \* bound: uses of /stop and /new, ends of rounds
    MaxSwitches  \* bound: changes of the permission mode

ASSUME WaiterAssumption ==
    IsFiniteSet(Waiter) /\ Nobody \notin Waiter /\ Asks \subseteq Waiter /\ Hooked \subseteq Waiter \ Asks
ASSUME UserAssumption ==
    /\ Nobody \notin User /\ Admin \subseteq User
    /\ InitiatorOf \in [Waiter -> User \cup {Nobody}] /\ \A w \in Asks : InitiatorOf[w] = Nobody
ASSUME RequestAssumption ==
    /\ ToolOf \in [Waiter -> Tool]
    /\ DOMAIN IdOf = Waiter
    /\ Word \subseteq {"allow", "always", "deny", "text"}
ASSUME ApprovalBounds ==
    Cap \in Nat \ {0} /\ MaxReplies \in Nat /\ MaxCancels \in Nat /\ MaxSwitches \in Nat

VARIABLES
    pc,        \* where each waiter is
    pending,   \* the waiters with an entry in the conversation's list
    order,     \* the position of their push
    card,      \* card_msg_id of their entries
    shown,     \* the waiters whose card reached the users
    answer,    \* what was sent into the channel of each
    outcome,   \* what each wrote back to its agent
    allows,    \* session_allows
    mode,      \* permission_mode
    rpc,       \* where the receive loop is
    reply,     \* the message in its hands
    forced,    \* its answer was replaced by a denial
    seen,      \* history: what it was for when the initiator was compared
    taken,     \* the waiter whose entry route() has taken out
    confirmed, \* what the card of each says it was answered
    audit,     \* the decision in the permission_decision audit of each
    replies, cancels, switches

waiters == <<pc, shown, outcome>>
router  == <<pending, order, card, answer, allows>>
loop    == <<rpc, reply, forced, seen, taken>>
told    == <<confirmed, audit>>
count   == <<replies, cancels, switches>>
vars    == <<waiters, router, mode, loop, told, count>>

Steps     == {"idle", "allowset", "register", "card", "unsent", "anchor", "wait",
              "expired", "cancel", "guard", "done"}
\* The receiver of the waiter's channel lives.
Listening == {"card", "unsent", "anchor", "wait", "expired"}
UserWords == {"allow", "always", "deny", "text"}
System    == {"none", "superseded", "evicted", "cancelled"}
Answers   == UserWords \cup System
Outcomes  == Answers \cup {"fixed", "auto", "unreachable", "timeout", "aborted"}
Modes     == {"ask", "allow", "deny"}
\* A terminal agent gets text, a permission request a decision.
AnswersOf(w) == System \cup (IF w \in Asks THEN {"text"} ELSE {"allow", "always", "deny"})
\* A click on a button of a card, a message that quotes another, or one that
\* does neither.
Replies   == [form : {"button", "quote", "bare"}, of : Waiter \cup {Nobody},
              word : Word \cup {"text"}, from : User \cup {Nobody}]
NoReply   == [form |-> "bare", of |-> Nobody, word |-> "text", from |-> Nobody]

Init ==
    /\ pc = [w \in Waiter |-> "idle"] /\ shown = {} /\ outcome = [w \in Waiter |-> "none"]
    /\ pending = {} /\ order = [w \in Waiter |-> 0] /\ card = [w \in Waiter |-> Nobody]
    /\ answer = [w \in Waiter |-> "none"] /\ allows = {} /\ mode = "ask"
    /\ rpc = "recv" /\ reply = NoReply /\ forced = FALSE /\ seen = {} /\ taken = Nobody
    /\ confirmed = [w \in Waiter |-> "none"] /\ audit = [w \in Waiter |-> "none"]
    /\ replies = 0 /\ cancels = 0 /\ switches = 0

-----------------------------------------------------------------------------
(* Helpers *)

Goto(w, step) == pc' = [pc EXCEPT ![w] = step]

\* What a waiter writes back.  A hook drops its PendingCancelGuard on the way
\* out, which spawns one more cancel.
Finish(w, how) ==
    /\ Goto(w, IF w \in Hooked THEN "guard" ELSE "done")
    /\ outcome' = [outcome EXCEPT ![w] = how]

\* Sending into a channel whose receiver is gone does nothing.
SendTo(W, what) == [w \in Waiter |-> IF w \in W /\ pc[w] \in Listening THEN what ELSE answer[w]]

\* Entries of the same request id; register keeps them at most one.
Same(w)   == {v \in pending : IdOf[v] = IdOf[w]}
Oldest(W) == {w \in W : \A v \in W : order[w] <= order[v]}
Newest(W) == {w \in W : \A v \in W : order[v] <= order[w]}

\* resolve_pending_idx: the entry a message is for, if any.
Exact(r) == {w \in pending : card[w] # Nobody /\ card[w] = r.of}
Hit(r) ==
    CASE r.form = "button"                     -> {w \in pending : r.of # Nobody /\ IdOf[w] = IdOf[r.of]}
      [] r.form = "quote" /\ Exact(r) # {}     -> Oldest(Exact(r))
      [] r.form = "quote" /\ Exact(r) = {}     -> IF Cardinality(pending) = 1 THEN pending ELSE {}
      [] r.form = "bare"                       -> Newest(pending)

IsExplicit(r) == r.word # "text"
\* pending_initiator_mismatch, unless an administrator answers.
IsForeign(w, user) == InitiatorOf[w] \notin {Nobody, user} /\ user \notin Admin

-----------------------------------------------------------------------------
(* The life of a question *)

\* A back end counts its requests anew in every round and never uses the id of
\* a request that it is still waiting for.
IdIsFree(w) == \A v \in Waiter : IdOf[v] = IdOf[w] => pc[v] \in {"idle", "guard", "done"}

\* The mode gate of handle_permission_kind_socket answers by itself unless
\* the mode is "ask"; the hook has no such gate, and a terminal question is
\* not subject to the mode.
Ask(w) ==
    /\ pc[w] = "idle" /\ IdIsFree(w)
    /\ \/ w \in Asks /\ Goto(w, "register") /\ UNCHANGED outcome
       \/ w \notin Asks /\ (w \in Hooked \/ mode = "ask") /\ Goto(w, "allowset") /\ UNCHANGED outcome
       \/ w \notin Asks \cup Hooked /\ mode # "ask" /\ Finish(w, "fixed")
    /\ UNCHANGED <<shown, router, mode, loop, told, count>>

\* is_session_allowed: the user has allowed the tool for the session.
CheckAllowance(w) ==
    /\ pc[w] = "allowset"
    /\ IF ToolOf[w] \in allows
       THEN Goto(w, "done") /\ outcome' = [outcome EXCEPT ![w] = "auto"]
       ELSE Goto(w, "register") /\ UNCHANGED outcome
    /\ UNCHANGED <<shown, router, mode, loop, told, count>>

\* The entry pushed out of a list that the new one would make too long.
Evicted(W) == IF Cardinality(W) >= Cap THEN Oldest(W) ELSE {}

\* The entries that stay when w is pushed.
Kept(w) == (pending \ Same(w)) \ Evicted(pending \ Same(w))

\* Mutant: an entry that is pushed out is dropped without an answer.
DisplacedSilently(w) ==
    [v \in Waiter |-> IF v \in Same(w) /\ pc[v] \in Listening THEN "superseded" ELSE answer[v]]
\* The answers of the entries that do not stay.
Displaced(w) ==
    [v \in Waiter |->
        IF pc[v] \notin Listening THEN answer[v]
        ELSE IF v \in Same(w) THEN "superseded"
        ELSE IF v \in Evicted(pending \ Same(w)) THEN "evicted" ELSE answer[v]]

\* register: the entry of the same request id is superseded, and the oldest is
\* evicted from a list that is full.
Register(w) ==
    /\ pc[w] = "register"
    /\ pending' = Kept(w) \cup {w}
    /\ answer' = Displaced(w)
    /\ order' = [order EXCEPT ![w] = 1 + Cardinality({v \in Waiter : order[v] > 0})]
    /\ card' = [card EXCEPT ![w] = Nobody]
    /\ Goto(w, "card")
    /\ UNCHANGED <<shown, outcome, allows, mode, loop, told, count>>

\* send_permission_ask succeeds or fails.
SendCard(w) ==
    /\ pc[w] = "card"
    /\ \/ Goto(w, "anchor") /\ shown' = shown \cup {w}
       \/ Goto(w, "unsent") /\ UNCHANGED shown
    /\ UNCHANGED <<outcome, router, mode, loop, told, count>>

\* set_card_msg_id: every entry of the request id.
SetAnchor(w) ==
    /\ pc[w] = "anchor"
    /\ card' = [v \in Waiter |-> IF v \in Same(w) THEN w ELSE card[v]]
    /\ Goto(w, "wait")
    /\ UNCHANGED <<shown, outcome, pending, order, answer, allows, mode, loop, told, count>>

\* The answer is there: it is written back to the agent.
Answered(w) ==
    /\ pc[w] = "wait" /\ answer[w] # "none"
    /\ Finish(w, answer[w])
    /\ UNCHANGED <<shown, router, mode, loop, told, count>>

\* Mutant: only permission requests have a time limit.
HasDeadlineNoAsk(w) == w \notin Asks
\* permission_ask_timeout, or the timeout_secs of a terminal question.
HasDeadline(w) == TRUE

\* The time is over and the channel was found empty ...
Expire(w) ==
    /\ pc[w] = "wait" /\ answer[w] = "none" /\ HasDeadline(w)
    /\ Goto(w, "expired")
    /\ UNCHANGED <<shown, outcome, router, mode, loop, told, count>>

\* ... and the receiver is dropped.
DropReceiver(w) ==
    /\ pc[w] = "expired"
    /\ Goto(w, "cancel")
    /\ UNCHANGED <<shown, outcome, router, mode, loop, told, count>>

\* Mutant: a waiter that timed out leaves its question behind.
CancelledNone(w) == {}
\* cancel: whichever entry has the request id.
Cancelled(w) == Same(w)

RouterCancel(w) ==
    /\ pending' = pending \ Cancelled(w)
    /\ answer' = SendTo(Cancelled(w), "cancelled")
    /\ UNCHANGED <<order, card, allows>>

\* Mutant: silence is consent.
AtTimeoutAllowed == "allow"
\* A denial, or an error to a terminal agent.
AtTimeout == "timeout"

\* The card could not be sent, or the time is up.
CancelOwn(w) ==
    /\ \/ pc[w] = "unsent" /\ Finish(w, "unreachable")
       \/ pc[w] = "cancel" /\ Finish(w, AtTimeout)
    /\ RouterCancel(w)
    /\ UNCHANGED <<shown, mode, loop, told, count>>

\* The cancel spawned by the guard's Drop.
GuardCancel(w) ==
    /\ pc[w] = "guard"
    /\ Goto(w, "done")
    /\ RouterCancel(w)
    /\ UNCHANGED <<shown, outcome, mode, loop, told, count>>

\* The round is aborted and the future of its hook dropped; a card that is
\* being sent may still arrive.
Abort(w) ==
    /\ w \in Hooked
    /\ \/ pc[w] \in {"allowset", "register"} /\ Goto(w, "done") /\ UNCHANGED shown
       \/ pc[w] \in {"card", "unsent", "anchor", "wait", "cancel"} /\ Goto(w, "guard") /\ UNCHANGED shown
       \/ pc[w] = "card" /\ Goto(w, "guard") /\ shown' = shown \cup {w}
    /\ outcome' = [outcome EXCEPT ![w] = "aborted"]
    /\ UNCHANGED <<router, mode, loop, told, count>>

-----------------------------------------------------------------------------
(* The receive loop.  A message it does not consume goes on to handle(). *)

\* The message goes to handle(), or it was consumed: the loop is free again.
LoopDone == rpc' = "recv" /\ reply' = NoReply /\ forced' = FALSE /\ seen' = {} /\ taken' = Nobody
LoopStep(step) == rpc' = step /\ UNCHANGED reply

\* What a user can send: the button of a card that was shown, a quotation of
\* such a card or of anything else, or a plain message.
Sendable(r) ==
    /\ r.from # Nobody /\ r.word \in Word
    /\ r.form = "button" => r.of \in shown
    /\ r.form = "quote"  => r.of \in shown \cup {Nobody}
    /\ r.form = "bare"   => r.of = Nobody

\* A message of an authorised user arrives: a click is consumable, a quotation
\* if it is a decision word or hits a card, a plain message if it is a
\* decision word and no more than one question is pending.
Deliver(r) ==
    /\ rpc = "recv" /\ Sendable(r)
    /\ r.form = "bare" => IsExplicit(r)
    /\ replies < MaxReplies /\ replies' = replies + 1
    /\ reply' = r
    /\ rpc' = CASE r.form = "button"                    -> "block"
               [] r.form = "quote" /\ IsExplicit(r)   -> "block"
               [] r.form = "quote" /\ ~IsExplicit(r)  -> "gateAnchor"
               [] r.form = "bare"                     -> "gateCount"
    /\ UNCHANGED <<waiters, router, mode, forced, seen, taken, told, cancels, switches>>

\* reply_anchor_hits_card, and pending_count.
Gate ==
    /\ \/ rpc = "gateAnchor" /\ Exact(reply) # {}
       \/ rpc = "gateCount" /\ Cardinality(pending) <= 1
    /\ LoopStep("block")
    /\ UNCHANGED <<waiters, router, mode, forced, seen, taken, told, count>>

GateClosed ==
    /\ \/ rpc = "gateAnchor" /\ Exact(reply) = {}
       \/ rpc = "gateCount" /\ Cardinality(pending) > 1
    /\ LoopDone
    /\ UNCHANGED <<waiters, router, mode, told, count>>

\* Mutant: the oldest question is looked at, whatever the message is for.
BlockedByOldest(r) == \E w \in Oldest(pending) : IsForeign(w, r.from)
\* permission_initiator_block
Blocked(r) == \E w \in Hit(r) : IsForeign(w, r.from)

\* A question that somebody else caused is left alone.
InitiatorCheck ==
    /\ rpc = "block"
    /\ IF Blocked(reply)
       THEN LoopDone
       ELSE LoopStep("mode") /\ seen' = Hit(reply) /\ UNCHANGED <<forced, taken>>
    /\ UNCHANGED <<waiters, router, mode, told, count>>

Permits == reply.word \in {"allow", "always"}

\* A mode that does not ask turns a permission into a denial, if the question
\* may be one of permission.
ModeCheck ==
    /\ rpc = "mode"
    /\ forced' = (Permits /\ mode = "deny" /\ pending \ Asks # {})
    /\ LoopStep("take")
    /\ UNCHANGED <<waiters, router, mode, seen, taken, told, count>>

\* Mutant: the entry stays in the list.
RemainingAll(w) == pending
\* The list without the entry that is answered.
Remaining(w) == pending \ {w}

\* route, under the lock: the entry is taken out, and "always" is remembered.
RouteTake(w) ==
    /\ rpc = "take" /\ w \in Hit(reply)
    /\ pending' = Remaining(w)
    /\ taken' = w
    /\ allows' = IF reply.word = "always" /\ ~forced /\ w \notin Asks THEN allows \cup {ToolOf[w]} ELSE allows
    /\ LoopStep("send")
    /\ UNCHANGED <<waiters, order, card, answer, mode, forced, seen, told, count>>

RouteMisses ==
    /\ rpc = "take" /\ Hit(reply) = {}
    /\ LoopDone
    /\ UNCHANGED <<waiters, router, mode, told, count>>

\* Mutant: a terminal question is answered like a permission request.
AnswerToAny(w) == IF Permits /\ ~forced THEN reply.word ELSE "deny"
\* What the answer means to a waiter: a terminal agent gets the text, and to
\* a permission request everything that does not permit is a denial.
AnswerTo(w) ==
    CASE w \in Asks                          -> "text"
      [] w \notin Asks /\ Permits /\ ~forced  -> reply.word
      [] w \notin Asks /\ ~(Permits /\ ~forced) -> "deny"

\* Mutant: the card shows what the user said.
ShownOnCardSaid(w) == IF w \in Asks THEN "text" ELSE IF Permits THEN reply.word ELSE "deny"
\* resolve_permission_ask: the card shows the answer that was delivered.
ShownOnCard(w) == AnswerTo(w)
\* parse_decision of the message goes into the audit.
Audited == IF Permits THEN reply.word ELSE "deny"

\* route, after the lock: the answer is sent.  Without a receiver the message
\* counts as not consumed.
RouteSend ==
    /\ rpc = "send"
    /\ answer' = SendTo({taken}, AnswerTo(taken))
    /\ IF pc[taken] \in Listening
       THEN /\ confirmed' = [confirmed EXCEPT ![taken] = ShownOnCard(taken)]
            /\ audit' = IF taken \in Asks THEN audit ELSE [audit EXCEPT ![taken] = Audited]
       ELSE UNCHANGED told
    /\ LoopDone
    /\ UNCHANGED <<waiters, pending, order, card, allows, mode, count>>

-----------------------------------------------------------------------------
(* The rest of the program *)

\* cancel_all: /stop, and every round that does not end well.
CancelAll ==
    /\ cancels < MaxCancels /\ cancels' = cancels + 1
    /\ pending' = {} /\ answer' = SendTo(pending, "cancelled")
    /\ UNCHANGED <<waiters, order, card, allows, mode, loop, told, replies, switches>>

\* clear_session_allows: "/stop all", /new and /resume.
ClearAllows ==
    /\ cancels < MaxCancels /\ cancels' = cancels + 1
    /\ allows' = {}
    /\ UNCHANGED <<waiters, pending, order, card, answer, mode, loop, told, replies, switches>>

\* /perm, or a reload of the configuration.
SetMode(m) ==
    /\ switches < MaxSwitches /\ switches' = switches + 1
    /\ mode' = m
    /\ UNCHANGED <<waiters, router, loop, told, replies, cancels>>

-----------------------------------------------------------------------------

WaiterStep(w) ==
    \/ CheckAllowance(w) \/ Register(w) \/ SendCard(w) \/ SetAnchor(w) \/ Answered(w)
    \/ Expire(w) \/ DropReceiver(w) \/ CancelOwn(w) \/ GuardCancel(w)

LoopRuns ==
    Gate \/ GateClosed \/ InitiatorCheck \/ ModeCheck \/ RouteMisses \/ RouteSend
    \/ \E w \in Waiter : RouteTake(w)

Next ==
    \/ \E w \in Waiter : Ask(w) \/ WaiterStep(w) \/ Abort(w)
    \/ \E r \in Replies : Deliver(r)
    \/ LoopRuns
    \/ CancelAll \/ ClearAllows \/ \E m \in Modes \ {mode} : SetMode(m)

Spec == Init /\ [][Next]_vars

\* The runtime polls every waiter, a send to the platform ends (its client has
\* a timeout), and so does every wait for an answer.
FairSpec == Spec /\ \A w \in Waiter : WF_vars(WaiterStep(w))

-----------------------------------------------------------------------------

TypeOK ==
    /\ pc \in [Waiter -> Steps] /\ shown \subseteq Waiter /\ outcome \in [Waiter -> Outcomes]
    /\ pending \subseteq Waiter /\ order \in [Waiter -> Nat] /\ card \in [Waiter -> Waiter \cup {Nobody}]
    /\ answer \in [Waiter -> Answers] /\ \A w \in Waiter : answer[w] \in AnswersOf(w)
    /\ allows \subseteq Tool /\ mode \in Modes
    /\ rpc \in {"recv", "gateAnchor", "gateCount", "block", "mode", "take", "send"}
    /\ reply \in Replies /\ forced \in BOOLEAN /\ seen \subseteq Waiter /\ taken \in Waiter \cup {Nobody}
    /\ confirmed \in [Waiter -> Answers] /\ audit \in [Waiter -> Answers]
    /\ replies \in Nat /\ cancels \in Nat /\ switches \in Nat

\* A waiter that listens and has no answer can still get one: its entry is in
\* the list, or the receive loop has it in its hands.  Whatever takes an entry
\* out (an answer, a newcomer, the cap, /stop, a cancel by request id) answers
\* it.
NoLostQuestion ==
    \A w \in Waiter : pc[w] \in Listening /\ answer[w] = "none" => w \in pending \/ w = taken

\* An entry in the list belongs to a waiter that has not left: a message is not
\* consumed for a question that nobody asks any more.
NoGhostQuestion ==
    \A w \in pending : pc[w] \in Listening \cup {"cancel", "guard"} /\ answer[w] = "none"

\* What its card says of a question is what its agent gets, however the answer
\* races with the time-out, /stop and newcomers; only a waiter that was leaving
\* by itself when the answer came may have missed it.
ConfirmedIsObeyed ==
    \A w \in Waiter : confirmed[w] # "none" /\ outcome[w] # "none" =>
        outcome[w] \in {confirmed[w], "timeout", "unreachable", "aborted"}

\* No permission without a user: an agent goes on only if a card says so.
PermittedByUser ==
    \A w \in Waiter : outcome[w] \in {"allow", "always"} => confirmed[w] = outcome[w]

\* An answer that was sent is never replaced by another.
DecisionIsFinal ==
    [][\A w \in Waiter : answer[w] # "none" => answer'[w] = answer[w]]_vars

\* A user who neither caused the round nor administers answers its question
\* only if the message was for another one when that was checked (the two
\* looks at the list may differ, as pending_initiator_mismatch says).
InitiatorDecides ==
    [][\A w \in Waiter : answer'[w] # answer[w] /\ answer'[w] \in UserWords
          => ~IsForeign(w, reply.from) \/ w \notin seen]_vars

\* Every request is answered in the end.
EveryQuestionEnds == \A w \in Waiter : pc[w] # "idle" ~> pc[w] = "done"

\* The audit of a permission names the decision that was delivered.
AuditTellsDecision ==
    \A w \in Waiter : audit[w] # "none" => audit[w] = confirmed[w]

\* The router, its channels and the receive loop do what Questions promises: one
\* decision for each question, the one its card says, and no permission but by
\* a user's decision or grant.
Promise == INSTANCE Questions WITH asked <- {w \in Waiter : pc[w] # "idle"},
                                   decision <- answer, granted <- allows
ImplementsQuestions == Promise!Spec

=============================================================================
