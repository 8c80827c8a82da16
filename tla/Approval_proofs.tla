---------------------------- MODULE Approval_proofs ----------------------------
(* Theorems about Approval: no question is lost, none outlives its waiter, and *)
(* the answer that was shown is the one that the agent got.                    *)
EXTENDS Approval, FiniteSetTheorems, TLAPS

USE DEF waiters, router, loop, told, count

-----------------------------------------------------------------------------
(* Types *)

\* The entry that a message is for is one of the list.
LEMMA HitIsPending == ASSUME NEW r \in Replies PROVE Hit(r) \subseteq pending
  BY DEF Hit, Exact, Oldest, Newest, Replies

LEMMA CardinalityOfWaiters == ASSUME NEW S \in SUBSET Waiter PROVE Cardinality(S) \in Nat
  BY WaiterAssumption, FS_Subset, FS_CardinalityType

LEMMA NoReplyType == NoReply \in Replies
  BY DEF NoReply, Replies

LEMMA TypeInit == Init => TypeOK
  <1> SUFFICES ASSUME Init PROVE TypeOK
      OBVIOUS
  <1> USE DEF Init, Outcomes, Answers, UserWords, System
  <1>1. /\ pc \in [Waiter -> Steps] /\ shown \subseteq Waiter /\ outcome \in [Waiter -> Outcomes]
        /\ card \in [Waiter -> Waiter \cup {Nobody}] /\ order \in [Waiter -> Nat]
      BY DEF Steps
  <1>2. /\ answer \in [Waiter -> Answers] /\ confirmed \in [Waiter -> Answers]
        /\ audit \in [Waiter -> Answers]
      OBVIOUS
  <1>3. \A w \in Waiter : answer[w] \in AnswersOf(w)
      BY DEF AnswersOf
  <1>4. reply \in Replies /\ taken \in Waiter \cup {Nobody} /\ mode \in Modes
      BY NoReplyType DEF Modes
  <1>5. pending \subseteq Waiter /\ seen \subseteq Waiter /\ allows \subseteq Tool
      OBVIOUS
  <1> QED BY <1>1, <1>2, <1>3, <1>4, <1>5 DEF TypeOK

LEMMA TypeStep == TypeOK /\ [Next]_vars => TypeOK'
  <1> SUFFICES ASSUME TypeOK, [Next]_vars PROVE TypeOK'
      OBVIOUS
  <1> USE DEF TypeOK, Steps, Outcomes, Answers, AnswersOf, UserWords, System, Modes
  <1>1. ASSUME NEW w \in Waiter, Ask(w) \/ WaiterStep(w) \/ Abort(w) PROVE TypeOK'
    <2>1. CASE Ask(w)
        BY <2>1, WaiterAssumption DEF Ask, Finish, Goto
    <2>2. CASE CheckAllowance(w)
        BY <2>2 DEF CheckAllowance, Goto
    <2>3. CASE Register(w)
      <3>1. 1 + Cardinality({v \in Waiter : order[v] > 0}) \in Nat
          BY CardinalityOfWaiters
      <3> QED BY <3>1, <2>3 DEF Register, Goto, Kept, Displaced, Same
    <2>4. CASE SendCard(w)
        BY <2>4 DEF SendCard, Goto
    <2>5. CASE SetAnchor(w)
        BY <2>5 DEF SetAnchor, Goto, Same
    <2>6. CASE Answered(w)
        BY <2>6 DEF Answered, Finish, Goto
    <2>7. CASE Expire(w)
        BY <2>7 DEF Expire, Goto
    <2>8. CASE DropReceiver(w)
        BY <2>8 DEF DropReceiver, Goto
    <2>9. CASE CancelOwn(w)
        BY <2>9 DEF CancelOwn, Finish, Goto, RouterCancel, Cancelled, Same, SendTo,
             AtTimeout
    <2>10. CASE GuardCancel(w)
        BY <2>10 DEF GuardCancel, Goto, RouterCancel, Cancelled, Same, SendTo
    <2>11. CASE Abort(w)
        BY <2>11 DEF Abort, Goto
    <2> QED BY <1>1, <2>1, <2>2, <2>3, <2>4, <2>5, <2>6, <2>7, <2>8, <2>9, <2>10,
         <2>11 DEF WaiterStep
  <1>2. ASSUME NEW r \in Replies, Deliver(r) PROVE TypeOK'
      <2>1. r.form \in {"button", "quote", "bare"}
          BY DEF Replies
      <2>2. rpc' = CASE r.form = "button"                    -> "block"
                     [] r.form = "quote" /\ IsExplicit(r)   -> "block"
                     [] r.form = "quote" /\ ~IsExplicit(r)  -> "gateAnchor"
                     [] r.form = "bare"                     -> "gateCount"
          BY <1>2 DEF Deliver
      <2>3. rpc' \in {"block", "gateAnchor", "gateCount"}
          BY <2>1, <2>2 DEF IsExplicit
      <2>4. reply' \in Replies /\ replies' \in Nat
          BY <1>2 DEF Deliver
      <2>5. UNCHANGED <<waiters, router, mode, forced, seen, taken, told, cancels,
           switches>>
          BY <1>2 DEF Deliver
      <2> QED BY <2>3, <2>4, <2>5
  <1>3. ASSUME NEW w \in Waiter, RouteTake(w) PROVE TypeOK'
      BY <1>3, RequestAssumption DEF RouteTake, LoopStep, Remaining
  <1>4. CASE Gate \/ GateClosed \/ InitiatorCheck \/ ModeCheck \/ RouteMisses
       \/ RouteSend \/ CancelAll \/ ClearAllows
    <2>1. CASE Gate
        BY <2>1 DEF Gate, LoopStep
    <2>2. CASE GateClosed
        BY <2>2, NoReplyType DEF GateClosed, LoopDone
    <2>3. CASE InitiatorCheck
        BY <2>3, NoReplyType, HitIsPending DEF InitiatorCheck, LoopDone, LoopStep
    <2>4. CASE ModeCheck
        BY <2>4 DEF ModeCheck, LoopStep
    <2>5. CASE RouteMisses
        BY <2>5, NoReplyType DEF RouteMisses, LoopDone
    <2>6. CASE RouteSend
      <3>1. reply.word \in Word \cup {"text"} /\ Word \subseteq UserWords
          BY RequestAssumption DEF Replies
      <3>2. \A w \in Waiter : AnswerTo(w) \in AnswersOf(w) /\ ShownOnCard(w) \in Answers /\ Audited \in Answers
          BY <3>1 DEF AnswerTo, ShownOnCard, Audited, Permits
      <3> HIDE DEF AnswersOf
      <3>3. answer' \in [Waiter -> Answers] /\ \A w \in Waiter : answer'[w] \in AnswersOf(w)
          BY <3>2, <2>6 DEF RouteSend, SendTo, AnswersOf
      <3>4. confirmed' \in [Waiter -> Answers] /\ audit' \in [Waiter -> Answers]
          BY <3>2, <2>6 DEF RouteSend
      <3> QED BY <3>3, <3>4, <2>6, NoReplyType DEF RouteSend, LoopDone
    <2>7. CASE CancelAll
        BY <2>7 DEF CancelAll, SendTo
    <2>8. CASE ClearAllows
        BY <2>8 DEF ClearAllows
    <2> QED BY <1>4, <2>1, <2>2, <2>3, <2>4, <2>5, <2>6, <2>7, <2>8
  <1>5. ASSUME NEW m \in Modes, SetMode(m) PROVE TypeOK'
      BY <1>5 DEF SetMode
  <1>6. CASE UNCHANGED vars
      BY <1>6 DEF vars
  <1> QED BY <1>1, <1>2, <1>3, <1>4, <1>5, <1>6 DEF Next, LoopRuns

\* Every variable keeps its type.
THEOREM ApprovalTypeCorrect == Spec => []TypeOK
  BY TypeInit, TypeStep, PTL DEF Spec

-----------------------------------------------------------------------------
(* The list and the channels *)

\* Nothing is sent to a waiter before its entry is in the list.
EarlyIsSilent == \A w \in Waiter : pc[w] \in {"idle", "allowset", "register"} => answer[w] = "none"

\* The entry that the receive loop has taken out is of a waiter that was in
\* the list and has no answer yet.
TakenIsOpen ==
    /\ rpc # "send" => taken = Nobody
    /\ taken # Nobody => /\ taken \notin pending /\ answer[taken] = "none"
                         /\ pc[taken] \in Listening \cup {"cancel", "guard", "done"}

ListInv == EarlyIsSilent /\ NoGhostQuestion /\ TakenIsOpen /\ NoLostQuestion

LEMMA ListInit == Init => ListInv
  BY DEF Init, ListInv, EarlyIsSilent, NoGhostQuestion, TakenIsOpen, NoLostQuestion, Listening

LEMMA ListStep == TypeOK /\ ListInv /\ [Next]_vars => ListInv'
  <1> SUFFICES ASSUME TypeOK, ListInv, [Next]_vars PROVE ListInv'
      OBVIOUS
  <1> USE DEF TypeOK, Steps, ListInv, EarlyIsSilent, NoGhostQuestion, TakenIsOpen,
       NoLostQuestion, Listening
  <1>1. ASSUME NEW w \in Waiter, Ask(w) \/ WaiterStep(w) \/ Abort(w) PROVE ListInv'
    <2>1. CASE Ask(w)
        BY <2>1 DEF Ask, Finish, Goto
    <2>2. CASE CheckAllowance(w)
        BY <2>2 DEF CheckAllowance, Goto
    <2>3. CASE Register(w)
        BY <2>3 DEF Register, Goto, Kept, Displaced, Same, Evicted, Oldest
    <2>4. CASE SendCard(w)
        BY <2>4 DEF SendCard, Goto
    <2>5. CASE SetAnchor(w)
        BY <2>5 DEF SetAnchor, Goto, Same
    <2>6. CASE Answered(w)
        BY <2>6 DEF Answered, Finish, Goto
    <2>7. CASE Expire(w)
        BY <2>7 DEF Expire, Goto
    <2>8. CASE DropReceiver(w)
        BY <2>8 DEF DropReceiver, Goto
    <2>9. CASE CancelOwn(w)
        BY <2>9 DEF CancelOwn, Finish, Goto, RouterCancel, Cancelled, Same, SendTo,
             AtTimeout
    <2>10. CASE GuardCancel(w)
        BY <2>10 DEF GuardCancel, Goto, RouterCancel, Cancelled, Same, SendTo
    <2>11. CASE Abort(w)
        BY <2>11 DEF Abort, Goto
    <2> QED BY <1>1, <2>1, <2>2, <2>3, <2>4, <2>5, <2>6, <2>7, <2>8, <2>9, <2>10,
         <2>11 DEF WaiterStep
  <1>2. ASSUME NEW r \in Replies, Deliver(r) PROVE ListInv'
      BY <1>2 DEF Deliver
  <1>3. ASSUME NEW w \in Waiter, RouteTake(w) PROVE ListInv'
      BY <1>3, WaiterAssumption, HitIsPending DEF RouteTake, LoopStep, Remaining
  <1>4. CASE Gate \/ GateClosed \/ InitiatorCheck \/ ModeCheck \/ RouteMisses
       \/ RouteSend \/ CancelAll \/ ClearAllows
    <2>1. CASE Gate
        BY <2>1 DEF Gate, LoopStep
    <2>2. CASE GateClosed
        BY <2>2 DEF GateClosed, LoopDone
    <2>3. CASE InitiatorCheck
        BY <2>3 DEF InitiatorCheck, LoopDone, LoopStep
    <2>4. CASE ModeCheck
        BY <2>4 DEF ModeCheck, LoopStep
    <2>5. CASE RouteMisses
        BY <2>5 DEF RouteMisses, LoopDone
    <2>6. CASE RouteSend
        BY <2>6, WaiterAssumption DEF RouteSend, LoopDone, SendTo, AnswerTo, Permits
    <2>7. CASE CancelAll
        BY <2>7 DEF CancelAll, SendTo
    <2>8. CASE ClearAllows
        BY <2>8 DEF ClearAllows
    <2> QED BY <1>4, <2>1, <2>2, <2>3, <2>4, <2>5, <2>6, <2>7, <2>8
  <1>5. ASSUME NEW m \in Modes, SetMode(m) PROVE ListInv'
      BY <1>5 DEF SetMode
  <1>6. CASE UNCHANGED vars
      BY <1>6 DEF vars
  <1> QED BY <1>1, <1>2, <1>3, <1>4, <1>5, <1>6 DEF Next, LoopRuns

LEMMA AnswerIsFinal == TypeOK /\ ListInv /\ [Next]_vars => \A v \in Waiter : answer[v] # "none" => answer'[v] = answer[v]
  <1> SUFFICES ASSUME TypeOK, ListInv,
       [Next]_vars PROVE \A v \in Waiter : answer[v] # "none" => answer'[v] = answer[v]
      OBVIOUS
  <1> USE DEF TypeOK, ListInv, NoGhostQuestion, TakenIsOpen
  <1>1. ASSUME NEW w \in Waiter,
       Ask(w) \/ WaiterStep(w)
            \/ Abort(w) PROVE \A v \in Waiter : answer[v] # "none" => answer'[v] = answer[v]
    <2>1. CASE Ask(w)
        BY <2>1 DEF Ask, Finish, Goto
    <2>2. CASE CheckAllowance(w)
        BY <2>2 DEF CheckAllowance, Goto
    <2>3. CASE Register(w)
        BY <2>3 DEF Register, Goto, Kept, Displaced, Same, Evicted, Oldest
    <2>4. CASE SendCard(w)
        BY <2>4 DEF SendCard, Goto
    <2>5. CASE SetAnchor(w)
        BY <2>5 DEF SetAnchor, Goto, Same
    <2>6. CASE Answered(w)
        BY <2>6 DEF Answered, Finish, Goto
    <2>7. CASE Expire(w)
        BY <2>7 DEF Expire, Goto
    <2>8. CASE DropReceiver(w)
        BY <2>8 DEF DropReceiver, Goto
    <2>9. CASE CancelOwn(w)
        BY <2>9 DEF CancelOwn, Finish, Goto, RouterCancel, Cancelled, Same, SendTo,
             AtTimeout
    <2>10. CASE GuardCancel(w)
        BY <2>10 DEF GuardCancel, Goto, RouterCancel, Cancelled, Same, SendTo
    <2>11. CASE Abort(w)
        BY <2>11 DEF Abort, Goto
    <2> QED BY <1>1, <2>1, <2>2, <2>3, <2>4, <2>5, <2>6, <2>7, <2>8, <2>9, <2>10,
         <2>11 DEF WaiterStep
  <1>2. ASSUME NEW r \in Replies,
       Deliver(r) PROVE \A v \in Waiter : answer[v] # "none" => answer'[v] = answer[v]
      BY <1>2 DEF Deliver
  <1>3. ASSUME NEW w \in Waiter,
       RouteTake(w) PROVE \A v \in Waiter : answer[v] # "none" => answer'[v] = answer[v]
      BY <1>3 DEF RouteTake, LoopStep, Remaining
  <1>4. CASE Gate \/ GateClosed \/ InitiatorCheck \/ ModeCheck \/ RouteMisses
       \/ RouteSend \/ CancelAll \/ ClearAllows
    <2>1. CASE Gate
        BY <2>1 DEF Gate, LoopStep
    <2>2. CASE GateClosed
        BY <2>2 DEF GateClosed, LoopDone
    <2>3. CASE InitiatorCheck
        BY <2>3 DEF InitiatorCheck, LoopDone, LoopStep
    <2>4. CASE ModeCheck
        BY <2>4 DEF ModeCheck, LoopStep
    <2>5. CASE RouteMisses
        BY <2>5 DEF RouteMisses, LoopDone
    <2>6. CASE RouteSend
        BY <2>6, WaiterAssumption DEF RouteSend, LoopDone, SendTo
    <2>7. CASE CancelAll
        BY <2>7 DEF CancelAll, SendTo
    <2>8. CASE ClearAllows
        BY <2>8 DEF ClearAllows
    <2> QED BY <1>4, <2>1, <2>2, <2>3, <2>4, <2>5, <2>6, <2>7, <2>8
  <1>5. ASSUME NEW m \in Modes,
       SetMode(m) PROVE \A v \in Waiter : answer[v] # "none" => answer'[v] = answer[v]
      BY <1>5 DEF SetMode
  <1>6. CASE UNCHANGED vars
      BY <1>6 DEF vars
  <1> QED BY <1>1, <1>2, <1>3, <1>4, <1>5, <1>6 DEF Next, LoopRuns

-----------------------------------------------------------------------------
(* What the card says, what is sent and what the agent gets *)

\* The card of a question says what was sent to it.
CardSaysAnswer ==
    \A w \in Waiter :
        /\ confirmed[w] # "none" => confirmed[w] = answer[w]
        /\ answer[w] \in UserWords => confirmed[w] = answer[w]

\* An agent gets what was sent, unless its waiter left by itself; a request
\* that was answered without a question never had an entry.
AgentGetsAnswer ==
    \A w \in Waiter :
        /\ outcome[w] \in Answers /\ outcome[w] # "none" => outcome[w] = answer[w]
        /\ outcome[w] \in {"fixed", "auto"} => answer[w] = "none" /\ pc[w] = "done"

AnswerInv == CardSaysAnswer /\ AgentGetsAnswer

LEMMA AnswerInit == Init => AnswerInv
  BY DEF Init, AnswerInv, CardSaysAnswer, AgentGetsAnswer, Answers, UserWords, System

LEMMA AnswerStep == TypeOK /\ ListInv /\ AnswerInv /\ [Next]_vars => AnswerInv'
  <1> SUFFICES ASSUME TypeOK, ListInv, AnswerInv, [Next]_vars PROVE AnswerInv'
      OBVIOUS
  <1> USE DEF TypeOK, Steps, AnswerInv, CardSaysAnswer, AgentGetsAnswer, ListInv,
       EarlyIsSilent, NoGhostQuestion, TakenIsOpen, Answers, UserWords, System, Listening
  <1>1. ASSUME NEW w \in Waiter, Ask(w) \/ WaiterStep(w) \/ Abort(w) PROVE AnswerInv'
    <2>1. CASE Ask(w)
        BY <2>1, WaiterAssumption DEF Ask, Finish, Goto
    <2>2. CASE CheckAllowance(w)
        BY <2>2 DEF CheckAllowance, Goto
    <2>3. CASE Register(w)
        BY <2>3 DEF Register, Goto, Kept, Displaced, Same, Evicted, Oldest
    <2>4. CASE SendCard(w)
        BY <2>4 DEF SendCard, Goto
    <2>5. CASE SetAnchor(w)
        BY <2>5 DEF SetAnchor, Goto, Same
    <2>6. CASE Answered(w)
        BY <2>6 DEF Answered, Finish, Goto
    <2>7. CASE Expire(w)
        BY <2>7 DEF Expire, Goto
    <2>8. CASE DropReceiver(w)
        BY <2>8 DEF DropReceiver, Goto
    <2>9. CASE CancelOwn(w)
        BY <2>9 DEF CancelOwn, Finish, Goto, RouterCancel, Cancelled, Same, SendTo,
             AtTimeout
    <2>10. CASE GuardCancel(w)
        BY <2>10 DEF GuardCancel, Goto, RouterCancel, Cancelled, Same, SendTo
    <2>11. CASE Abort(w)
        BY <2>11 DEF Abort, Goto
    <2> QED BY <1>1, <2>1, <2>2, <2>3, <2>4, <2>5, <2>6, <2>7, <2>8, <2>9, <2>10,
         <2>11 DEF WaiterStep
  <1>2. ASSUME NEW r \in Replies, Deliver(r) PROVE AnswerInv'
      BY <1>2 DEF Deliver
  <1>3. ASSUME NEW w \in Waiter, RouteTake(w) PROVE AnswerInv'
      BY <1>3 DEF RouteTake, LoopStep, Remaining
  <1>4. CASE Gate \/ GateClosed \/ InitiatorCheck \/ ModeCheck \/ RouteMisses
       \/ RouteSend \/ CancelAll \/ ClearAllows
    <2>1. CASE Gate
        BY <2>1 DEF Gate, LoopStep
    <2>2. CASE GateClosed
        BY <2>2 DEF GateClosed, LoopDone
    <2>3. CASE InitiatorCheck
        BY <2>3 DEF InitiatorCheck, LoopDone, LoopStep
    <2>4. CASE ModeCheck
        BY <2>4 DEF ModeCheck, LoopStep
    <2>5. CASE RouteMisses
        BY <2>5 DEF RouteMisses, LoopDone
    <2>6. CASE RouteSend
        BY <2>6, WaiterAssumption DEF RouteSend, LoopDone, SendTo, AnswerTo, Permits,
             ShownOnCard
    <2>7. CASE CancelAll
        BY <2>7 DEF CancelAll, SendTo
    <2>8. CASE ClearAllows
        BY <2>8 DEF ClearAllows
    <2> QED BY <1>4, <2>1, <2>2, <2>3, <2>4, <2>5, <2>6, <2>7, <2>8
  <1>5. ASSUME NEW m \in Modes, SetMode(m) PROVE AnswerInv'
      BY <1>5 DEF SetMode
  <1>6. CASE UNCHANGED vars
      BY <1>6 DEF vars
  <1> QED BY <1>1, <1>2, <1>3, <1>4, <1>5, <1>6 DEF Next, LoopRuns

-----------------------------------------------------------------------------
(* Who may answer *)

\* The entry that a message was for when the initiator was compared is one its
\* sender may answer.
SeenIsOwn ==
    /\ \A w \in seen : ~IsForeign(w, reply.from)
    /\ rpc \in {"recv", "gateAnchor", "gateCount", "block"} => seen = {}

LEMMA SeenInit == Init => SeenIsOwn
  BY DEF Init, SeenIsOwn

LEMMA SeenStep == TypeOK /\ SeenIsOwn /\ [Next]_vars => SeenIsOwn'
  <1> SUFFICES ASSUME TypeOK, SeenIsOwn, [Next]_vars PROVE SeenIsOwn'
      OBVIOUS
  <1> USE DEF TypeOK, SeenIsOwn, IsForeign
  <1>1. ASSUME NEW w \in Waiter, Ask(w) \/ WaiterStep(w) \/ Abort(w) PROVE SeenIsOwn'
    <2>1. CASE Ask(w) \/ CheckAllowance(w) \/ Register(w) \/ SendCard(w)
         \/ SetAnchor(w) \/ Answered(w) \/ Expire(w) \/ DropReceiver(w)
              \/ CancelOwn(w) \/ GuardCancel(w) \/ Abort(w)
        BY <2>1 DEF Ask, Finish, Goto, CheckAllowance, Register, Kept, Displaced, Same,
             SendCard, SetAnchor, Answered, Expire, DropReceiver, CancelOwn,
                  RouterCancel, Cancelled, SendTo, AtTimeout, GuardCancel, Abort
    <2> QED BY <1>1, <2>1 DEF WaiterStep
  <1>2. ASSUME NEW r \in Replies, Deliver(r) PROVE SeenIsOwn'
      BY <1>2 DEF Deliver
  <1>3. ASSUME NEW w \in Waiter, RouteTake(w) PROVE SeenIsOwn'
      BY <1>3 DEF RouteTake, LoopStep, Remaining
  <1>4. CASE Gate \/ GateClosed \/ InitiatorCheck \/ ModeCheck \/ RouteMisses
       \/ RouteSend \/ CancelAll \/ ClearAllows
    <2>1. CASE Gate
        BY <2>1 DEF Gate, LoopStep
    <2>2. CASE GateClosed
        BY <2>2 DEF GateClosed, LoopDone
    <2>3. CASE InitiatorCheck
        BY <2>3 DEF InitiatorCheck, LoopDone, LoopStep, Blocked
    <2>4. CASE ModeCheck
        BY <2>4 DEF ModeCheck, LoopStep
    <2>5. CASE RouteMisses
        BY <2>5 DEF RouteMisses, LoopDone
    <2>6. CASE RouteSend \/ CancelAll \/ ClearAllows
        BY <2>6 DEF RouteSend, LoopDone, SendTo, CancelAll, ClearAllows
    <2> QED BY <1>4, <2>1, <2>2, <2>3, <2>4, <2>5, <2>6
  <1>5. ASSUME NEW m \in Modes, SetMode(m) PROVE SeenIsOwn'
      BY <1>5 DEF SetMode
  <1>6. CASE UNCHANGED vars
      BY <1>6 DEF vars
  <1> QED BY <1>1, <1>2, <1>3, <1>4, <1>5, <1>6 DEF Next, LoopRuns

-----------------------------------------------------------------------------
(* The theorems *)

IInv == TypeOK /\ ListInv /\ AnswerInv /\ SeenIsOwn

\* The inductive invariant: which waiters the list holds, what the loop may have
\* in its hands, and that card, channel and agent agree.
THEOREM ApprovalInvariantHolds == Spec => []IInv
  <1>1. Init => IInv
      BY TypeInit, ListInit, AnswerInit, SeenInit DEF IInv
  <1>2. IInv /\ [Next]_vars => IInv'
      BY TypeStep, ListStep, AnswerStep, SeenStep DEF IInv
  <1> QED BY <1>1, <1>2, PTL DEF Spec

\* A waiter that listens has an answer, an entry in the list, or its entry is
\* in the hands of the receive loop.
THEOREM NoLostQuestionHolds == Spec => []NoLostQuestion
  <1>1. IInv => NoLostQuestion
      BY DEF IInv, ListInv
  <1> QED BY <1>1, ApprovalInvariantHolds, PTL

\* Every entry in the list is of a waiter that has not left.
THEOREM NoGhostQuestionHolds == Spec => []NoGhostQuestion
  <1>1. IInv => NoGhostQuestion
      BY DEF IInv, ListInv
  <1> QED BY <1>1, ApprovalInvariantHolds, PTL

\* The agent gets what the card says, or its waiter had left by itself.
THEOREM ConfirmedIsObeyedHolds == Spec => []ConfirmedIsObeyed
  <1>1. IInv => ConfirmedIsObeyed
      BY DEF IInv, TypeOK, AnswerInv, CardSaysAnswer, AgentGetsAnswer, ConfirmedIsObeyed, Outcomes
  <1> QED BY <1>1, ApprovalInvariantHolds, PTL

\* An agent is permitted to go on only by a user, whose card says so.
THEOREM PermittedByUserHolds == Spec => []PermittedByUser
  <1>1. IInv => PermittedByUser
      BY DEF IInv, AnswerInv, CardSaysAnswer, AgentGetsAnswer, PermittedByUser, Answers, UserWords
  <1> QED BY <1>1, ApprovalInvariantHolds, PTL

\* The first answer stands, whoever else tries to give one.
THEOREM DecisionIsFinalHolds == Spec => DecisionIsFinal
  <1>1. IInv /\ [Next]_vars => [\A w \in Waiter : answer[w] # "none" => answer'[w] = answer[w]]_vars
      BY AnswerIsFinal DEF IInv
  <1> QED BY <1>1, ApprovalInvariantHolds, PTL DEF Spec, DecisionIsFinal

\* A sender who may not answer a question answers it only if another one was
\* looked at when that was compared.
THEOREM InitiatorDecidesHolds == Spec => InitiatorDecides
  <1> DEFINE Step(w) == answer'[w] # answer[w] /\ answer'[w] \in UserWords
                          => ~IsForeign(w, reply.from) \/ w \notin seen
  <1>1. ASSUME IInv, NEW w \in Waiter PROVE Step(w)
      BY <1>1 DEF IInv, SeenIsOwn
  <1>2. IInv => [\A w \in Waiter : Step(w)]_vars
      BY <1>1
  <1> QED BY <1>2, ApprovalInvariantHolds, PTL DEF Spec, InitiatorDecides

-----------------------------------------------------------------------------
(* The router implements Questions *)

\* A waiter that has not left wrote nothing back; only a permission request
\* asks for an allowance; and the receive loop sends into a channel it took.
Life ==
    /\ \A w \in Waiter : outcome[w] # "none" => pc[w] \in {"guard", "done"}
    /\ \A w \in Waiter : pc[w] = "allowset" => w \notin Asks
    /\ rpc = "send" => taken \in Waiter

LEMMA LifeInit == Init => Life
  BY DEF Init, Life

LEMMA LifeStep == TypeOK /\ Life /\ [Next]_vars => Life'
  <1> SUFFICES ASSUME TypeOK, Life, [Next]_vars PROVE Life'
      OBVIOUS
  <1> USE DEF TypeOK, Life
  <1>1. ASSUME NEW w \in Waiter, Ask(w) \/ WaiterStep(w) \/ Abort(w) PROVE Life'
    <2>1. CASE Ask(w)
        BY <2>1, WaiterAssumption DEF Ask, Finish, Goto
    <2>2. CASE CheckAllowance(w)
        BY <2>2 DEF CheckAllowance, Goto
    <2>3. CASE Register(w)
        BY <2>3 DEF Register, Goto
    <2>4. CASE SendCard(w)
        BY <2>4 DEF SendCard, Goto
    <2>5. CASE SetAnchor(w)
        BY <2>5 DEF SetAnchor, Goto
    <2>6. CASE Answered(w)
        BY <2>6 DEF Answered, Finish, Goto
    <2>7. CASE Expire(w)
        BY <2>7 DEF Expire, Goto
    <2>8. CASE DropReceiver(w)
        BY <2>8 DEF DropReceiver, Goto
    <2>9. CASE CancelOwn(w)
        BY <2>9 DEF CancelOwn, Finish, Goto, RouterCancel
    <2>10. CASE GuardCancel(w)
        BY <2>10 DEF GuardCancel, Goto, RouterCancel
    <2>11. CASE Abort(w)
        BY <2>11 DEF Abort, Goto
    <2> QED BY <1>1, <2>1, <2>2, <2>3, <2>4, <2>5, <2>6, <2>7, <2>8, <2>9, <2>10,
         <2>11 DEF WaiterStep
  <1>2. ASSUME NEW r \in Replies, Deliver(r) PROVE Life'
    <2>1. rpc' # "send" /\ UNCHANGED <<pc, outcome, taken>>
      <3>1. r.form \in {"button", "quote", "bare"}
          BY DEF Replies
      <3>2. rpc' \in {"block", "gateAnchor", "gateCount"}
          BY <1>2, <3>1 DEF Deliver, IsExplicit
      <3> QED BY <1>2, <3>2 DEF Deliver
    <2> QED BY <2>1
  <1>3. ASSUME NEW w \in Waiter, RouteTake(w) PROVE Life'
      BY <1>3 DEF RouteTake, LoopStep
  <1>4. CASE Gate \/ GateClosed \/ InitiatorCheck \/ ModeCheck \/ RouteMisses \/ RouteSend
      BY <1>4 DEF Gate, GateClosed, InitiatorCheck, ModeCheck, RouteMisses, RouteSend, LoopStep, LoopDone
  <1>5. CASE CancelAll \/ ClearAllows \/ \E m \in Modes : SetMode(m)
      BY <1>5 DEF CancelAll, ClearAllows, SetMode
  <1>6. CASE UNCHANGED vars
      BY <1>6 DEF vars
  <1> QED BY <1>1, <1>2, <1>3, <1>4, <1>5, <1>6 DEF Next, LoopRuns

LEMMA ListeningIsOpen ==
  ASSUME TypeOK, Life, NEW w \in Waiter, pc[w] \in Listening
  PROVE  Promise!Open(w)
  BY DEF TypeOK, Life, Listening, Promise!Open

\* Entries of the list that the program answers by itself are questions that
\* nobody has decided.
LEMMA SystemAnswers ==
  ASSUME TypeOK, ListInv, Life, answer' \in [Waiter -> Answers],
         \A w \in Waiter : answer'[w] # answer[w] =>
            w \in pending /\ pc[w] \in Listening /\ answer'[w] \in {"superseded", "evicted", "cancelled"}
  PROVE  Promise!Withdrawn
  <1>1. \A w \in Waiter : answer'[w] # answer[w] =>
          Promise!Open(w) /\ answer[w] = "none" /\ answer'[w] \in Promise!Withdrawals
      BY ListeningIsOpen DEF ListInv, NoGhostQuestion, Promise!Withdrawals
  <1>2. answer' \in [Waiter -> Promise!Decisions]
      BY DEF Answers, UserWords, System, Promise!Decisions, Promise!Withdrawals
  <1> QED BY <1>1, <1>2 DEF Promise!Withdrawn

LEMMA CancelAnswers ==
  ASSUME TypeOK, ListInv, Life, NEW W \in SUBSET pending, answer' = SendTo(W, "cancelled")
  PROVE  Promise!Withdrawn
  <1>1. answer' \in [Waiter -> Answers]
      BY DEF TypeOK, SendTo, Answers, System
  <1>2. \A w \in Waiter : answer'[w] # answer[w] =>
          w \in pending /\ pc[w] \in Listening /\ answer'[w] = "cancelled"
      BY DEF SendTo
  <1> QED BY <1>1, <1>2, SystemAnswers

LEMMA PromiseStep ==
  ASSUME TypeOK, TypeOK', ListInv, Life, [Next]_vars
  PROVE  [Promise!Next]_(Promise!vars)
  <1> DEFINE Done == [Promise!Next]_(Promise!vars)
             made == {w \in Waiter : pc[w] # "idle"}
  <1> USE DEF TypeOK
  <1>s. ASSUME made' = made, UNCHANGED <<answer, confirmed, outcome, allows>> PROVE Done
      BY <1>s DEF Promise!vars
  <1>1. ASSUME NEW w \in Waiter, Ask(w) PROVE Done
    <2>1. w \notin made /\ made' = made \cup {w} /\ UNCHANGED <<answer, confirmed, allows>>
        BY <1>1 DEF Ask, Goto, Finish
    <2>2. UNCHANGED outcome \/ (w \notin Asks /\ outcome' = [outcome EXCEPT ![w] = "fixed"])
        BY <1>1 DEF Ask, Finish
    <2>3. Promise!Ask(w)
        BY <2>1, <2>2 DEF Promise!Ask
    <2> QED BY <2>3 DEF Promise!Next
  <1>2. ASSUME NEW w \in Waiter, WaiterStep(w) \/ Abort(w) PROVE Done
    <2>0. made' = made /\ w \in made /\ UNCHANGED <<confirmed, allows>>
      <3>1. CASE CheckAllowance(w) \/ Register(w) \/ SendCard(w) \/ SetAnchor(w)
          BY <3>1 DEF CheckAllowance, Register, SendCard, SetAnchor, Goto
      <3>2. CASE Answered(w) \/ Expire(w) \/ DropReceiver(w)
          BY <3>2 DEF Answered, Expire, DropReceiver, Goto, Finish
      <3>3. CASE CancelOwn(w) \/ GuardCancel(w)
          BY <3>3 DEF CancelOwn, GuardCancel, RouterCancel, Goto, Finish
      <3>4. CASE Abort(w)
          BY <3>4 DEF Abort, Goto
      <3> QED BY <1>2, <3>1, <3>2, <3>3, <3>4 DEF WaiterStep
    <2>1. CASE CheckAllowance(w)
      <3>1. /\ pc[w] = "allowset" /\ UNCHANGED answer
            /\ IF ToolOf[w] \in allows THEN outcome' = [outcome EXCEPT ![w] = "auto"] ELSE UNCHANGED outcome
          BY <2>1 DEF CheckAllowance
      <3>2. outcome[w] = "none" /\ answer[w] = "none" /\ w \notin Asks
          BY <3>1 DEF Life, ListInv, EarlyIsSilent
      <3>3. CASE ToolOf[w] \in allows
        <4>1. Promise!LetThrough(w)
            BY <2>0, <3>1, <3>2, <3>3 DEF Promise!LetThrough, Promise!Open
        <4> QED BY <4>1 DEF Promise!Next
      <3>4. CASE ToolOf[w] \notin allows
          BY <1>s, <2>0, <3>1, <3>4
      <3> QED BY <3>3, <3>4
    <2>2. CASE Register(w)
      <3>1. answer' = Displaced(w) /\ UNCHANGED outcome
          BY <2>2 DEF Register
      <3>2. \A v \in Waiter : answer'[v] # answer[v] =>
              v \in pending /\ pc[v] \in Listening /\ answer'[v] \in {"superseded", "evicted", "cancelled"}
          BY <3>1 DEF Displaced, Same, Evicted, Oldest
      <3>3. Promise!Withdrawn
          BY <3>2, SystemAnswers
      <3> QED BY <2>0, <3>1, <3>3 DEF Promise!Withdraw, Promise!Next
    <2>3. CASE SendCard(w) \/ SetAnchor(w) \/ Expire(w) \/ DropReceiver(w)
        BY <1>s, <2>0, <2>3 DEF SendCard, SetAnchor, Expire, DropReceiver
    <2>4. CASE Answered(w)
      <3>1. outcome[w] = "none"
          BY <2>4 DEF Answered, Life
      <3>2. Promise!Conclude(w)
          BY <2>0, <2>4, <3>1 DEF Answered, Finish, Promise!Conclude, Promise!Open
      <3> QED BY <3>2 DEF Promise!Next
    <2>5. CASE CancelOwn(w)
      <3>1. outcome[w] = "none"
          BY <2>5 DEF CancelOwn, Life
      <3>2. Promise!Withdrawn
          BY <2>5, CancelAnswers DEF CancelOwn, RouterCancel, Cancelled, Same
      <3>3. PICK how \in {"timeout", "unreachable", "aborted"} : outcome' = [outcome EXCEPT ![w] = how]
          BY <2>5 DEF CancelOwn, Finish, AtTimeout
      <3>4. Promise!GiveUp(w, how)
          BY <2>0, <3>1, <3>2, <3>3 DEF Promise!GiveUp, Promise!Open
      <3> QED BY <3>4 DEF Promise!Next
    <2>6. CASE GuardCancel(w)
      <3>1. Promise!Withdrawn /\ UNCHANGED outcome
          BY <2>6, CancelAnswers DEF GuardCancel, RouterCancel, Cancelled, Same
      <3> QED BY <2>0, <3>1 DEF Promise!Withdraw, Promise!Next
    <2>7. CASE Abort(w)
      <3>1. outcome[w] = "none" /\ UNCHANGED answer /\ outcome' = [outcome EXCEPT ![w] = "aborted"]
          BY <2>7 DEF Abort, Life
      <3>2. Promise!Withdrawn
          BY <3>1, SystemAnswers
      <3>3. Promise!GiveUp(w, "aborted")
          BY <2>0, <3>1, <3>2 DEF Promise!GiveUp, Promise!Open
      <3> QED BY <3>3 DEF Promise!Next
    <2> QED BY <1>2, <2>1, <2>2, <2>3, <2>4, <2>5, <2>6, <2>7 DEF WaiterStep
  <1>3. ASSUME NEW w \in Waiter, RouteTake(w) PROVE Done
    <2>1. /\ w \in pending /\ UNCHANGED <<pc, answer, confirmed, outcome>>
          /\ allows' = allows \/ (w \notin Asks /\ allows' = allows \cup {ToolOf[w]})
        BY <1>3, HitIsPending DEF RouteTake
    <2>2. w \in made /\ answer[w] = "none"
        BY <2>1 DEF ListInv, NoGhostQuestion, Listening
    <2>3. CASE allows' = allows
        BY <1>s, <2>1, <2>3
    <2>4. CASE w \notin Asks /\ allows' = allows \cup {ToolOf[w]}
      <3>1. Promise!Grant(w)
          BY <2>1, <2>2, <2>4 DEF Promise!Grant
      <3> QED BY <3>1 DEF Promise!Next
    <2> QED BY <2>1, <2>3, <2>4
  <1>4. CASE RouteSend
    <2>1. taken \in Waiter /\ answer[taken] = "none" /\ UNCHANGED <<pc, outcome, allows>>
        BY <1>4, WaiterAssumption DEF RouteSend, Life, ListInv, TakenIsOpen
    <2>2. CASE pc[taken] \in Listening
      <3>1. AnswerTo(taken) \in Promise!Verdicts(taken)
        <4>1. reply.word \in {"allow", "always", "deny", "text"}
            BY RequestAssumption DEF Replies
        <4> QED BY <2>1, <4>1 DEF AnswerTo, Permits, Promise!Verdicts
      <3>2. /\ answer' = [answer EXCEPT ![taken] = AnswerTo(taken)]
            /\ confirmed' = [confirmed EXCEPT ![taken] = AnswerTo(taken)]
          BY <1>4, <2>2 DEF RouteSend, SendTo, ShownOnCard
      <3>3. Promise!Open(taken)
          BY <2>1, <2>2, ListeningIsOpen
      <3>4. Promise!Decide(taken, AnswerTo(taken))
          BY <2>1, <3>2, <3>3 DEF Promise!Decide
      <3> QED BY <2>1, <3>1, <3>4 DEF Promise!Next
    <2>3. CASE pc[taken] \notin Listening
      <3>1. UNCHANGED <<answer, confirmed>>
          BY <1>4, <2>3 DEF RouteSend, SendTo
      <3> QED BY <1>s, <2>1, <3>1
    <2> QED BY <2>2, <2>3
  <1>5. CASE CancelAll
    <2>1. Promise!Withdrawn
        BY <1>5, CancelAnswers DEF CancelAll
    <2> QED BY <1>5, <2>1 DEF CancelAll, Promise!Withdraw, Promise!Next
  <1>6. CASE ClearAllows
      BY <1>6 DEF ClearAllows, Promise!Revoke, Promise!Next
  <1>7. CASE (\E r \in Replies : Deliver(r)) \/ Gate \/ GateClosed \/ InitiatorCheck \/ ModeCheck \/ RouteMisses
             \/ \E m \in Modes : SetMode(m)
      BY <1>s, <1>7 DEF Deliver, Gate, GateClosed, InitiatorCheck, ModeCheck, RouteMisses, SetMode
  <1>8. CASE UNCHANGED vars
      BY <1>s, <1>8 DEF vars
  <1> QED BY <1>1, <1>2, <1>3, <1>4, <1>5, <1>6, <1>7, <1>8 DEF Next, LoopRuns

\* Whatever the order of answers, time-outs, newcomers, /stop and aborted rounds:
\* a question is decided once, its card says what a user decided, its agent gets
\* that or learns that nobody decided, and a tool is let through without a
\* question only after a user's answer met an open question about it.
THEOREM ImplementsQuestionsHolds == Spec => ImplementsQuestions
  <1>1. Init => Promise!Init
      BY DEF Init, Promise!Init
  <1>2. IInv /\ IInv' /\ Life /\ [Next]_vars => [Promise!Next]_(Promise!vars)
      BY PromiseStep DEF IInv
  <1>3. IInv /\ Life /\ [Next]_vars => Life'
      BY LifeStep DEF IInv
  <1> QED BY <1>1, <1>2, <1>3, LifeInit, ApprovalInvariantHolds, PTL
          DEF Spec, ImplementsQuestions, Promise!Spec

-----------------------------------------------------------------------------
(* Questions end: every waiter only moves on.                                 *)

\* The steps a waiter may have left.
Ahead ==
    [w \in Waiter |->
        CASE pc[w] = "idle"                -> 9 [] pc[w] = "allowset" -> 8
          [] pc[w] = "register"            -> 7 [] pc[w] = "card"     -> 6
          [] pc[w] = "anchor"              -> 5 [] pc[w] = "wait"     -> 4
          [] pc[w] \in {"unsent", "expired"} -> 3 [] pc[w] = "cancel" -> 2
          [] pc[w] = "guard"               -> 1 [] OTHER              -> 0]
\* No step of anybody sends a waiter back, and each of its own moves it on.
MovesOn == \A w \in Waiter : Ahead'[w] <= Ahead[w] /\ (WaiterStep(w) => Ahead'[w] < Ahead[w])

LEMMA AheadStep == TypeOK /\ [Next]_vars => MovesOn
  <1> SUFFICES ASSUME TypeOK, [Next]_vars, NEW w \in Waiter
               PROVE  Ahead'[w] <= Ahead[w] /\ (WaiterStep(w) => Ahead'[w] < Ahead[w])
      BY DEF MovesOn
  <1>p. pc \in [Waiter -> Steps]
      BY DEF TypeOK
  <1>a. Ahead[w] \in 0 .. 9
      BY DEF Ahead
  <1>s. ASSUME pc'[w] = pc[w] PROVE Ahead'[w] = Ahead[w]
      BY <1>s DEF Ahead
  <1>g. ASSUME NEW v \in Waiter, NEW step, Goto(v, step), v # w PROVE pc'[w] = pc[w]
      BY <1>p, <1>g DEF Goto
  <1>1. ASSUME WaiterStep(w) PROVE Ahead'[w] < Ahead[w] /\ Ahead'[w] \in 0 .. 9
    <2>1. CASE CheckAllowance(w)
        BY <1>p, <2>1 DEF CheckAllowance, Goto, Ahead
    <2>2. CASE Register(w)
        BY <1>p, <2>2 DEF Register, Goto, Ahead
    <2>3. CASE SendCard(w)
        BY <1>p, <2>3 DEF SendCard, Goto, Ahead
    <2>4. CASE SetAnchor(w)
        BY <1>p, <2>4 DEF SetAnchor, Goto, Ahead
    <2>5. CASE Answered(w)
        BY <1>p, <2>5 DEF Answered, Finish, Goto, Ahead
    <2>6. CASE Expire(w)
        BY <1>p, <2>6 DEF Expire, Goto, Ahead
    <2>7. CASE DropReceiver(w)
        BY <1>p, <2>7 DEF DropReceiver, Goto, Ahead
    <2>8. CASE CancelOwn(w)
        BY <1>p, <2>8 DEF CancelOwn, Finish, Goto, Ahead
    <2>9. CASE GuardCancel(w)
        BY <1>p, <2>9 DEF GuardCancel, Goto, Ahead
    <2> QED BY <1>1, <2>1, <2>2, <2>3, <2>4, <2>5, <2>6, <2>7, <2>8, <2>9 DEF WaiterStep
  <1>2. ASSUME Ask(w) \/ Abort(w) PROVE Ahead'[w] <= Ahead[w]
    <2>1. CASE Ask(w)
        BY <1>p, <2>1 DEF Ask, Finish, Goto, Ahead
    <2>2. CASE Abort(w)
        BY <1>p, <2>2 DEF Abort, Goto, Ahead
    <2> QED BY <1>2, <2>1, <2>2
  <1>3. ASSUME NEW v \in Waiter, v # w, Ask(v) \/ WaiterStep(v) \/ Abort(v) PROVE pc'[w] = pc[w]
    <2>1. \E step : Goto(v, step)
        BY <1>3 DEF Ask, Abort, WaiterStep, CheckAllowance, Register, SendCard, SetAnchor, Answered,
                    Expire, DropReceiver, CancelOwn, GuardCancel, Finish
    <2> QED BY <1>3, <1>g, <2>1
  <1>4. ASSUME \/ \E r \in Replies : Deliver(r)
               \/ LoopRuns \/ CancelAll \/ ClearAllows
               \/ \E m \in Modes \ {mode} : SetMode(m)
               \/ UNCHANGED vars
        PROVE  pc'[w] = pc[w]
      BY <1>4 DEF Deliver, LoopRuns, Gate, GateClosed, InitiatorCheck, ModeCheck, RouteMisses, RouteSend,
                  RouteTake, CancelAll, ClearAllows, SetMode, waiters, vars
  <1> QED
    <2>1. Ahead'[w] <= Ahead[w]
      <3>1. Ahead[w] <= Ahead[w]
          BY <1>a
      <3> QED BY <1>a, <1>s, <1>1, <1>2, <1>3, <1>4, <3>1 DEF Next
    <2> QED BY <1>1, <2>1

\* A question has at most nine steps ahead, each of its own brings it closer to
\* its end, and nobody's takes it back: a fair waiter gets there, also when
\* answers, newcomers and /stop hit it on its way.
THEOREM QuestionsMoveOn == Spec => [](\A w \in Waiter : Ahead[w] \in 0 .. 9) /\ [][MovesOn]_vars
  <1>1. \A w \in Waiter : Ahead[w] \in 0 .. 9
      BY DEF Ahead
  <1>2. TypeOK /\ [Next]_vars => [MovesOn]_vars
      BY AheadStep
  <1> QED BY <1>1, <1>2, ApprovalTypeCorrect, PTL DEF Spec

=============================================================================
