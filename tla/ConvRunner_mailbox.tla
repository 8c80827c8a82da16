--------------------------- MODULE ConvRunner_mailbox --------------------------
(* ConvRunner implements AgentMailbox: the initial states map to initial      *)
(* states and every step maps to a step of the mailbox or leaves it alone.    *)
EXTENDS ConvRunner_proofs

USE DEF memory, store, marked, env, history

\* What the mailbox shows of one message.
Shown(m) ==
    IF pc[m] = "idle" THEN "new"
    ELSE IF fate[m] = "ran" /\ m \in batch THEN "running"
    ELSE IF fate[m] # "none" THEN "settled"
    ELSE IF pc[m] = "dead" /\ m \notin rows \cup loaded THEN "lost"
    ELSE "waiting"

LEMMA ShownIsStatus == \A m \in Msg : StatusOf(m) = Shown(m) /\ StatusOf(m)' = Shown(m)'
  BY DEF StatusOf, Shown

bar == [m \in Msg |-> StatusOf(m)]

\* A step of the mailbox, said of what it shows.
Shows(B, s)  == \A m \in Msg : Shown(m)' = IF m \in B THEN s ELSE Shown(m)
Showing(B, s) == \A m \in B : Shown(m) = s

LEMMA ShowsIsBecome ==
  ASSUME NEW B \in SUBSET Msg, NEW s, Shows(B, s) PROVE Mailbox!Become(B, s)
  BY ShownIsStatus DEF Shows, Mailbox!Become

LEMMA ShowingIsWith ==
  ASSUME NEW B \in SUBSET Msg, NEW s, Showing(B, s) PROVE B \subseteq Mailbox!With(s)
  BY ShownIsStatus DEF Showing, Mailbox!With

MailboxStep == [Mailbox!Next]_<<bar, leftover>>

LEMMA AcceptStep ==
  ASSUME NEW m \in Msg, Shown(m) = "new", Shows({m}, "waiting"), UNCHANGED leftover
  PROVE MailboxStep
  <1>1. Mailbox!Accept(m)
      BY ShowsIsBecome, ShownIsStatus DEF Mailbox!Accept
  <1> QED BY <1>1 DEF MailboxStep, Mailbox!Next

LEMMA ReopenStep ==
  ASSUME NEW m \in Msg, Shown(m) = "settled", m \in leftover, Shows({m}, "waiting"), UNCHANGED leftover
  PROVE MailboxStep
  <1>1. Mailbox!Reopen(m)
      BY ShowsIsBecome, ShownIsStatus DEF Mailbox!Reopen
  <1> QED BY <1>1 DEF MailboxStep, Mailbox!Next

LEMMA QuietStep ==
  ASSUME Shows({}, "waiting"), UNCHANGED leftover PROVE MailboxStep
  <1>1. bar' = bar
      BY ShownIsStatus DEF Shows, bar
  <1> QED BY <1>1 DEF MailboxStep

LEMMA DismissStep ==
  ASSUME NEW B \in SUBSET Msg, Showing(B, "waiting"), Shows(B, "settled"), UNCHANGED leftover
  PROVE MailboxStep
  <1>1. CASE B = {}
    <2>1. Shows({}, "waiting")
        BY <1>1 DEF Shows
    <2> QED BY <2>1, QuietStep
  <1>2. CASE B # {}
    <2>1. Mailbox!Dismiss(B)
        BY <1>2, ShowsIsBecome, ShowingIsWith DEF Mailbox!Dismiss
    <2> QED BY <2>1 DEF MailboxStep, Mailbox!Next
  <1> QED BY <1>1, <1>2

LEMMA StartStep ==
  ASSUME NEW B \in SUBSET Msg, Showing(B, "waiting"), Shows(B, "running"), UNCHANGED leftover,
         \A m \in Msg : Shown(m) # "running"
  PROVE MailboxStep
  <1>1. CASE B = {}
    <2>1. Shows({}, "waiting")
        BY <1>1 DEF Shows
    <2> QED BY <2>1, QuietStep
  <1>2. CASE B # {}
    <2>1. Mailbox!With("running") = {}
        BY ShownIsStatus DEF Mailbox!With
    <2>2. Mailbox!Start(B)
        BY <1>2, <2>1, ShowsIsBecome, ShowingIsWith DEF Mailbox!Start
    <2> QED BY <2>2 DEF MailboxStep, Mailbox!Next
  <1> QED BY <1>1, <1>2

LEMMA FinishStep ==
  ASSUME NEW B \in SUBSET Msg, \A m \in Msg : m \in B <=> Shown(m) = "running",
         Shows(B, "settled"), UNCHANGED leftover
  PROVE MailboxStep
  <1>1. CASE B = {}
    <2>1. Shows({}, "waiting")
        BY <1>1 DEF Shows
    <2> QED BY <2>1, QuietStep
  <1>2. CASE B # {}
    <2>1. Mailbox!With("running") = B
        BY ShownIsStatus DEF Mailbox!With
    <2>2. Mailbox!Finish
        BY <1>2, <2>1, ShowsIsBecome DEF Mailbox!Finish
    <2> QED BY <2>2 DEF MailboxStep, Mailbox!Next
  <1> QED BY <1>1, <1>2

LEMMA EscapeStep ==
  ASSUME Shows({}, "waiting"), leftover \subseteq leftover', leftover' \subseteq Msg
  PROVE MailboxStep
  <1> DEFINE B == leftover' \ leftover
  <1>1. bar' = bar
      BY ShownIsStatus DEF Shows, bar
  <1>2. B \in SUBSET Msg /\ Mailbox!Escape(B)
      BY <1>1 DEF Mailbox!Escape, bar
  <1> QED BY <1>2 DEF MailboxStep, Mailbox!Next

LEMMA CrashStep ==
  ASSUME NEW L \in SUBSET Msg, NEW B \in SUBSET Msg, Showing(L, "waiting"),
         \A m \in Msg : Shown(m)' = IF m \in L THEN "lost"
                                    ELSE IF Shown(m) = "running" THEN "settled" ELSE Shown(m),
         leftover' = leftover \cup B
  PROVE MailboxStep
  <1>1. Mailbox!Crash(L, B)
      BY ShownIsStatus, ShowingIsWith DEF Mailbox!Crash
  <1> QED BY <1>1 DEF MailboxStep, Mailbox!Next

LEMMA MailboxStepHolds ==
    TypeOK /\ Turns /\ Places /\ Records /\ Outcomes /\ [Next]_vars => MailboxStep
  <1> SUFFICES ASSUME TypeOK, Turns, Places, Records, Outcomes,
                       [Next]_vars PROVE MailboxStep
      OBVIOUS
  <1> USE DEF TypeOK, Turns, LockOwner, LiveRunner, NobodyWhileBooting,
              LoadedInRecovery, LoadedHaveNoTask, Booting, Places, Unqueued, Disjoint,
              BatchOwner, NotQueuedSteps, PreSpawn, RoundSteps, Records,
              NoRowBeforeSave, LoadedDied, RowsLoaded, Outcomes, Unsettled, RanInRound,
              LoadedUnsettled, Shown, Shows, Showing, Goto, Settle, TaskSteps,
              ArrivalSteps, RunnerSteps, OwnerSteps
  <1>1. ASSUME NEW m \in Msg, TaskStep(m) PROVE MailboxStep
    <2>1. CASE PlanBecomeRunner(m)
        BY <2>1, QuietStep DEF PlanBecomeRunner
    <2>2. CASE PlanSteer(m)
      <3>1. Showing({m}, "waiting") /\ Shows({m}, "settled") /\ UNCHANGED leftover
          BY <2>2 DEF PlanSteer
      <3>2. {m} \in SUBSET Msg
          OBVIOUS
      <3> HIDE DEF Shows, Showing
      <3> QED BY <3>1, <3>2, DismissStep
    <2>3. CASE PlanQueueFull(m)
      <3>1. Showing({m}, "waiting") /\ Shows({m}, "settled") /\ UNCHANGED leftover
          BY <2>3 DEF PlanQueueFull
      <3>2. {m} \in SUBSET Msg
          OBVIOUS
      <3> HIDE DEF Shows, Showing
      <3> QED BY <3>1, <3>2, DismissStep
    <2>4. CASE PlanQueuePending(m)
        BY <2>4, QuietStep DEF PlanQueuePending
    <2>5. CASE PersistQueued(m)
        BY <2>5, QuietStep DEF PersistQueued, StoreOk, StoreFault
    <2>6. CASE PushBecomeRunner(m)
        BY <2>6, QuietStep DEF PushBecomeRunner, Pushed
    <2>7. CASE PushPending(m)
        BY <2>7, QuietStep DEF PushPending, Pushed, AfterPush
    <2>8. CASE NoteQueued(m)
        BY <2>8, QuietStep DEF NoteQueued
    <2>9. CASE ClearHint(m)
        BY <2>9, QuietStep DEF ClearHint
    <2>10. CASE AcquireLock(m)
        BY <2>10, QuietStep DEF AcquireLock, LockAvailable
    <2>11. CASE TakeNothing(m)
        BY <2>11, QuietStep DEF TakeNothing
    <2>12. CASE TakeBatch(m)
        BY <2>12, QuietStep DEF TakeBatch
    <2>13. CASE DeleteBatchRows(m)
      <3>1. Shows({}, "waiting")
          BY <2>13 DEF DeleteBatchRows, BatchRows, DeleteRows, StoreOk, StoreFault
      <3>2. leftover \subseteq leftover' /\ leftover' \subseteq Msg
          BY <2>13 DEF DeleteBatchRows, BatchRows, DeleteRows, StoreOk, StoreFault
      <3> QED BY <3>1, <3>2, EscapeStep
    <2>14. CASE StopCheck(m)
      <3>1. CASE MarkFresh
        <4>1. Showing(batch, "waiting") /\ Shows(batch, "settled") /\ UNCHANGED leftover
            BY <2>14, <3>1 DEF StopCheck, AfterStopHit, NoMark
        <4> QED BY <4>1, DismissStep
      <3>2. CASE ~MarkFresh
        <4>1. Shows({}, "waiting") /\ UNCHANGED leftover
            BY <2>14, <3>2 DEF StopCheck, AfterStopHit, NoMark
        <4> QED BY <4>1, QuietStep
      <3> QED BY <3>1, <3>2
    <2>15. CASE PermitGranted(m)
        BY <2>15, QuietStep DEF PermitGranted, AfterPermit
    <2>16. CASE RefuseRound(m)
      <3>1. Showing(batch, "waiting") /\ Shows(batch, "settled") /\ UNCHANGED leftover
          BY <2>16 DEF RefuseRound
      <3>2. batch \in SUBSET Msg
          OBVIOUS
      <3> HIDE DEF Shows, Showing
      <3> QED BY <3>1, <3>2, DismissStep
    <2>17. CASE NoteInitiator(m)
        BY <2>17, QuietStep DEF NoteInitiator
    <2>18. CASE ReadEpoch(m)
        BY <2>18, QuietStep DEF ReadEpoch
    <2>19. CASE MarkInflight(m)
        BY <2>19, QuietStep DEF MarkInflight, StoreOk, StoreFault, RoundPrompt, Texts
    <2>20. CASE RecheckStops(m)
      <3>1. Showing(batch, "waiting") /\ Shows(batch, "settled") /\ UNCHANGED leftover
          BY <2>20 DEF RecheckStops, NoMark
      <3>2. batch \in SUBSET Msg
          OBVIOUS
      <3> HIDE DEF Shows, Showing
      <3> QED BY <3>1, <3>2, DismissStep
    <2>21. CASE SpawnAgent(m)
      <3>1. Showing(batch, "waiting") /\ Shows(batch, "running") /\ UNCHANGED leftover
          BY <2>21 DEF SpawnAgent, NoMark
      <3>2. \A n \in Msg : Shown(n) # "running"
          BY <2>21 DEF SpawnAgent
      <3> QED BY <3>1, <3>2, StartStep
    <2>22. CASE RegisterHandle(m)
        BY <2>22, QuietStep DEF RegisterHandle
    <2>23. CASE CollectOutcome(m)
      <3>1. \A n \in Msg : n \in batch <=> Shown(n) = "running"
          BY <2>23 DEF CollectOutcome
      <3>2. Shows(batch, "settled") /\ UNCHANGED leftover
          BY <2>23 DEF CollectOutcome, StoreOk, StoreFault
      <3> QED BY <3>1, <3>2, FinishStep
    <2>24. CASE Unregister(m)
        BY <2>24, QuietStep DEF Unregister
    <2>25. CASE ClearInflight(m)
        BY <2>25, QuietStep DEF ClearInflight, StoreOk, StoreFault, NoPrompt
    <2>26. CASE SpawnCompact(m)
        BY <2>26, QuietStep DEF SpawnCompact
    <2>27. CASE FinishCompact(m)
        BY <2>27, QuietStep DEF FinishCompact
    <2>28. CASE ReleaseLock(m)
        BY <2>28, QuietStep DEF ReleaseLock
    <2>29. CASE IdleTimeout(m)
        BY <2>29, QuietStep DEF IdleTimeout
    <2> QED BY <1>1, <2>1, <2>2, <2>3, <2>4, <2>5, <2>6, <2>7, <2>8, <2>9, <2>10, <2>11,
               <2>12, <2>13, <2>14, <2>15, <2>16, <2>17, <2>18, <2>19, <2>20, <2>21,
               <2>22, <2>23, <2>24, <2>25, <2>26, <2>27, <2>28, <2>29 DEF TaskStep
  <1>2. ASSUME NEW m \in Msg, Receive(m) \/ RemoveQueued(m) \/ PurgeRow(m) PROVE MailboxStep
    <2>1. CASE Receive(m)
      <3>1. Shown(m) = "new" /\ Shows({m}, "waiting") /\ UNCHANGED leftover
          BY <2>1 DEF Receive
      <3> QED BY <3>1, AcceptStep
    <2>2. CASE RemoveQueued(m)
      <3>1. Showing({m}, "waiting") /\ Shows({m}, "settled") /\ UNCHANGED leftover
          BY <2>2 DEF RemoveQueued
      <3>2. {m} \in SUBSET Msg
          OBVIOUS
      <3> HIDE DEF Shows, Showing
      <3> QED BY <3>1, <3>2, DismissStep
    <2>3. CASE PurgeRow(m)
      <3>1. Shows({}, "waiting")
          BY <2>3 DEF PurgeRow, DeleteRows, StoreOk, StoreFault
      <3>2. leftover \subseteq leftover' /\ leftover' \subseteq Msg
          BY <2>3 DEF PurgeRow, DeleteRows, StoreOk, StoreFault
      <3> QED BY <3>1, <3>2, EscapeStep
    <2> QED BY <1>2, <2>1, <2>2, <2>3
  <1>3. ASSUME NEW s \in Stop, StopIssued(s) \/ StopStep(s) PROVE MailboxStep
    <2>1. CASE StopQueue(s)
      <3>1. CASE s \in HardStop
        <4>1. Showing(queue, "waiting") /\ Shows(queue, "settled") /\ UNCHANGED leftover
            BY <2>1, <3>1 DEF StopQueue
        <4> QED BY <4>1, DismissStep
      <3>2. CASE s \notin HardStop
        <4>1. Shows({}, "waiting") /\ UNCHANGED leftover
            BY <2>1, <3>2 DEF StopQueue
        <4> QED BY <4>1, QuietStep
      <3> QED BY <3>1, <3>2
    <2>2. CASE StopIssued(s) \/ StopInterrupt(s) \/ StopTryLock(s) \/ StopSetsMark(s)
        BY <2>2, QuietStep DEF StopIssued, StopInterrupt, StopTryLock, StopSetsMark
    <2> QED BY <1>3, <2>1, <2>2 DEF StopStep
  <1>4. CASE AgentReturns \/ CommandTakesLock \/ CommandReleasesLock \/ Tick
      BY <1>4, QuietStep DEF AgentReturns, CommandTakesLock, CommandReleasesLock, Tick
  <1>5. CASE Crash
    <2> DEFINE L == {m \in Msg : Shown(m) = "waiting" /\ m \notin rows}
    <2>1. Showing(L, "waiting")
        OBVIOUS
    <2>2. \A m \in Msg : Shown(m)' = IF m \in L THEN "lost"
                                     ELSE IF Shown(m) = "running" THEN "settled" ELSE Shown(m)
        BY <1>5 DEF Crash
    <2>3. leftover' = leftover \cup (purge \cap rows) /\ purge \cap rows \in SUBSET Msg
        BY <1>5 DEF Crash
    <2>4. L \in SUBSET Msg
        OBVIOUS
    <2> HIDE DEF L, Showing
    <2> QED BY <2>1, <2>2, <2>3, <2>4, CrashStep
  <1>6. CASE Recovery
    <2>1. CASE ReplayLoad
        BY <2>1, QuietStep DEF ReplayLoad
    <2>2. CASE ReplayClear
        BY <2>2, QuietStep DEF ReplayClear
    <2>3. CASE RecoverPrompt \/ RecoverClearMark \/ RecoverEmptyMark \/ RecoverNothing
        BY <2>3, QuietStep DEF RecoverPrompt, RecoveredPrompt, RecoverClearMark, NoPrompt,
            RecoverEmptyMark, RecoverNothing
    <2>4. ASSUME NEW m \in Msg, ReplaySpawn(m) PROVE MailboxStep
      <3>1. CASE fate[m] = "none"
        <4>1. Shows({}, "waiting") /\ UNCHANGED leftover
            BY <2>4, <3>1 DEF ReplaySpawn
        <4> QED BY <4>1, QuietStep
      <3>2. CASE fate[m] # "none"
        <4>1. Shown(m) = "settled" /\ m \in leftover /\ Shows({m}, "waiting") /\ UNCHANGED leftover
            BY <2>4, <3>2 DEF ReplaySpawn
        <4> QED BY <4>1, ReopenStep
      <3> QED BY <3>1, <3>2
    <2> QED BY <1>6, <2>1, <2>2, <2>3, <2>4 DEF Recovery
  <1>7. CASE UNCHANGED vars
      BY <1>7, QuietStep DEF vars
  <1> QED BY <1>1, <1>2, <1>3, <1>4, <1>5, <1>6, <1>7 DEF Next

-----------------------------------------------------------------------------

LEMMA MailboxInit == Init => Mailbox!Init
  BY DEF Init, Mailbox!Init, StatusOf

\* The conversation implements the mailbox for every number of messages, /stop
\* invocations, crashes and store faults: one batch is with the agent at a
\* time, a settled message stays settled and is not given to the agent again,
\* and a waiting message is lost only by a crash.
THEOREM ImplementsMailboxHolds == Spec => ImplementsMailbox
  <1>1. Init => Mailbox!Init
      BY MailboxInit
  <1>2. IInv /\ [Next]_vars => [Mailbox!Next]_<<[m \in Msg |-> StatusOf(m)], leftover>>
      BY MailboxStepHolds DEF IInv, MailboxStep, bar
  <1> QED BY <1>1, <1>2, InvariantHolds, PTL DEF Spec, ImplementsMailbox, Mailbox!Spec

=============================================================================
