--------------------------- MODULE ConvRunner_proofs ---------------------------
(* Theorems about ConvRunner.  Each invariant is inductive relative to the     *)
(* ones before it: types; who owns the lock and the runner identity; where a  *)
(* message can be; which rows there are; what became of it; what a crash and  *)
(* the recovery leave.  A step lemma has one step per action; the actions     *)
(* that touch none of the variables of an invariant are taken together.       *)
EXTENDS ConvRunner, TLAPS

USE DEF memory, store, marked, env, history

-----------------------------------------------------------------------------
(* Types *)

LEMMA TypeInit == Init => TypeOK
  <1> SUFFICES ASSUME Init PROVE TypeOK
      OBVIOUS
  <1> USE DEF Init, NoMark, NoPrompt
  <1>1. pc \in [Msg -> TaskSteps] /\ spc \in [Stop -> StopSteps] /\ fate \in [Msg -> Fates]
      BY DEF TaskSteps, StopSteps, Fates
  <1>2. target \in [Stop -> Nat] /\ runs \in [Msg -> Nat]
      OBVIOUS
  <1>3. NoPrompt \in [msgs : SUBSET Msg, at : Nat]
      OBVIOUS
  <1> QED BY <1>1, <1>2, <1>3 DEF TypeOK

LEMMA TypeStep == TypeOK /\ [Next]_vars => TypeOK'
  <1> SUFFICES ASSUME TypeOK, [Next]_vars PROVE TypeOK'
      OBVIOUS
  <1> USE DEF TypeOK, Goto, Settle, TaskSteps, ArrivalSteps, RunnerSteps, OwnerSteps,
              StopSteps, Fates
  <1>1. ASSUME NEW m \in Msg, TaskStep(m) PROVE TypeOK'
    <2>1. CASE PlanBecomeRunner(m)
        BY <2>1 DEF PlanBecomeRunner
    <2>2. CASE PlanSteer(m)
        BY <2>2 DEF PlanSteer, SteerChannelOpen
    <2>3. CASE PlanQueueFull(m)
        BY <2>3 DEF PlanQueueFull
    <2>4. CASE PlanQueuePending(m)
        BY <2>4 DEF PlanQueuePending
    <2>5. CASE PersistQueued(m)
        BY <2>5 DEF PersistQueued, StoreOk, StoreFault
    <2>6. CASE PushBecomeRunner(m)
        BY <2>6 DEF PushBecomeRunner, Pushed
    <2>7. CASE PushPending(m)
        BY <2>7 DEF PushPending, Pushed, AfterPush
    <2>8. CASE NoteQueued(m)
        BY <2>8 DEF NoteQueued
    <2>9. CASE ClearHint(m)
        BY <2>9 DEF ClearHint
    <2>10. CASE AcquireLock(m)
        BY <2>10 DEF AcquireLock, LockAvailable
    <2>11. CASE TakeNothing(m)
        BY <2>11 DEF TakeNothing
    <2>12. CASE TakeBatch(m)
        BY <2>12 DEF TakeBatch
    <2>13. CASE DeleteBatchRows(m)
        BY <2>13 DEF DeleteBatchRows, DeleteRows, StoreOk, StoreFault, BatchRows
    <2>14. CASE StopCheck(m)
        BY <2>14 DEF StopCheck, AfterStopHit, NoMark
    <2>15. CASE PermitGranted(m)
        BY <2>15 DEF PermitGranted, AfterPermit
    <2>16. CASE RefuseRound(m)
        BY <2>16 DEF RefuseRound
    <2>17. CASE NoteInitiator(m)
        BY <2>17 DEF NoteInitiator
    <2>18. CASE ReadEpoch(m)
        BY <2>18 DEF ReadEpoch
    <2>19. CASE MarkInflight(m)
        BY <2>19 DEF MarkInflight, StoreOk, StoreFault, RoundPrompt, Texts
    <2>20. CASE RecheckStops(m)
        BY <2>20 DEF RecheckStops, NoMark
    <2>21. CASE SpawnAgent(m)
        BY <2>21 DEF SpawnAgent, NoMark
    <2>22. CASE RegisterHandle(m)
        BY <2>22 DEF RegisterHandle
    <2>23. CASE IdleTimeout(m)
        BY <2>23 DEF IdleTimeout
    <2>24. CASE CollectOutcome(m)
        BY <2>24 DEF CollectOutcome, StoreOk, StoreFault, RoundPrompt, Texts
    <2>25. CASE Unregister(m)
        BY <2>25 DEF Unregister
    <2>26. CASE ClearInflight(m)
        BY <2>26 DEF ClearInflight, StoreOk, StoreFault, NoPrompt
    <2>27. CASE SpawnCompact(m)
        BY <2>27 DEF SpawnCompact
    <2>28. CASE FinishCompact(m)
        BY <2>28 DEF FinishCompact
    <2>29. CASE ReleaseLock(m)
        BY <2>29 DEF ReleaseLock
    <2> QED BY <1>1, <2>1, <2>2, <2>3, <2>4, <2>5, <2>6, <2>7, <2>8, <2>9, <2>10, <2>11,
               <2>12, <2>13, <2>14, <2>15, <2>16, <2>17, <2>18, <2>19, <2>20, <2>21,
               <2>22, <2>23, <2>24, <2>25, <2>26, <2>27, <2>28, <2>29 DEF TaskStep
  <1>2. ASSUME NEW m \in Msg, Receive(m) \/ RemoveQueued(m) \/ PurgeRow(m) PROVE TypeOK'
    <2>1. CASE Receive(m)
        BY <2>1 DEF Receive
    <2>2. CASE RemoveQueued(m)
        BY <2>2 DEF RemoveQueued, Remaining, HintAfterRemoval
    <2>3. CASE PurgeRow(m)
        BY <2>3 DEF PurgeRow, DeleteRows, StoreOk, StoreFault
    <2> QED BY <1>2, <2>1, <2>2, <2>3
  <1>3. ASSUME NEW s \in Stop, StopIssued(s) \/ StopStep(s) PROVE TypeOK'
    <2>1. CASE StopIssued(s)
        BY <2>1 DEF StopIssued
    <2>2. CASE StopInterrupt(s)
        BY <2>2 DEF StopInterrupt
    <2>3. CASE StopTryLock(s)
        BY <2>3 DEF StopTryLock
    <2>4. CASE StopSetsMark(s)
        BY <2>4 DEF StopSetsMark, BatchAt
    <2>5. CASE StopQueue(s)
        BY <2>5 DEF StopQueue
    <2> QED BY <1>3, <2>1, <2>2, <2>3, <2>4, <2>5 DEF StopStep
  <1>4. CASE AgentReturns \/ CommandTakesLock \/ CommandReleasesLock \/ Tick
      BY <1>4 DEF AgentReturns, CommandTakesLock, CommandReleasesLock, Tick
  <1>5. CASE Crash
    <2>1. pc' \in [Msg -> TaskSteps]
        BY <1>5 DEF Crash
    <2>2. spc' \in [Stop -> StopSteps] /\ target' \in [Stop -> Nat]
        BY <1>5 DEF Crash
    <2>3. lock' = Free /\ stopMark' \in Nat /\ epoch' \in Nat /\ crashes' \in Nat
        BY <1>5 DEF Crash, NoMark
    <2> QED BY <1>5, <2>1, <2>2, <2>3 DEF Crash
  <1>6. CASE Recovery
    <2>1. CASE RecoverPrompt
        BY <2>1 DEF RecoverPrompt, RecoveredPrompt
    <2>2. CASE RecoverClearMark
        BY <2>2 DEF RecoverClearMark, NoPrompt
    <2>3. CASE RecoverNothing \/ RecoverEmptyMark
        BY <2>3 DEF RecoverNothing, RecoverEmptyMark, NoPrompt
    <2>4. CASE ReplayLoad
        BY <2>4 DEF ReplayLoad
    <2>5. CASE ReplayClear
        BY <2>5 DEF ReplayClear
    <2>6. ASSUME NEW m \in Msg, ReplaySpawn(m) PROVE TypeOK'
        BY <2>6 DEF ReplaySpawn
    <2> QED BY <1>6, <2>1, <2>2, <2>3, <2>4, <2>5, <2>6 DEF Recovery
  <1>7. CASE UNCHANGED vars
      BY <1>7 DEF vars
  <1> QED BY <1>1, <1>2, <1>3, <1>4, <1>5, <1>6, <1>7 DEF Next

\* Every variable keeps its type: no interleaving, crash or recovery takes a
\* task, a stop invocation or a message to a step or an outcome the code lacks.
THEOREM TypeCorrect == Spec => []TypeOK
  <1>1. Init => TypeOK
      BY TypeInit
  <1>2. TypeOK /\ [Next]_vars => TypeOK'
      BY TypeStep
  <1> QED BY <1>1, <1>2, PTL DEF Spec

-----------------------------------------------------------------------------
(* Whose turn it is: the conversation lock, the runner, the recovery *)

\* A task that is in a step of the runner loop owns the conversation lock.
LockOwner == \A m \in Msg : pc[m] \in OwnerSteps => lock = m

\* A conversation with a runner has a task that will take from its queue once
\* more: one that has handed the queue back is past it.
LiveRunner == claimed => \E m \in Msg : pc[m] \in RunnerSteps \ {"release"}

\* Until the recovery has cleared the rows, no handler is alive.
Booting == {"recoverRounds", "clearMark", "replayLoad", "replayClear"}
NobodyWhileBooting == phase \in Booting => \A m \in Msg : pc[m] \in {"idle", "dead"}

\* Rows are loaded only by a recovery, and their messages have no handler yet.
LoadedInRecovery == loaded # {} => phase \in {"replayClear", "replaySpawn"}
LoadedHaveNoTask == \A m \in loaded : pc[m] \in {"idle", "dead"}

Turns == LockOwner /\ LiveRunner /\ NobodyWhileBooting /\ LoadedInRecovery /\ LoadedHaveNoTask

LEMMA TurnStep == TypeOK /\ Turns /\ [Next]_vars => Turns'
  <1> SUFFICES ASSUME TypeOK, Turns, [Next]_vars PROVE Turns'
      OBVIOUS
  <1> USE DEF TypeOK, Turns, LockOwner, LiveRunner, NobodyWhileBooting,
              LoadedInRecovery, LoadedHaveNoTask, Booting, Goto, Settle, TaskSteps,
              ArrivalSteps, RunnerSteps, OwnerSteps
  <1>1. ASSUME NEW m \in Msg, TaskStep(m) PROVE Turns'
    <2>1. CASE PlanBecomeRunner(m)
        BY <2>1 DEF PlanBecomeRunner
    <2>2. CASE PlanSteer(m)
        BY <2>2 DEF PlanSteer, SteerChannelOpen
    <2>3. CASE PlanQueueFull(m)
        BY <2>3 DEF PlanQueueFull
    <2>4. CASE PlanQueuePending(m)
        BY <2>4 DEF PlanQueuePending
    <2>5. CASE PersistQueued(m)
        BY <2>5 DEF PersistQueued, StoreOk, StoreFault
    <2>6. CASE PushBecomeRunner(m)
        BY <2>6 DEF PushBecomeRunner, Pushed
    <2>7. CASE PushPending(m)
        BY <2>7 DEF PushPending, Pushed, AfterPush
    <2>8. CASE NoteQueued(m)
        BY <2>8 DEF NoteQueued
    <2>9. CASE ClearHint(m)
        BY <2>9 DEF ClearHint
    <2>10. CASE AcquireLock(m)
        BY <2>10, OwnerAssumption DEF AcquireLock, LockAvailable
    <2>11. CASE TakeNothing(m)
        BY <2>11 DEF TakeNothing
    <2>12. CASE TakeBatch(m)
        BY <2>12 DEF TakeBatch
    <2>13. CASE DeleteBatchRows(m)
        BY <2>13 DEF DeleteBatchRows, DeleteRows, StoreOk, StoreFault, BatchRows
    <2>14. CASE StopCheck(m)
        BY <2>14 DEF StopCheck, AfterStopHit, NoMark
    <2>15. CASE PermitGranted(m)
        BY <2>15 DEF PermitGranted, AfterPermit
    <2>16. CASE RefuseRound(m)
        BY <2>16 DEF RefuseRound
    <2>17. CASE NoteInitiator(m)
        BY <2>17 DEF NoteInitiator
    <2>18. CASE ReadEpoch(m)
        BY <2>18 DEF ReadEpoch
    <2>19. CASE MarkInflight(m)
        BY <2>19 DEF MarkInflight, StoreOk, StoreFault, RoundPrompt, Texts
    <2>20. CASE RecheckStops(m)
        BY <2>20 DEF RecheckStops, NoMark
    <2>21. CASE SpawnAgent(m)
        BY <2>21 DEF SpawnAgent, NoMark
    <2>22. CASE RegisterHandle(m)
        BY <2>22 DEF RegisterHandle
    <2>23. CASE CollectOutcome(m)
        BY <2>23 DEF CollectOutcome, StoreOk, StoreFault, RoundPrompt, Texts
    <2>24. CASE Unregister(m)
        BY <2>24 DEF Unregister
    <2>25. CASE ClearInflight(m)
        BY <2>25 DEF ClearInflight, StoreOk, StoreFault, NoPrompt
    <2>26. CASE SpawnCompact(m)
        BY <2>26 DEF SpawnCompact
    <2>27. CASE FinishCompact(m)
        BY <2>27 DEF FinishCompact
    <2>28. CASE ReleaseLock(m)
        BY <2>28, OwnerAssumption DEF ReleaseLock
    <2>29. CASE IdleTimeout(m)
        BY <2>29 DEF IdleTimeout
    <2> QED BY <1>1, <2>1, <2>2, <2>3, <2>4, <2>5, <2>6, <2>7, <2>8, <2>9, <2>10, <2>11,
               <2>12, <2>13, <2>14, <2>15, <2>16, <2>17, <2>18, <2>19, <2>20, <2>21,
               <2>22, <2>23, <2>24, <2>25, <2>26, <2>27, <2>28, <2>29 DEF TaskStep
  <1>2. ASSUME NEW m \in Msg, Receive(m) \/ RemoveQueued(m) \/ PurgeRow(m) PROVE Turns'
    <2>1. CASE Receive(m)
        BY <2>1 DEF Receive
    <2>2. CASE RemoveQueued(m) \/ PurgeRow(m)
        BY <2>2 DEF RemoveQueued, Remaining, HintAfterRemoval, PurgeRow, DeleteRows,
            StoreOk, StoreFault
    <2> QED BY <1>2, <2>1, <2>2
  <1>3. ASSUME NEW s \in Stop, StopIssued(s) \/ StopStep(s) PROVE Turns'
    <2>1. CASE StopQueue(s)
        BY <2>1 DEF StopQueue
    <2>2. CASE StopIssued(s) \/ StopInterrupt(s) \/ StopTryLock(s) \/ StopSetsMark(s)
        BY <2>2 DEF StopIssued, StopInterrupt, StopTryLock, StopSetsMark
    <2> QED BY <1>3, <2>1, <2>2 DEF StopStep
  <1>4. CASE AgentReturns \/ CommandTakesLock \/ CommandReleasesLock \/ Tick
      BY <1>4, OwnerAssumption DEF AgentReturns, CommandTakesLock, CommandReleasesLock,
          Tick
  <1>5. CASE Crash
      BY <1>5 DEF Crash, NoMark
  <1>6. CASE Recovery
    <2>1. CASE RecoverPrompt
        BY <2>1 DEF RecoverPrompt, RecoveredPrompt
    <2>2. CASE RecoverClearMark
        BY <2>2 DEF RecoverClearMark, NoPrompt
    <2>3. CASE RecoverNothing \/ RecoverEmptyMark
        BY <2>3 DEF RecoverNothing, RecoverEmptyMark, NoPrompt
    <2>4. CASE ReplayLoad
        BY <2>4 DEF ReplayLoad
    <2>5. CASE ReplayClear
        BY <2>5 DEF ReplayClear
    <2>6. ASSUME NEW m \in Msg, ReplaySpawn(m) PROVE Turns'
        BY <2>6 DEF ReplaySpawn
    <2> QED BY <1>6, <2>1, <2>2, <2>3, <2>4, <2>5, <2>6 DEF Recovery
  <1>7. CASE UNCHANGED vars
      BY <1>7 DEF vars
  <1> QED BY <1>1, <1>2, <1>3, <1>4, <1>5, <1>6, <1>7 DEF Next

-----------------------------------------------------------------------------
(* Where a message can be *)

\* A message whose handler has not pushed it, or was killed, is nowhere.
NotQueuedSteps == {"idle", "plan", "persistRunner", "persistPending",
                   "pushRunner", "pushPending", "dead"}
Unqueued == \A m \in Msg : pc[m] \in NotQueuedSteps => m \notin queue \cup batch \cup purge

\* What is queued is neither in the batch nor about to lose its row.
Disjoint == queue \cap batch = {} /\ queue \cap purge = {}

\* A batch is in the hands of a task that is about to run it or runs it.
BatchOwner == batch # {} => \E m \in Msg : pc[m] \in PreSpawn \cup RoundSteps

Places == Unqueued /\ Disjoint /\ BatchOwner /\ NoStaleHint

LEMMA PlaceStep == TypeOK /\ Turns /\ Places /\ [Next]_vars => Places'
  <1> SUFFICES ASSUME TypeOK, Turns, Places, [Next]_vars PROVE Places'
      OBVIOUS
  <1> USE DEF TypeOK, Turns, LockOwner, LiveRunner, NobodyWhileBooting,
              LoadedInRecovery, LoadedHaveNoTask, Booting, Places, Unqueued, Disjoint,
              BatchOwner, NoStaleHint, NotQueuedSteps, PreSpawn, RoundSteps, Goto,
              Settle, TaskSteps, ArrivalSteps, RunnerSteps, OwnerSteps
  <1>1. ASSUME NEW m \in Msg, TaskStep(m) PROVE Places'
    <2>1. CASE PlanBecomeRunner(m)
        BY <2>1 DEF PlanBecomeRunner
    <2>2. CASE PlanSteer(m)
        BY <2>2 DEF PlanSteer, SteerChannelOpen
    <2>3. CASE PlanQueueFull(m)
        BY <2>3 DEF PlanQueueFull
    <2>4. CASE PlanQueuePending(m)
        BY <2>4 DEF PlanQueuePending
    <2>5. CASE PersistQueued(m)
        BY <2>5 DEF PersistQueued, StoreOk, StoreFault
    <2>6. CASE PushBecomeRunner(m)
        BY <2>6 DEF PushBecomeRunner, Pushed
    <2>7. CASE PushPending(m)
        BY <2>7 DEF PushPending, Pushed, AfterPush
    <2>8. CASE NoteQueued(m)
        BY <2>8 DEF NoteQueued
    <2>9. CASE ClearHint(m)
        BY <2>9 DEF ClearHint
    <2>10. CASE AcquireLock(m)
        BY <2>10 DEF AcquireLock, LockAvailable
    <2>11. CASE TakeNothing(m)
        BY <2>11 DEF TakeNothing
    <2>12. CASE TakeBatch(m)
        BY <2>12 DEF TakeBatch
    <2>13. CASE DeleteBatchRows(m)
        BY <2>13 DEF DeleteBatchRows, DeleteRows, StoreOk, StoreFault, BatchRows
    <2>14. CASE StopCheck(m)
        BY <2>14 DEF StopCheck, AfterStopHit, NoMark
    <2>15. CASE PermitGranted(m)
        BY <2>15 DEF PermitGranted, AfterPermit
    <2>16. CASE RefuseRound(m)
        BY <2>16 DEF RefuseRound
    <2>17. CASE NoteInitiator(m)
        BY <2>17 DEF NoteInitiator
    <2>18. CASE ReadEpoch(m)
        BY <2>18 DEF ReadEpoch
    <2>19. CASE MarkInflight(m)
        BY <2>19 DEF MarkInflight, StoreOk, StoreFault, RoundPrompt, Texts
    <2>20. CASE RecheckStops(m)
        BY <2>20 DEF RecheckStops, NoMark
    <2>21. CASE SpawnAgent(m)
        BY <2>21 DEF SpawnAgent, NoMark
    <2>22. CASE RegisterHandle(m)
        BY <2>22 DEF RegisterHandle
    <2>23. CASE CollectOutcome(m)
        BY <2>23 DEF CollectOutcome, StoreOk, StoreFault, RoundPrompt, Texts
    <2>24. CASE Unregister(m)
        BY <2>24 DEF Unregister
    <2>25. CASE ClearInflight(m)
        BY <2>25 DEF ClearInflight, StoreOk, StoreFault, NoPrompt
    <2>26. CASE SpawnCompact(m)
        BY <2>26 DEF SpawnCompact
    <2>27. CASE FinishCompact(m)
        BY <2>27 DEF FinishCompact
    <2>28. CASE ReleaseLock(m)
        BY <2>28 DEF ReleaseLock
    <2>29. CASE IdleTimeout(m)
        BY <2>29 DEF IdleTimeout
    <2> QED BY <1>1, <2>1, <2>2, <2>3, <2>4, <2>5, <2>6, <2>7, <2>8, <2>9, <2>10, <2>11,
               <2>12, <2>13, <2>14, <2>15, <2>16, <2>17, <2>18, <2>19, <2>20, <2>21,
               <2>22, <2>23, <2>24, <2>25, <2>26, <2>27, <2>28, <2>29 DEF TaskStep
  <1>2. ASSUME NEW m \in Msg, Receive(m) \/ RemoveQueued(m) \/ PurgeRow(m) PROVE Places'
    <2>1. CASE Receive(m)
        BY <2>1 DEF Receive
    <2>2. CASE RemoveQueued(m)
      <3>1. Unqueued' /\ Disjoint' /\ BatchOwner'
          BY <2>2 DEF RemoveQueued, Remaining
      <3>2. ASSUME hinted' PROVE queue' # {}
        <4>1. m \in queue /\ queue # {m} /\ queue' = queue \ {m}
            BY <2>2, <3>2 DEF RemoveQueued, Remaining, HintAfterRemoval
        <4>2. PICK n \in queue : n # m
            BY <4>1
        <4> QED BY <4>1, <4>2
      <3> QED BY <3>1, <3>2
    <2>3. CASE PurgeRow(m)
        BY <2>3 DEF PurgeRow, DeleteRows, StoreOk, StoreFault
    <2> QED BY <1>2, <2>1, <2>2, <2>3
  <1>3. ASSUME NEW s \in Stop, StopIssued(s) \/ StopStep(s) PROVE Places'
    <2>1. CASE StopQueue(s)
        BY <2>1 DEF StopQueue
    <2>2. CASE StopIssued(s) \/ StopInterrupt(s) \/ StopTryLock(s) \/ StopSetsMark(s)
        BY <2>2 DEF StopIssued, StopInterrupt, StopTryLock, StopSetsMark
    <2> QED BY <1>3, <2>1, <2>2 DEF StopStep
  <1>4. CASE AgentReturns \/ CommandTakesLock \/ CommandReleasesLock \/ Tick
      BY <1>4 DEF AgentReturns, CommandTakesLock, CommandReleasesLock, Tick
  <1>5. CASE Crash
      BY <1>5 DEF Crash, NoMark
  <1>6. CASE Recovery
    <2>1. CASE RecoverPrompt \/ RecoverClearMark \/ RecoverEmptyMark \/ RecoverNothing \/
              ReplayLoad \/ ReplayClear
        BY <2>1 DEF RecoverPrompt, RecoveredPrompt, RecoverClearMark, NoPrompt,
            RecoverEmptyMark, RecoverNothing, ReplayLoad, ReplayClear
    <2>2. ASSUME NEW m \in Msg, ReplaySpawn(m) PROVE Places'
        BY <2>2 DEF ReplaySpawn
    <2> QED BY <1>6, <2>1, <2>2 DEF Recovery
  <1>7. CASE UNCHANGED vars
      BY <1>7 DEF vars
  <1> QED BY <1>1, <1>2, <1>3, <1>4, <1>5, <1>6, <1>7 DEF Next

-----------------------------------------------------------------------------
(* Which rows there are *)

\* A message about to be pushed has its row, unless the INSERT failed.
SavedBeforePush == \A m \in Msg : pc[m] \in {"pushRunner", "pushPending"} => m \in rows \cup unsaved

\* A message whose row was not written yet has none: replay starts from nothing.
NoRowBeforeSave ==
    \A m \in Msg : pc[m] \in {"idle", "plan", "persistRunner", "persistPending"} => m \notin rows
LoadedDied == \A m \in loaded : pc[m] = "dead"
RowsLoaded == phase = "replayClear" => rows \subseteq loaded
LoadedRowsCleared == phase = "replaySpawn" => loaded \cap rows = {}

\* After the deletion a row of the batch is there only if the DELETE failed.
BatchRowsDeleted ==
    \A m \in Msg : pc[m] \in (PreSpawn \ {"deleteRows"}) \cup RoundSteps => batch \cap rows \subseteq leftover

Records == SavedBeforePush /\ RowsProtectQueue /\ NoRowBeforeSave
           /\ LoadedDied /\ RowsLoaded /\ LoadedRowsCleared /\ BatchRowsDeleted

LEMMA RecordStep == TypeOK /\ Turns /\ Places /\ Records /\ [Next]_vars => Records'
  <1> SUFFICES ASSUME TypeOK, Turns, Places, Records, [Next]_vars PROVE Records'
      OBVIOUS
  <1> USE DEF TypeOK, Records, Turns, LockOwner, LiveRunner, NobodyWhileBooting,
              LoadedInRecovery, LoadedHaveNoTask, Booting, Places, Unqueued, Disjoint,
              BatchOwner, NoStaleHint, NotQueuedSteps, PreSpawn, RoundSteps,
              SavedBeforePush, RowsProtectQueue, NoRowBeforeSave, LoadedDied,
              RowsLoaded, LoadedRowsCleared, BatchRowsDeleted, Goto, Settle, TaskSteps,
              ArrivalSteps, RunnerSteps, OwnerSteps
  <1>1. ASSUME NEW m \in Msg, TaskStep(m) PROVE Records'
    <2>1. CASE PlanBecomeRunner(m)
        BY <2>1 DEF PlanBecomeRunner
    <2>2. CASE PlanSteer(m)
        BY <2>2 DEF PlanSteer, SteerChannelOpen
    <2>3. CASE PlanQueueFull(m)
        BY <2>3 DEF PlanQueueFull
    <2>4. CASE PlanQueuePending(m)
        BY <2>4 DEF PlanQueuePending
    <2>5. CASE PersistQueued(m)
        BY <2>5 DEF PersistQueued, StoreOk, StoreFault
    <2>6. CASE PushBecomeRunner(m)
        BY <2>6 DEF PushBecomeRunner, Pushed
    <2>7. CASE PushPending(m)
        BY <2>7 DEF PushPending, Pushed, AfterPush
    <2>8. CASE NoteQueued(m)
        BY <2>8 DEF NoteQueued
    <2>9. CASE ClearHint(m)
        BY <2>9 DEF ClearHint
    <2>10. CASE AcquireLock(m)
        BY <2>10 DEF AcquireLock, LockAvailable
    <2>11. CASE TakeNothing(m)
        BY <2>11 DEF TakeNothing
    <2>12. CASE TakeBatch(m)
        BY <2>12 DEF TakeBatch
    <2>13. CASE DeleteBatchRows(m)
        BY <2>13 DEF DeleteBatchRows, DeleteRows, StoreOk, StoreFault, BatchRows
    <2>14. CASE StopCheck(m)
        BY <2>14 DEF StopCheck, AfterStopHit, NoMark
    <2>15. CASE PermitGranted(m)
        BY <2>15 DEF PermitGranted, AfterPermit
    <2>16. CASE RefuseRound(m)
        BY <2>16 DEF RefuseRound
    <2>17. CASE NoteInitiator(m)
        BY <2>17 DEF NoteInitiator
    <2>18. CASE ReadEpoch(m)
        BY <2>18 DEF ReadEpoch
    <2>19. CASE MarkInflight(m)
        BY <2>19 DEF MarkInflight, StoreOk, StoreFault, RoundPrompt, Texts
    <2>20. CASE RecheckStops(m)
        BY <2>20 DEF RecheckStops, NoMark
    <2>21. CASE SpawnAgent(m)
        BY <2>21 DEF SpawnAgent, NoMark
    <2>22. CASE RegisterHandle(m)
        BY <2>22 DEF RegisterHandle
    <2>23. CASE CollectOutcome(m)
        BY <2>23 DEF CollectOutcome, StoreOk, StoreFault, RoundPrompt, Texts
    <2>24. CASE Unregister(m)
        BY <2>24 DEF Unregister
    <2>25. CASE ClearInflight(m)
        BY <2>25 DEF ClearInflight, StoreOk, StoreFault, NoPrompt
    <2>26. CASE SpawnCompact(m)
        BY <2>26 DEF SpawnCompact
    <2>27. CASE FinishCompact(m)
        BY <2>27 DEF FinishCompact
    <2>28. CASE ReleaseLock(m)
        BY <2>28 DEF ReleaseLock
    <2>29. CASE IdleTimeout(m)
        BY <2>29 DEF IdleTimeout
    <2> QED BY <1>1, <2>1, <2>2, <2>3, <2>4, <2>5, <2>6, <2>7, <2>8, <2>9, <2>10, <2>11,
               <2>12, <2>13, <2>14, <2>15, <2>16, <2>17, <2>18, <2>19, <2>20, <2>21,
               <2>22, <2>23, <2>24, <2>25, <2>26, <2>27, <2>28, <2>29 DEF TaskStep
  <1>2. ASSUME NEW m \in Msg, Receive(m) \/ RemoveQueued(m) \/ PurgeRow(m) PROVE Records'
    <2>1. CASE Receive(m)
        BY <2>1 DEF Receive
    <2>2. CASE RemoveQueued(m)
        BY <2>2 DEF RemoveQueued, Remaining, HintAfterRemoval
    <2>3. CASE PurgeRow(m)
        BY <2>3 DEF PurgeRow, DeleteRows, StoreOk, StoreFault
    <2> QED BY <1>2, <2>1, <2>2, <2>3
  <1>3. ASSUME NEW s \in Stop, StopIssued(s) \/ StopStep(s) PROVE Records'
    <2>1. CASE StopQueue(s)
        BY <2>1 DEF StopQueue
    <2>2. CASE StopIssued(s) \/ StopInterrupt(s) \/ StopTryLock(s) \/ StopSetsMark(s)
        BY <2>2 DEF StopIssued, StopInterrupt, StopTryLock, StopSetsMark
    <2> QED BY <1>3, <2>1, <2>2 DEF StopStep
  <1>4. CASE AgentReturns \/ CommandTakesLock \/ CommandReleasesLock \/ Tick
      BY <1>4 DEF AgentReturns, CommandTakesLock, CommandReleasesLock, Tick
  <1>5. CASE Crash
      BY <1>5 DEF Crash, NoMark
  <1>6. CASE Recovery
    <2>1. CASE RecoverPrompt
        BY <2>1 DEF RecoverPrompt, RecoveredPrompt
    <2>2. CASE RecoverClearMark
        BY <2>2 DEF RecoverClearMark, NoPrompt
    <2>3. CASE RecoverNothing \/ RecoverEmptyMark
        BY <2>3 DEF RecoverNothing, RecoverEmptyMark, NoPrompt
    <2>4. CASE ReplayLoad
        BY <2>4 DEF ReplayLoad
    <2>5. CASE ReplayClear
        BY <2>5 DEF ReplayClear
    <2>6. ASSUME NEW m \in Msg, ReplaySpawn(m) PROVE Records'
        BY <2>6 DEF ReplaySpawn
    <2> QED BY <1>6, <2>1, <2>2, <2>3, <2>4, <2>5, <2>6 DEF Recovery
  <1>7. CASE UNCHANGED vars
      BY <1>7 DEF vars
  <1> QED BY <1>1, <1>2, <1>3, <1>4, <1>5, <1>6, <1>7 DEF Next

-----------------------------------------------------------------------------
(* What became of a message *)

\* A message is unsettled while its handler has not pushed it, while it is
\* queued, and while its batch is on the way to the agent.
Unsettled ==
    \A m \in Msg :
        \/ pc[m] \in NotQueuedSteps \ {"dead"}
        \/ m \in queue
        \/ m \in batch /\ \E r \in Msg : pc[r] \in PreSpawn
        => fate[m] = "none"

\* The batch of a running round is settled: it was handed to the agent.
RanInRound == \A m \in Msg : pc[m] \in RoundSteps => \A b \in batch : fate[b] = "ran"

\* A replayed message was not settled before the crash, or its row outlived it.
LoadedUnsettled == \A m \in loaded : fate[m] = "none" \/ m \in leftover

Outcomes == Unsettled /\ RanInRound /\ LoadedUnsettled /\ RowsArePending /\ NoSilentLoss

LEMMA OutcomeStep ==
    TypeOK /\ Turns /\ Places /\ Records /\ Outcomes /\ [Next]_vars => Outcomes'
  <1> SUFFICES ASSUME TypeOK, Turns, Places, Records, Outcomes,
                       [Next]_vars PROVE Outcomes'
      OBVIOUS
  <1> USE DEF TypeOK, Records, Outcomes, Turns, LockOwner, LiveRunner,
              NobodyWhileBooting, LoadedInRecovery, LoadedHaveNoTask, Booting, Places,
              Unqueued, Disjoint, BatchOwner, NoStaleHint, NotQueuedSteps, PreSpawn,
              RoundSteps, SavedBeforePush, RowsProtectQueue, NoRowBeforeSave,
              LoadedDied, RowsLoaded, LoadedRowsCleared, BatchRowsDeleted, Unsettled,
              RanInRound, LoadedUnsettled, RowsArePending, NoSilentLoss, Goto, Settle,
              TaskSteps, ArrivalSteps, RunnerSteps, OwnerSteps
  <1>1. ASSUME NEW m \in Msg, TaskStep(m) PROVE Outcomes'
    <2>1. CASE PlanBecomeRunner(m)
        BY <2>1 DEF PlanBecomeRunner
    <2>2. CASE PlanSteer(m)
        BY <2>2 DEF PlanSteer, SteerChannelOpen
    <2>3. CASE PlanQueueFull(m)
        BY <2>3 DEF PlanQueueFull
    <2>4. CASE PlanQueuePending(m)
        BY <2>4 DEF PlanQueuePending
    <2>5. CASE PersistQueued(m)
        BY <2>5 DEF PersistQueued, StoreOk, StoreFault
    <2>6. CASE PushBecomeRunner(m)
        BY <2>6 DEF PushBecomeRunner, Pushed
    <2>7. CASE PushPending(m)
        BY <2>7 DEF PushPending, Pushed, AfterPush
    <2>8. CASE NoteQueued(m)
        BY <2>8 DEF NoteQueued
    <2>9. CASE ClearHint(m)
        BY <2>9 DEF ClearHint
    <2>10. CASE AcquireLock(m)
        BY <2>10 DEF AcquireLock, LockAvailable
    <2>11. CASE TakeNothing(m)
        BY <2>11 DEF TakeNothing
    <2>12. CASE TakeBatch(m)
        BY <2>12 DEF TakeBatch
    <2>13. CASE DeleteBatchRows(m)
        BY <2>13 DEF DeleteBatchRows, DeleteRows, StoreOk, StoreFault, BatchRows
    <2>14. CASE StopCheck(m)
        BY <2>14 DEF StopCheck, AfterStopHit, NoMark
    <2>15. CASE PermitGranted(m)
        BY <2>15 DEF PermitGranted, AfterPermit
    <2>16. CASE RefuseRound(m)
        BY <2>16 DEF RefuseRound
    <2>17. CASE NoteInitiator(m)
        BY <2>17 DEF NoteInitiator
    <2>18. CASE ReadEpoch(m)
        BY <2>18 DEF ReadEpoch
    <2>19. CASE MarkInflight(m)
        BY <2>19 DEF MarkInflight, StoreOk, StoreFault, RoundPrompt, Texts
    <2>20. CASE RecheckStops(m)
        BY <2>20 DEF RecheckStops, NoMark
    <2>21. CASE SpawnAgent(m)
        BY <2>21 DEF SpawnAgent, NoMark
    <2>22. CASE RegisterHandle(m)
        BY <2>22 DEF RegisterHandle
    <2>23. CASE CollectOutcome(m)
        BY <2>23 DEF CollectOutcome, StoreOk, StoreFault, RoundPrompt, Texts
    <2>24. CASE Unregister(m)
        BY <2>24 DEF Unregister
    <2>25. CASE ClearInflight(m)
        BY <2>25 DEF ClearInflight, StoreOk, StoreFault, NoPrompt
    <2>26. CASE SpawnCompact(m)
        BY <2>26 DEF SpawnCompact
    <2>27. CASE FinishCompact(m)
        BY <2>27 DEF FinishCompact
    <2>28. CASE ReleaseLock(m)
        BY <2>28 DEF ReleaseLock
    <2>29. CASE IdleTimeout(m)
        BY <2>29 DEF IdleTimeout
    <2> QED BY <1>1, <2>1, <2>2, <2>3, <2>4, <2>5, <2>6, <2>7, <2>8, <2>9, <2>10, <2>11,
               <2>12, <2>13, <2>14, <2>15, <2>16, <2>17, <2>18, <2>19, <2>20, <2>21,
               <2>22, <2>23, <2>24, <2>25, <2>26, <2>27, <2>28, <2>29 DEF TaskStep
  <1>2. ASSUME NEW m \in Msg, Receive(m) \/ RemoveQueued(m) \/ PurgeRow(m) PROVE Outcomes'
    <2>1. CASE Receive(m)
        BY <2>1 DEF Receive
    <2>2. CASE RemoveQueued(m)
        BY <2>2 DEF RemoveQueued, Remaining, HintAfterRemoval
    <2>3. CASE PurgeRow(m)
        BY <2>3 DEF PurgeRow, DeleteRows, StoreOk, StoreFault
    <2> QED BY <1>2, <2>1, <2>2, <2>3
  <1>3. ASSUME NEW s \in Stop, StopIssued(s) \/ StopStep(s) PROVE Outcomes'
    <2>1. CASE StopQueue(s)
        BY <2>1 DEF StopQueue
    <2>2. CASE StopIssued(s) \/ StopInterrupt(s) \/ StopTryLock(s) \/ StopSetsMark(s)
        BY <2>2 DEF StopIssued, StopInterrupt, StopTryLock, StopSetsMark
    <2> QED BY <1>3, <2>1, <2>2 DEF StopStep
  <1>4. CASE AgentReturns \/ CommandTakesLock \/ CommandReleasesLock \/ Tick
      BY <1>4 DEF AgentReturns, CommandTakesLock, CommandReleasesLock, Tick
  <1>5. CASE Crash
      BY <1>5 DEF Crash, NoMark
  <1>6. CASE Recovery
    <2>1. CASE ReplayLoad
        BY <2>1 DEF ReplayLoad
    <2>2. CASE ReplayClear
        BY <2>2 DEF ReplayClear
    <2>3. CASE RecoverPrompt \/ RecoverClearMark \/ RecoverEmptyMark \/ RecoverNothing
        BY <2>3 DEF RecoverPrompt, RecoveredPrompt, RecoverClearMark, NoPrompt,
            RecoverEmptyMark, RecoverNothing
    <2>4. ASSUME NEW m \in Msg, ReplaySpawn(m) PROVE Outcomes'
        BY <2>4 DEF ReplaySpawn
    <2> QED BY <1>6, <2>1, <2>2, <2>3, <2>4 DEF Recovery
  <1>7. CASE UNCHANGED vars
      BY <1>7 DEF vars
  <1> QED BY <1>1, <1>2, <1>3, <1>4, <1>5, <1>6, <1>7 DEF Next

-----------------------------------------------------------------------------
(* How often a message is executed *)

NotYetRun(m) == runs[m] = 0 \/ m \in leftover

\* A message that was handed to an agent, and whose row did not outlive it, ran
\* once and is nowhere from where it could come back.
RanOnce ==
    \A m \in Msg :
        \/ NotYetRun(m)
        \/ /\ runs[m] = 1
           /\ m \notin rows \cup loaded \cup queue
           /\ pc[m] \notin NotQueuedSteps \ {"dead"}
           /\ ~(m \in batch /\ \E r \in Msg : pc[r] \in PreSpawn)

LEMMA RunStep ==
    TypeOK /\ Turns /\ Places /\ Records /\ RanOnce /\ [Next]_vars => RanOnce'
  <1> SUFFICES ASSUME TypeOK, Turns, Places, Records, RanOnce,
                       [Next]_vars PROVE RanOnce'
      OBVIOUS
  <1> USE DEF TypeOK, Records, Turns, LockOwner, LiveRunner, NobodyWhileBooting,
              LoadedInRecovery, LoadedHaveNoTask, Booting, Places, Unqueued, Disjoint,
              BatchOwner, NoStaleHint, NotQueuedSteps, PreSpawn, RoundSteps,
              SavedBeforePush, RowsProtectQueue, NoRowBeforeSave, LoadedDied,
              RowsLoaded, LoadedRowsCleared, BatchRowsDeleted, RanOnce, NotYetRun, Goto,
              Settle, TaskSteps, ArrivalSteps, RunnerSteps, OwnerSteps
  <1>1. ASSUME NEW m \in Msg, TaskStep(m) PROVE RanOnce'
    <2>1. CASE PlanBecomeRunner(m)
        BY <2>1 DEF PlanBecomeRunner
    <2>2. CASE PlanSteer(m)
        BY <2>2 DEF PlanSteer, SteerChannelOpen
    <2>3. CASE PlanQueueFull(m)
        BY <2>3 DEF PlanQueueFull
    <2>4. CASE PlanQueuePending(m)
        BY <2>4 DEF PlanQueuePending
    <2>5. CASE PersistQueued(m)
        BY <2>5 DEF PersistQueued, StoreOk, StoreFault
    <2>6. CASE PushBecomeRunner(m)
        BY <2>6 DEF PushBecomeRunner, Pushed
    <2>7. CASE PushPending(m)
        BY <2>7 DEF PushPending, Pushed, AfterPush
    <2>8. CASE NoteQueued(m)
        BY <2>8 DEF NoteQueued
    <2>9. CASE ClearHint(m)
        BY <2>9 DEF ClearHint
    <2>10. CASE AcquireLock(m)
        BY <2>10 DEF AcquireLock, LockAvailable
    <2>11. CASE TakeNothing(m)
        BY <2>11 DEF TakeNothing
    <2>12. CASE TakeBatch(m)
        BY <2>12 DEF TakeBatch
    <2>13. CASE DeleteBatchRows(m)
        BY <2>13 DEF DeleteBatchRows, DeleteRows, StoreOk, StoreFault, BatchRows
    <2>14. CASE StopCheck(m)
        BY <2>14 DEF StopCheck, AfterStopHit, NoMark
    <2>15. CASE PermitGranted(m)
        BY <2>15 DEF PermitGranted, AfterPermit
    <2>16. CASE RefuseRound(m)
        BY <2>16 DEF RefuseRound
    <2>17. CASE NoteInitiator(m)
        BY <2>17 DEF NoteInitiator
    <2>18. CASE ReadEpoch(m)
        BY <2>18 DEF ReadEpoch
    <2>19. CASE MarkInflight(m)
        BY <2>19 DEF MarkInflight, StoreOk, StoreFault, RoundPrompt, Texts
    <2>20. CASE RecheckStops(m)
        BY <2>20 DEF RecheckStops, NoMark
    <2>21. CASE SpawnAgent(m)
        BY <2>21 DEF SpawnAgent, NoMark
    <2>22. CASE RegisterHandle(m)
        BY <2>22 DEF RegisterHandle
    <2>23. CASE CollectOutcome(m)
        BY <2>23 DEF CollectOutcome, StoreOk, StoreFault, RoundPrompt, Texts
    <2>24. CASE Unregister(m)
        BY <2>24 DEF Unregister
    <2>25. CASE ClearInflight(m)
        BY <2>25 DEF ClearInflight, StoreOk, StoreFault, NoPrompt
    <2>26. CASE SpawnCompact(m)
        BY <2>26 DEF SpawnCompact
    <2>27. CASE FinishCompact(m)
        BY <2>27 DEF FinishCompact
    <2>28. CASE ReleaseLock(m)
        BY <2>28 DEF ReleaseLock
    <2>29. CASE IdleTimeout(m)
        BY <2>29 DEF IdleTimeout
    <2> QED BY <1>1, <2>1, <2>2, <2>3, <2>4, <2>5, <2>6, <2>7, <2>8, <2>9, <2>10, <2>11,
               <2>12, <2>13, <2>14, <2>15, <2>16, <2>17, <2>18, <2>19, <2>20, <2>21,
               <2>22, <2>23, <2>24, <2>25, <2>26, <2>27, <2>28, <2>29 DEF TaskStep
  <1>2. ASSUME NEW m \in Msg, Receive(m) \/ RemoveQueued(m) \/ PurgeRow(m) PROVE RanOnce'
    <2>1. CASE Receive(m)
        BY <2>1 DEF Receive
    <2>2. CASE RemoveQueued(m)
        BY <2>2 DEF RemoveQueued, Remaining, HintAfterRemoval
    <2>3. CASE PurgeRow(m)
        BY <2>3 DEF PurgeRow, DeleteRows, StoreOk, StoreFault
    <2> QED BY <1>2, <2>1, <2>2, <2>3
  <1>3. ASSUME NEW s \in Stop, StopIssued(s) \/ StopStep(s) PROVE RanOnce'
    <2>1. CASE StopQueue(s)
        BY <2>1 DEF StopQueue
    <2>2. CASE StopIssued(s) \/ StopInterrupt(s) \/ StopTryLock(s) \/ StopSetsMark(s)
        BY <2>2 DEF StopIssued, StopInterrupt, StopTryLock, StopSetsMark
    <2> QED BY <1>3, <2>1, <2>2 DEF StopStep
  <1>4. CASE AgentReturns \/ CommandTakesLock \/ CommandReleasesLock \/ Tick
      BY <1>4 DEF AgentReturns, CommandTakesLock, CommandReleasesLock, Tick
  <1>5. CASE Crash
      BY <1>5 DEF Crash, NoMark
  <1>6. CASE Recovery
    <2>1. CASE ReplayLoad
        BY <2>1 DEF ReplayLoad
    <2>2. CASE ReplayClear
        BY <2>2 DEF ReplayClear
    <2>3. CASE RecoverPrompt \/ RecoverClearMark \/ RecoverEmptyMark \/ RecoverNothing
        BY <2>3 DEF RecoverPrompt, RecoveredPrompt, RecoverClearMark, NoPrompt,
            RecoverEmptyMark, RecoverNothing
    <2>4. ASSUME NEW m \in Msg, ReplaySpawn(m) PROVE RanOnce'
        BY <2>4 DEF ReplaySpawn
    <2> QED BY <1>6, <2>1, <2>2, <2>3, <2>4 DEF Recovery
  <1>7. CASE UNCHANGED vars
      BY <1>7 DEF vars
  <1> QED BY <1>1, <1>2, <1>3, <1>4, <1>5, <1>6, <1>7 DEF Next

-----------------------------------------------------------------------------
(* What a crash leaves of a running round *)

\* From the recheck on, the inflight mark is there, with the texts of the batch
\* (unless a write failed).
ClockRuns == clock # 0
BatchMarked ==
    \A m \in Msg : pc[m] \in {"recheck"} \cup RoundSteps =>
        \/ inflight # NoPrompt /\ inflight.msgs = batch \ MediaOnly
        \/ faults # 0

\* When the recovery is about to remove the mark, /retry has its prompt.
PromptKept == phase = "clearMark" => retry = inflight \/ retry.at > inflight.at

Prompts == ClockRuns /\ BatchMarked /\ PromptKept

LEMMA PromptStep == TypeOK /\ Turns /\ Prompts /\ [Next]_vars => Prompts'
  <1> SUFFICES ASSUME TypeOK, Turns, Prompts, [Next]_vars PROVE Prompts'
      OBVIOUS
  <1> USE DEF TypeOK, Turns, LockOwner, LiveRunner, NobodyWhileBooting,
              LoadedInRecovery, LoadedHaveNoTask, Booting, Prompts, ClockRuns, BatchMarked,
              PromptKept, RoundSteps, PreSpawn, Goto, Settle, TaskSteps, ArrivalSteps,
              RunnerSteps, OwnerSteps
  <1>1. ASSUME NEW m \in Msg, TaskStep(m) PROVE Prompts'
    <2>1. CASE PlanBecomeRunner(m)
        BY <2>1 DEF PlanBecomeRunner
    <2>2. CASE PlanSteer(m)
        BY <2>2 DEF PlanSteer, SteerChannelOpen
    <2>3. CASE PlanQueueFull(m)
        BY <2>3 DEF PlanQueueFull
    <2>4. CASE PlanQueuePending(m)
        BY <2>4 DEF PlanQueuePending
    <2>5. CASE PersistQueued(m)
        BY <2>5 DEF PersistQueued, StoreOk, StoreFault
    <2>6. CASE PushBecomeRunner(m)
        BY <2>6 DEF PushBecomeRunner, Pushed
    <2>7. CASE PushPending(m)
        BY <2>7 DEF PushPending, Pushed, AfterPush
    <2>8. CASE NoteQueued(m)
        BY <2>8 DEF NoteQueued
    <2>9. CASE ClearHint(m)
        BY <2>9 DEF ClearHint
    <2>10. CASE AcquireLock(m)
        BY <2>10 DEF AcquireLock, LockAvailable
    <2>11. CASE TakeNothing(m)
        BY <2>11 DEF TakeNothing
    <2>12. CASE TakeBatch(m)
        BY <2>12 DEF TakeBatch
    <2>13. CASE DeleteBatchRows(m)
        BY <2>13 DEF DeleteBatchRows, DeleteRows, StoreOk, StoreFault, BatchRows
    <2>14. CASE StopCheck(m)
        BY <2>14 DEF StopCheck, AfterStopHit, NoMark
    <2>15. CASE PermitGranted(m)
        BY <2>15 DEF PermitGranted, AfterPermit
    <2>16. CASE RefuseRound(m)
        BY <2>16 DEF RefuseRound
    <2>17. CASE NoteInitiator(m)
        BY <2>17 DEF NoteInitiator
    <2>18. CASE ReadEpoch(m)
        BY <2>18 DEF ReadEpoch
    <2>19. CASE MarkInflight(m)
        BY <2>19 DEF MarkInflight, StoreOk, StoreFault, RoundPrompt, Texts, NoPrompt
    <2>20. CASE RecheckStops(m)
        BY <2>20 DEF RecheckStops, NoMark
    <2>21. CASE SpawnAgent(m)
        BY <2>21 DEF SpawnAgent, NoMark
    <2>22. CASE RegisterHandle(m)
        BY <2>22 DEF RegisterHandle
    <2>23. CASE CollectOutcome(m)
        BY <2>23 DEF CollectOutcome, StoreOk, StoreFault, RoundPrompt, Texts
    <2>24. CASE Unregister(m)
        BY <2>24 DEF Unregister
    <2>25. CASE ClearInflight(m)
        BY <2>25 DEF ClearInflight, StoreOk, StoreFault, NoPrompt
    <2>26. CASE SpawnCompact(m)
        BY <2>26 DEF SpawnCompact
    <2>27. CASE FinishCompact(m)
        BY <2>27 DEF FinishCompact
    <2>28. CASE ReleaseLock(m)
        BY <2>28 DEF ReleaseLock
    <2>29. CASE IdleTimeout(m)
        BY <2>29 DEF IdleTimeout
    <2> QED BY <1>1, <2>1, <2>2, <2>3, <2>4, <2>5, <2>6, <2>7, <2>8, <2>9, <2>10, <2>11,
               <2>12, <2>13, <2>14, <2>15, <2>16, <2>17, <2>18, <2>19, <2>20, <2>21,
               <2>22, <2>23, <2>24, <2>25, <2>26, <2>27, <2>28, <2>29 DEF TaskStep
  <1>2. ASSUME NEW m \in Msg, Receive(m) \/ RemoveQueued(m) \/ PurgeRow(m) PROVE Prompts'
    <2>1. CASE Receive(m)
        BY <2>1 DEF Receive
    <2>2. CASE PurgeRow(m)
        BY <2>2 DEF PurgeRow, DeleteRows, StoreOk, StoreFault
    <2>3. CASE RemoveQueued(m)
        BY <2>3 DEF RemoveQueued, Remaining, HintAfterRemoval
    <2> QED BY <1>2, <2>1, <2>2, <2>3
  <1>3. ASSUME NEW s \in Stop, StopIssued(s) \/ StopStep(s) PROVE Prompts'
    <2>1. CASE StopIssued(s) \/ StopInterrupt(s) \/ StopTryLock(s) \/ StopSetsMark(s) \/
              StopQueue(s)
        BY <2>1 DEF StopIssued, StopInterrupt, StopTryLock, StopSetsMark, StopQueue
    <2> QED BY <1>3, <2>1 DEF StopStep
  <1>4. CASE AgentReturns \/ CommandTakesLock \/ CommandReleasesLock \/ Tick
      BY <1>4 DEF AgentReturns, CommandTakesLock, CommandReleasesLock, Tick
  <1>5. CASE Crash
      BY <1>5 DEF Crash, NoMark
  <1>6. CASE Recovery
    <2>1. CASE RecoverPrompt
        BY <2>1 DEF RecoverPrompt, RecoveredPrompt
    <2>2. CASE RecoverClearMark
        BY <2>2 DEF RecoverClearMark, NoPrompt
    <2>3. CASE RecoverNothing \/ RecoverEmptyMark
        BY <2>3 DEF RecoverNothing, RecoverEmptyMark, NoPrompt
    <2>4. CASE ReplayLoad
        BY <2>4 DEF ReplayLoad
    <2>5. CASE ReplayClear
        BY <2>5 DEF ReplayClear
    <2>6. ASSUME NEW m \in Msg, ReplaySpawn(m) PROVE Prompts'
        BY <2>6 DEF ReplaySpawn
    <2> QED BY <1>6, <2>1, <2>2, <2>3, <2>4, <2>5, <2>6 DEF Recovery
  <1>7. CASE UNCHANGED vars
      BY <1>7 DEF vars
  <1> QED BY <1>1, <1>2, <1>3, <1>4, <1>5, <1>6, <1>7 DEF Next

-----------------------------------------------------------------------------
(* The inductive invariant and what follows from it *)

IInv == TypeOK /\ Turns /\ Places /\ Records /\ Outcomes /\ RanOnce /\ Prompts

LEMMA InvInit == Init => IInv
  <1> SUFFICES ASSUME Init PROVE IInv
      OBVIOUS
  <1> USE DEF Init, NoMark, NoPrompt
  <1>1. TypeOK
      BY TypeInit
  <1>2. Turns
      BY DEF Turns, LockOwner, LiveRunner, NobodyWhileBooting, LoadedInRecovery,
             LoadedHaveNoTask, Booting, OwnerSteps
  <1>3. Places
      BY DEF Places, Unqueued, Disjoint, BatchOwner, NoStaleHint
  <1>4. Records
      BY DEF Records, SavedBeforePush, RowsProtectQueue, NoRowBeforeSave,
             LoadedDied, RowsLoaded, LoadedRowsCleared, BatchRowsDeleted
  <1>5. Outcomes
      BY DEF Outcomes, Unsettled, RanInRound, LoadedUnsettled, RowsArePending, NoSilentLoss
  <1>6. RanOnce
      BY DEF RanOnce, NotYetRun
  <1>7. Prompts
      BY DEF Prompts, ClockRuns, BatchMarked, PromptKept, RoundSteps
  <1> QED BY <1>1, <1>2, <1>3, <1>4, <1>5, <1>6, <1>7 DEF IInv

LEMMA InvStep == IInv /\ [Next]_vars => IInv'
  BY TypeStep, TurnStep, PlaceStep, RecordStep, OutcomeStep, RunStep, PromptStep DEF IInv

\* The inductive invariant: turns, places, rows, outcomes, runs and the prompt
\* that a crash leaves, which is empty for a batch without text.
THEOREM InvariantHolds == Spec => []IInv
  BY InvInit, InvStep, PTL DEF Spec

\* A conversation whose queue exists always has a task in the runner loop, for
\* any number of messages, /stop invocations, crashes and recoveries: the second
\* look at the queue after the INSERT leaves no lost wake-up.
THEOREM NoOrphanQueueHolds == Spec => []NoOrphanQueue
  <1>1. IInv => NoOrphanQueue
      BY DEF IInv, Turns, LiveRunner, NoOrphanQueue
  <1> QED BY <1>1, InvariantHolds, PTL

\* The queued-messages footer is never shown for an empty queue: every place
\* that empties the queue also resets the footer.
THEOREM NoStaleHintHolds == Spec => []NoStaleHint
  <1>1. IInv => NoStaleHint
      BY DEF IInv, Places
  <1> QED BY <1>1, InvariantHolds, PTL

\* A queued message keeps its row whatever rows batches, recalls, drops and
\* /stop all delete meanwhile; only a failed INSERT excuses.
THEOREM RowsProtectQueueHolds == Spec => []RowsProtectQueue
  <1>1. IInv => RowsProtectQueue
      BY DEF IInv, Records
  <1> QED BY <1>1, InvariantHolds, PTL

\* A row in the store is the row of an unsettled message, of one about to be
\* deleted, or of one whose DELETE failed: a restart replays nothing else.
THEOREM RowsArePendingHolds == Spec => []RowsArePending
  <1>1. IInv => RowsArePending
      BY DEF IInv, Outcomes
  <1> QED BY <1>1, InvariantHolds, PTL

\* An unsettled message of a living or returned handler is with that handler,
\* queued, or in the batch: no interleaving mislays it.
THEOREM NoSilentLossHolds == Spec => []NoSilentLoss
  <1>1. IInv => NoSilentLoss
      BY DEF IInv, Outcomes
  <1> QED BY <1>1, InvariantHolds, PTL

\* No message is handed to an agent twice, across any number of crashes and
\* replays, unless its row outlived it (a DELETE failed or was cut off).
THEOREM AtMostOnceHolds == Spec => []AtMostOnce
  <1>1. IInv => AtMostOnce
      BY DEF IInv, RanOnce, NotYetRun, AtMostOnce
  <1> QED BY <1>1, InvariantHolds, PTL

\* While an agent works on a batch, the store has an inflight mark with exactly
\* the texts of that batch, so that a crash leaves the prompt for /retry, and no
\* prompt of another round (unless a store write failed).
THEOREM RunningRoundIsMarkedHolds == Spec => []RunningRoundIsMarked
  <1>1. IInv => RunningRoundIsMarked
      BY DEF IInv, Prompts, BatchMarked, RunningRoundIsMarked
  <1> QED BY <1>1, InvariantHolds, PTL

\* Only the two steps of a round that write the mark touch it in a task.
LEMMA TaskLeavesMark ==
    ASSUME NEW m \in Msg, TaskStep(m), pc[m] \in {"idle", "dead"}
    PROVE  inflight' = inflight
  <1>1. CASE PlanBecomeRunner(m) \/ PlanSteer(m) \/ PlanQueueFull(m) \/ PlanQueuePending(m)
             \/ PersistQueued(m) \/ PushBecomeRunner(m) \/ PushPending(m) \/ NoteQueued(m)
      BY <1>1 DEF PlanBecomeRunner, PlanSteer, PlanQueueFull, PlanQueuePending,
                  PersistQueued, PushBecomeRunner, PushPending, NoteQueued
  <1>2. CASE ClearHint(m) \/ AcquireLock(m) \/ TakeNothing(m) \/ TakeBatch(m)
             \/ DeleteBatchRows(m) \/ StopCheck(m) \/ PermitGranted(m) \/ RefuseRound(m)
      BY <1>2 DEF ClearHint, AcquireLock, TakeNothing, TakeBatch, DeleteBatchRows,
                  StopCheck, PermitGranted, RefuseRound
  <1>3. CASE NoteInitiator(m) \/ ReadEpoch(m) \/ MarkInflight(m) \/ RecheckStops(m)
             \/ SpawnAgent(m) \/ RegisterHandle(m) \/ IdleTimeout(m) \/ CollectOutcome(m)
      BY <1>3 DEF NoteInitiator, ReadEpoch, MarkInflight, RecheckStops, SpawnAgent,
                  RegisterHandle, IdleTimeout, CollectOutcome
  <1>4. CASE Unregister(m) \/ ClearInflight(m) \/ SpawnCompact(m) \/ FinishCompact(m)
             \/ ReleaseLock(m)
      BY <1>4 DEF Unregister, ClearInflight, SpawnCompact, FinishCompact, ReleaseLock
  <1> QED BY <1>1, <1>2, <1>3, <1>4 DEF TaskStep

\* A mark that the recovery drops had its prompt taken over, or had none.
DropIsSafe ==
    inflight' # inflight /\ phase \in {"recoverRounds", "clearMark"} =>
        /\ retry' = retry
        /\ inflight.msgs = {} \/ retry = inflight \/ retry.at > inflight.at

LEMMA DropStep == IInv /\ [Next]_vars => DropIsSafe
  <1> SUFFICES ASSUME IInv, [Next]_vars, inflight' # inflight,
                      phase \in {"recoverRounds", "clearMark"}
               PROVE  /\ retry' = retry
                      /\ inflight.msgs = {} \/ retry = inflight \/ retry.at > inflight.at
      BY DEF DropIsSafe
  <1>1. \A m \in Msg : ~TaskStep(m)
    <2>1. \A m \in Msg : pc[m] \in {"idle", "dead"}
        BY DEF IInv, Turns, NobodyWhileBooting, Booting
    <2> QED BY <2>1, TaskLeavesMark
  <1>2. ASSUME NEW m \in Msg PROVE ~(Receive(m) \/ RemoveQueued(m) \/ PurgeRow(m))
      BY DEF Receive, RemoveQueued, PurgeRow
  <1>3. ASSUME NEW s \in Stop PROVE ~(StopIssued(s) \/ StopStep(s))
      BY DEF StopIssued, StopStep, StopInterrupt, StopTryLock, StopSetsMark, StopQueue
  <1>4. ~(AgentReturns \/ CommandTakesLock \/ CommandReleasesLock \/ Crash \/ Tick)
      BY DEF AgentReturns, CommandTakesLock, CommandReleasesLock, Crash, Tick
  <1>5. CASE RecoverClearMark
      BY <1>5 DEF RecoverClearMark, IInv, Prompts, PromptKept
  <1>6. CASE RecoverEmptyMark
      BY <1>6 DEF RecoverEmptyMark
  <1>7. ~(RecoverPrompt \/ RecoverNothing \/ ReplayLoad \/ ReplayClear
          \/ \E m \in Msg : ReplaySpawn(m))
      BY DEF RecoverPrompt, RecoverNothing, ReplayLoad, ReplayClear, ReplaySpawn
  <1>8. inflight' = inflight \/ Next
      BY DEF vars
  <1> QED BY <1>1, <1>2, <1>3, <1>4, <1>5, <1>6, <1>7, <1>8 DEF Next, Recovery

\* The recovery removes an inflight mark that has a prompt only when /retry offers
\* that prompt or a strictly newer one, also when earlier recoveries were cut off
\* by crashes, and no removal of a mark changes what /retry offers.
THEOREM RecoveryKeepsPromptHolds == Spec => RecoveryKeepsPrompt
  <1>1. IInv /\ [Next]_vars =>
          [inflight' # inflight /\ phase \in {"recoverRounds", "clearMark"} =>
             /\ retry' = retry
             /\ inflight.msgs = {} \/ retry = inflight \/ retry.at > inflight.at]_vars
      BY DropStep DEF DropIsSafe
  <1> QED BY <1>1, InvariantHolds, PTL DEF Spec, RecoveryKeepsPrompt

\* A step leaves the outcome of a settled message alone, unless its row outlived it.
OutcomeKept == \A m \in Msg : fate[m] # "none" => fate'[m] = fate[m] \/ m \in leftover

LEMMA FateStep == TypeOK /\ Turns /\ Places /\ Outcomes /\ [Next]_vars => OutcomeKept
  <1> SUFFICES ASSUME TypeOK, Turns, Places, Outcomes, [Next]_vars PROVE OutcomeKept
      OBVIOUS
  <1> USE DEF TypeOK, Turns, LockOwner, LiveRunner, NobodyWhileBooting,
              LoadedInRecovery, LoadedHaveNoTask, Booting, Places, Unqueued, Disjoint,
              BatchOwner, NoStaleHint, NotQueuedSteps, PreSpawn, RoundSteps, Outcomes,
              Unsettled, LoadedUnsettled, OutcomeKept, Goto, Settle, TaskSteps,
              ArrivalSteps, RunnerSteps, OwnerSteps
  <1>1. ASSUME NEW m \in Msg, TaskStep(m) PROVE OutcomeKept
    <2>1. CASE PlanSteer(m)
        BY <2>1 DEF PlanSteer, SteerChannelOpen
    <2>2. CASE PlanQueueFull(m)
        BY <2>2 DEF PlanQueueFull
    <2>3. CASE StopCheck(m)
        BY <2>3 DEF StopCheck, AfterStopHit, NoMark
    <2>4. CASE RefuseRound(m)
        BY <2>4 DEF RefuseRound
    <2>5. CASE RecheckStops(m)
        BY <2>5 DEF RecheckStops, NoMark
    <2>6. CASE SpawnAgent(m)
        BY <2>6 DEF SpawnAgent, NoMark
    <2>7. CASE PlanBecomeRunner(m) \/ PlanQueuePending(m) \/ PersistQueued(m) \/
              PushBecomeRunner(m) \/ PushPending(m) \/ NoteQueued(m) \/ ClearHint(m) \/
              AcquireLock(m) \/ TakeNothing(m) \/ TakeBatch(m) \/ DeleteBatchRows(m) \/
              PermitGranted(m) \/ NoteInitiator(m) \/ ReadEpoch(m) \/ MarkInflight(m) \/
              RegisterHandle(m) \/ IdleTimeout(m) \/ CollectOutcome(m) \/
              Unregister(m) \/ ClearInflight(m) \/ SpawnCompact(m) \/
              FinishCompact(m) \/ ReleaseLock(m)
        BY <2>7 DEF PlanBecomeRunner, PlanQueuePending, PersistQueued, StoreOk,
            StoreFault, PushBecomeRunner, Pushed, PushPending, AfterPush, NoteQueued,
            ClearHint, AcquireLock, LockAvailable, TakeNothing, TakeBatch,
            DeleteBatchRows, DeleteRows, BatchRows, PermitGranted, AfterPermit,
            NoteInitiator, ReadEpoch, MarkInflight, RoundPrompt, Texts, RegisterHandle,
            IdleTimeout, CollectOutcome, Unregister, ClearInflight, NoPrompt,
            SpawnCompact, FinishCompact, ReleaseLock
    <2> QED BY <1>1, <2>1, <2>2, <2>3, <2>4, <2>5, <2>6, <2>7 DEF TaskStep
  <1>2. ASSUME NEW m \in Msg, Receive(m) \/ RemoveQueued(m) \/ PurgeRow(m) PROVE OutcomeKept
    <2>1. CASE RemoveQueued(m)
        BY <2>1 DEF RemoveQueued, Remaining, HintAfterRemoval
    <2>2. CASE Receive(m) \/ PurgeRow(m)
        BY <2>2 DEF Receive, PurgeRow, DeleteRows, StoreOk, StoreFault
    <2> QED BY <1>2, <2>1, <2>2
  <1>3. ASSUME NEW s \in Stop, StopIssued(s) \/ StopStep(s) PROVE OutcomeKept
    <2>1. CASE StopQueue(s)
        BY <2>1 DEF StopQueue
    <2>2. CASE StopIssued(s) \/ StopInterrupt(s) \/ StopTryLock(s) \/ StopSetsMark(s)
        BY <2>2 DEF StopIssued, StopInterrupt, StopTryLock, StopSetsMark
    <2> QED BY <1>3, <2>1, <2>2 DEF StopStep
  <1>4. CASE AgentReturns \/ CommandTakesLock \/ CommandReleasesLock \/ Tick
      BY <1>4 DEF AgentReturns, CommandTakesLock, CommandReleasesLock, Tick
  <1>5. CASE Crash
      BY <1>5 DEF Crash, NoMark
  <1>6. CASE Recovery
    <2>1. CASE RecoverPrompt \/ RecoverClearMark \/ RecoverEmptyMark \/ RecoverNothing \/
              ReplayLoad \/ ReplayClear
        BY <2>1 DEF RecoverPrompt, RecoveredPrompt, RecoverClearMark, NoPrompt,
            RecoverEmptyMark, RecoverNothing, ReplayLoad, ReplayClear
    <2>2. ASSUME NEW m \in Msg, ReplaySpawn(m) PROVE OutcomeKept
        BY <2>2 DEF ReplaySpawn
    <2> QED BY <1>6, <2>1, <2>2 DEF Recovery
  <1>7. CASE UNCHANGED vars
      BY <1>7 DEF vars
  <1> QED BY <1>1, <1>2, <1>3, <1>4, <1>5, <1>6, <1>7 DEF Next

\* What became of a message is final: no interleaving of stop, recall, take and
\* round settles a message a second time, and only the replay of a row that
\* outlived its message reopens it.
THEOREM SettledIsFinalHolds == Spec => SettledIsFinal
  <1>1. IInv /\ [Next]_vars => OutcomeKept
      BY FateStep DEF IInv
  <1>2. IInv /\ [Next]_vars =>
          [\A m \in Msg : fate[m] # "none" => fate'[m] = fate[m] \/ m \in leftover]_vars
      BY <1>1 DEF OutcomeKept
  <1> QED BY <1>2, InvariantHolds, PTL DEF Spec, SettledIsFinal

-----------------------------------------------------------------------------
(* What a /stop promises *)

\* A /stop that is under way and a marked batch are of this process.
StopsAlive == (caught # {} \/ \E s \in Stop : spc[s] \notin {"idle", "done"}) => phase = "up"

\* A marked message that is still in the batch has the fresh mark ahead: its
\* runner is before the last check of the loop.
MarkAhead ==
    caught \cap batch # {} =>
        MarkFresh /\ \A r \in Msg : pc[r] \in OwnerSteps => pc[r] \in LoopSteps

\* No marked message comes back to the queue.
CaughtLeaves == \A m \in caught : pc[m] \notin NotQueuedSteps /\ m \notin queue

Stops == ClockRuns /\ StopsAlive /\ MarkAhead /\ CaughtLeaves /\ MarkedInLoopDoesNotRun

LEMMA StopPromiseStep ==
    TypeOK /\ Turns /\ Places /\ Outcomes /\ Stops /\ [Next]_vars => Stops'
  <1> SUFFICES ASSUME TypeOK, Turns, Places, Outcomes, Stops, [Next]_vars PROVE Stops'
      OBVIOUS
  <1> USE DEF TypeOK, Turns, LockOwner, NobodyWhileBooting, LoadedInRecovery, Booting,
              Places, Unqueued, Disjoint, BatchOwner, NotQueuedSteps, PreSpawn,
              RoundSteps, LoopSteps, Outcomes, Unsettled, Stops, ClockRuns, StopsAlive,
              MarkAhead, MarkFresh, NoMark, CaughtLeaves, MarkedInLoopDoesNotRun, Goto,
              Settle, TaskSteps, ArrivalSteps, RunnerSteps, OwnerSteps
  <1>1. ASSUME NEW m \in Msg, TaskStep(m) PROVE Stops'
    <2>1. CASE PlanBecomeRunner(m)
        BY <2>1 DEF PlanBecomeRunner
    <2>2. CASE PlanSteer(m)
        BY <2>2 DEF PlanSteer, SteerChannelOpen
    <2>3. CASE PlanQueueFull(m)
        BY <2>3 DEF PlanQueueFull
    <2>4. CASE PlanQueuePending(m)
        BY <2>4 DEF PlanQueuePending
    <2>5. CASE PersistQueued(m)
        BY <2>5 DEF PersistQueued, StoreOk, StoreFault
    <2>6. CASE PushBecomeRunner(m)
        BY <2>6 DEF PushBecomeRunner, Pushed
    <2>7. CASE PushPending(m)
        BY <2>7 DEF PushPending, Pushed, AfterPush
    <2>8. CASE NoteQueued(m)
        BY <2>8 DEF NoteQueued
    <2>9. CASE ClearHint(m)
        BY <2>9 DEF ClearHint
    <2>10. CASE AcquireLock(m)
      <3>1. batch = {}
          BY <2>10, OwnerAssumption DEF AcquireLock, LockAvailable
      <3> QED BY <3>1, <2>10 DEF AcquireLock
    <2>11. CASE TakeNothing(m)
        BY <2>11 DEF TakeNothing
    <2>12. CASE TakeBatch(m)
        BY <2>12 DEF TakeBatch
    <2>13. CASE DeleteBatchRows(m)
        BY <2>13 DEF DeleteBatchRows, DeleteRows, StoreOk, StoreFault, BatchRows
    <2>14. CASE StopCheck(m)
        BY <2>14 DEF StopCheck, AfterStopHit, NoMark
    <2>15. CASE PermitGranted(m)
        BY <2>15 DEF PermitGranted, AfterPermit
    <2>16. CASE RefuseRound(m)
        BY <2>16 DEF RefuseRound
    <2>17. CASE NoteInitiator(m)
        BY <2>17 DEF NoteInitiator
    <2>18. CASE ReadEpoch(m)
        BY <2>18 DEF ReadEpoch
    <2>19. CASE MarkInflight(m)
        BY <2>19 DEF MarkInflight, StoreOk, StoreFault, RoundPrompt, Texts
    <2>20. CASE RecheckStops(m)
        BY <2>20 DEF RecheckStops, NoMark
    <2>21. CASE SpawnAgent(m)
        BY <2>21 DEF SpawnAgent, NoMark
    <2>22. CASE RegisterHandle(m)
        BY <2>22 DEF RegisterHandle
    <2>23. CASE CollectOutcome(m)
        BY <2>23 DEF CollectOutcome, StoreOk, StoreFault, RoundPrompt, Texts
    <2>24. CASE Unregister(m)
        BY <2>24 DEF Unregister
    <2>25. CASE ClearInflight(m)
        BY <2>25 DEF ClearInflight, StoreOk, StoreFault, NoPrompt
    <2>26. CASE SpawnCompact(m)
        BY <2>26 DEF SpawnCompact
    <2>27. CASE FinishCompact(m)
        BY <2>27 DEF FinishCompact
    <2>28. CASE ReleaseLock(m)
        BY <2>28 DEF ReleaseLock
    <2>29. CASE IdleTimeout(m)
        BY <2>29 DEF IdleTimeout
    <2> QED BY <1>1, <2>1, <2>2, <2>3, <2>4, <2>5, <2>6, <2>7, <2>8, <2>9, <2>10, <2>11,
               <2>12, <2>13, <2>14, <2>15, <2>16, <2>17, <2>18, <2>19, <2>20, <2>21,
               <2>22, <2>23, <2>24, <2>25, <2>26, <2>27, <2>28, <2>29 DEF TaskStep
  <1>2. ASSUME NEW m \in Msg, Receive(m) \/ RemoveQueued(m) \/ PurgeRow(m) PROVE Stops'
    <2>1. CASE Receive(m)
        BY <2>1 DEF Receive
    <2>2. CASE PurgeRow(m)
        BY <2>2 DEF PurgeRow, DeleteRows, StoreOk, StoreFault
    <2>3. CASE RemoveQueued(m)
        BY <2>3 DEF RemoveQueued, Remaining, HintAfterRemoval
    <2> QED BY <1>2, <2>1, <2>2, <2>3
  <1>3. ASSUME NEW s \in Stop, StopIssued(s) \/ StopStep(s) PROVE Stops'
    <2>1. CASE StopIssued(s) \/ StopInterrupt(s) \/ StopTryLock(s)
        BY <2>1 DEF StopIssued, StopInterrupt, StopTryLock
    <2>2. CASE StopSetsMark(s)
        BY <2>2, BoundsAssumption DEF StopSetsMark, BatchAt
    <2>3. CASE StopQueue(s)
        BY <2>3 DEF StopQueue
    <2> QED BY <1>3, <2>1, <2>2, <2>3 DEF StopStep
  <1>4. CASE AgentReturns \/ CommandTakesLock \/ CommandReleasesLock
      BY <1>4, OwnerAssumption DEF AgentReturns, CommandTakesLock, CommandReleasesLock
  <1>5. CASE Crash
      BY <1>5 DEF Crash, NoMark
  <1>6. CASE Recovery
    <2>1. CASE RecoverPrompt
        BY <2>1 DEF RecoverPrompt, RecoveredPrompt
    <2>2. CASE RecoverClearMark
        BY <2>2 DEF RecoverClearMark, NoPrompt
    <2>3. CASE RecoverNothing \/ RecoverEmptyMark
        BY <2>3 DEF RecoverNothing, RecoverEmptyMark, NoPrompt
    <2>4. CASE ReplayLoad
        BY <2>4 DEF ReplayLoad
    <2>5. CASE ReplayClear
        BY <2>5 DEF ReplayClear
    <2>6. ASSUME NEW m \in Msg, ReplaySpawn(m) PROVE Stops'
        BY <2>6 DEF ReplaySpawn
    <2> QED BY <1>6, <2>1, <2>2, <2>3, <2>4, <2>5, <2>6 DEF Recovery
  <1>7. CASE UNCHANGED vars
      BY <1>7 DEF vars
  <1>8. CASE Tick
      BY <1>8, BoundsAssumption DEF Tick
  <1> QED BY <1>1, <1>2, <1>3, <1>4, <1>5, <1>6, <1>7, <1>8 DEF Next

LEMMA StopPromiseInit == Init => Stops
  BY DEF Init, Stops, ClockRuns, StopsAlive, MarkAhead, CaughtLeaves, MarkedInLoopDoesNotRun

\* A batch that a /stop marks while a stop check of the runner loop is ahead of
\* it is never handed to an agent as long as the mark is fresh at that check,
\* for any number of /stop invocations, messages and crashes.
THEOREM MarkedInLoopDoesNotRunHolds == Spec => []MarkedInLoopDoesNotRun
  <1>1. IInv /\ Stops /\ [Next]_vars => Stops'
      BY StopPromiseStep DEF IInv
  <1>2. Stops => MarkedInLoopDoesNotRun
      BY DEF Stops
  <1> QED BY <1>1, <1>2, StopPromiseInit, InvariantHolds, PTL DEF Spec

-----------------------------------------------------------------------------
(* What is on disk *)

\* A batch keeps its rows until its own deletion, and what is loaded keeps its
\* rows until they are cleared.
Traces ==
    /\ batch \cap purge = {}
    /\ \A m \in Msg : pc[m] = "deleteRows" => batch \subseteq rows \cup unsaved
    /\ phase = "replayClear" => loaded \subseteq rows

LEMMA TraceStep == TypeOK /\ Turns /\ Places /\ Records /\ Traces /\ [Next]_vars => Traces'
  <1> SUFFICES ASSUME TypeOK, Turns, Places, Records, Traces, [Next]_vars PROVE Traces'
      OBVIOUS
  <1> USE DEF TypeOK, Turns, LockOwner, NobodyWhileBooting, LoadedInRecovery, LoadedHaveNoTask,
              Booting, Places, Unqueued, Disjoint, BatchOwner, NotQueuedSteps, PreSpawn, RoundSteps,
              Records, RowsProtectQueue, NoRowBeforeSave, LoadedDied, Traces, Goto, Settle,
              TaskSteps, ArrivalSteps, RunnerSteps, OwnerSteps
  <1>1. ASSUME NEW m \in Msg, TaskStep(m) PROVE Traces'
    <2>1. CASE PlanBecomeRunner(m)
        BY <2>1 DEF PlanBecomeRunner
    <2>2. CASE PlanSteer(m)
        BY <2>2 DEF PlanSteer, SteerChannelOpen
    <2>3. CASE PlanQueueFull(m)
        BY <2>3 DEF PlanQueueFull
    <2>4. CASE PlanQueuePending(m)
        BY <2>4 DEF PlanQueuePending
    <2>5. CASE PersistQueued(m)
        BY <2>5 DEF PersistQueued, StoreOk, StoreFault
    <2>6. CASE PushBecomeRunner(m)
        BY <2>6 DEF PushBecomeRunner, Pushed
    <2>7. CASE PushPending(m)
        BY <2>7 DEF PushPending, Pushed, AfterPush
    <2>8. CASE NoteQueued(m)
        BY <2>8 DEF NoteQueued
    <2>9. CASE ClearHint(m)
        BY <2>9 DEF ClearHint
    <2>10. CASE AcquireLock(m)
        BY <2>10 DEF AcquireLock, LockAvailable
    <2>11. CASE TakeNothing(m)
        BY <2>11 DEF TakeNothing
    <2>12. CASE TakeBatch(m)
        BY <2>12 DEF TakeBatch
    <2>13. CASE DeleteBatchRows(m)
        BY <2>13 DEF DeleteBatchRows, DeleteRows, StoreOk, StoreFault, BatchRows
    <2>14. CASE StopCheck(m)
        BY <2>14 DEF StopCheck, AfterStopHit, NoMark
    <2>15. CASE PermitGranted(m)
        BY <2>15 DEF PermitGranted, AfterPermit
    <2>16. CASE RefuseRound(m)
        BY <2>16 DEF RefuseRound
    <2>17. CASE NoteInitiator(m)
        BY <2>17 DEF NoteInitiator
    <2>18. CASE ReadEpoch(m)
        BY <2>18 DEF ReadEpoch
    <2>19. CASE MarkInflight(m)
        BY <2>19 DEF MarkInflight, StoreOk, StoreFault, RoundPrompt, Texts
    <2>20. CASE RecheckStops(m)
        BY <2>20 DEF RecheckStops, NoMark
    <2>21. CASE SpawnAgent(m)
        BY <2>21 DEF SpawnAgent, NoMark
    <2>22. CASE RegisterHandle(m)
        BY <2>22 DEF RegisterHandle
    <2>23. CASE CollectOutcome(m)
        BY <2>23 DEF CollectOutcome, StoreOk, StoreFault, RoundPrompt, Texts
    <2>24. CASE Unregister(m)
        BY <2>24 DEF Unregister
    <2>25. CASE ClearInflight(m)
        BY <2>25 DEF ClearInflight, StoreOk, StoreFault, NoPrompt
    <2>26. CASE SpawnCompact(m)
        BY <2>26 DEF SpawnCompact
    <2>27. CASE FinishCompact(m)
        BY <2>27 DEF FinishCompact
    <2>28. CASE ReleaseLock(m)
        BY <2>28 DEF ReleaseLock
    <2>29. CASE IdleTimeout(m)
        BY <2>29 DEF IdleTimeout
    <2> QED BY <1>1, <2>1, <2>2, <2>3, <2>4, <2>5, <2>6, <2>7, <2>8, <2>9, <2>10, <2>11,
               <2>12, <2>13, <2>14, <2>15, <2>16, <2>17, <2>18, <2>19, <2>20, <2>21,
               <2>22, <2>23, <2>24, <2>25, <2>26, <2>27, <2>28, <2>29 DEF TaskStep
  <1>2. ASSUME NEW m \in Msg, Receive(m) \/ RemoveQueued(m) \/ PurgeRow(m) PROVE Traces'
    <2>1. CASE Receive(m)
        BY <2>1 DEF Receive
    <2>2. CASE RemoveQueued(m)
        BY <2>2 DEF RemoveQueued, Remaining, HintAfterRemoval
    <2>3. CASE PurgeRow(m)
        BY <2>3 DEF PurgeRow, DeleteRows, StoreOk, StoreFault
    <2> QED BY <1>2, <2>1, <2>2, <2>3
  <1>3. ASSUME NEW s \in Stop, StopIssued(s) \/ StopStep(s) PROVE Traces'
    <2>1. CASE StopQueue(s)
        BY <2>1 DEF StopQueue
    <2>2. CASE StopIssued(s) \/ StopInterrupt(s) \/ StopTryLock(s) \/ StopSetsMark(s)
        BY <2>2 DEF StopIssued, StopInterrupt, StopTryLock, StopSetsMark
    <2> QED BY <1>3, <2>1, <2>2 DEF StopStep
  <1>4. CASE AgentReturns \/ CommandTakesLock \/ CommandReleasesLock \/ Tick
      BY <1>4 DEF AgentReturns, CommandTakesLock, CommandReleasesLock, Tick
  <1>5. CASE Crash
      BY <1>5 DEF Crash, NoMark
  <1>6. CASE Recovery
    <2>1. CASE RecoverPrompt
        BY <2>1 DEF RecoverPrompt, RecoveredPrompt
    <2>2. CASE RecoverClearMark
        BY <2>2 DEF RecoverClearMark, NoPrompt
    <2>3. CASE RecoverNothing \/ RecoverEmptyMark
        BY <2>3 DEF RecoverNothing, RecoverEmptyMark, NoPrompt
    <2>4. CASE ReplayLoad
        BY <2>4 DEF ReplayLoad
    <2>5. CASE ReplayClear
        BY <2>5 DEF ReplayClear
    <2>6. ASSUME NEW m \in Msg, ReplaySpawn(m) PROVE Traces'
        BY <2>6 DEF ReplaySpawn
    <2> QED BY <1>6, <2>1, <2>2, <2>3, <2>4, <2>5, <2>6 DEF Recovery
  <1>7. CASE UNCHANGED vars
      BY <1>7 DEF vars
  <1> QED BY <1>1, <1>2, <1>3, <1>4, <1>5, <1>6, <1>7 DEF Next

\* A saved message that waits is on disk, by its row or by the mark of its
\* round, except in the gaps that InGap names: whatever stops, recalls and other
\* batches delete meanwhile, a crash loses it nowhere else.
THEOREM SavedIsOnDiskHolds == Spec => []SavedIsOnDisk
  <1>1. Init => Traces
      BY DEF Init, Traces
  <1>2. IInv /\ Traces /\ [Next]_vars => Traces'
      BY TraceStep DEF IInv
  <1>3. IInv /\ Traces => SavedIsOnDisk
    <2> SUFFICES ASSUME IInv, Traces, NEW m \in Msg, StatusOf(m) = "waiting", m \notin unsaved
                 PROVE  m \in rows \/ m \in batch \cap inflight.msgs \/ InGap(m)
        BY DEF SavedIsOnDisk
    <2>1. /\ pc[m] # "idle" /\ fate[m] = "none"
          /\ pc[m] = "dead" => m \in rows \cup loaded
      <3>1. fate[m] \in Fates /\ pc[m] \in TaskSteps
          BY DEF IInv, TypeOK
      <3> QED BY <3>1 DEF StatusOf, Fates
    <2>2. CASE pc[m] = "dead"
      <3>1. m \in loaded /\ phase = "replayClear" => m \in rows
          BY DEF Traces
      <3>2. m \in loaded => phase \in {"replayClear", "replaySpawn"}
          BY DEF IInv, Turns, LoadedInRecovery
      <3> QED BY <2>1, <2>2, <3>1, <3>2 DEF InGap
    <2>3. CASE pc[m] \in ArrivalSteps \ {"note", "clearHint"}
      <3>1. pc[m] \in {"pushRunner", "pushPending"} => m \in rows
          BY DEF IInv, Records, SavedBeforePush
      <3> QED BY <2>3, <3>1 DEF InGap, ArrivalSteps
    <2>4. CASE m \in queue
        BY <2>4 DEF IInv, Records, RowsProtectQueue
    <2>5. CASE m \in batch
      <3>1. PICK r \in Msg : pc[r] \in PreSpawn \cup RoundSteps
          BY <2>5 DEF IInv, Places, BatchOwner
      <3>2. pc[r] \notin RoundSteps
          BY <2>1, <2>5 DEF IInv, Outcomes, RanInRound
      <3>3. pc[r] = "deleteRows" => m \in rows
          BY <2>5 DEF Traces
      <3>4. pc[r] = "recheck" => m \in inflight.msgs \/ m \in MediaOnly \/ faults # 0
          BY <2>5 DEF IInv, Prompts, BatchMarked
      <3> QED BY <2>5, <3>1, <3>2, <3>3, <3>4 DEF InGap, PreSpawn, Unmarked
    <2>6. pc[m] # "dead" => \/ pc[m] \in ArrivalSteps \ {"note", "clearHint"}
                            \/ m \in queue \/ m \in batch
        BY <2>1 DEF IInv, Outcomes, NoSilentLoss
    <2> QED BY <2>2, <2>3, <2>4, <2>5, <2>6
  <1> QED BY <1>1, <1>2, <1>3, InvariantHolds, PTL DEF Spec

=============================================================================
