------------------------------ MODULE ConvRunner ------------------------------
(* One conversation of the dispatcher: how an inbound message is persisted,   *)
(* queued and batched, which handler task becomes the conversation's runner,  *)
(* how a round starts and ends, what /stop, /stop all, a recall and           *)
(* /queue drop do to all of it, and what a crash and the start-up recovery    *)
(* leave.                                                                     *)
(*                                                                            *)
(* A task is a spawned handle() future and is named by the message it         *)
(* handles.  A step is the code between two awaits: one critical section of   *)
(* the ConvState table, one store call, or one wait.                          *)
(*                                                                            *)
(* Abstractions.  A queue and a batch are sets of messages: every operation   *)
(* pushes, counts, removes one or takes all, and none depends on the order.   *)
(* The row of a message in queued_messages is the message itself, because a   *)
(* message has at most one row at a time.  The conversation lock is the       *)
(* mutex that module ConvLocks shows the conv_locks map to be.  Waiting       *)
(* for a batch window, a permit or a reply is a step that may take any time.  *)
EXTENDS Integers, FiniteSets

CONSTANTS
    Msg,          \* inbound messages, hence handler tasks
    Steerable,    \* text messages that may be injected into a running round
    MediaOnly,    \* messages without text: only pictures, files or voice
    Stop,         \* invocations of /stop
    HardStop,     \* those that are "/stop all"
    Removable,    \* messages that are recalled, or dropped with /queue drop
    AutoCompact,  \* auto_compact_threshold is not 0
    Commands,     \* session commands such as /new compete for the lock
    QueueCap,     \* PENDING_QUEUE_CAP
    MarkTTL,      \* lifetime of a stop mark (60 s)
    MaxClock,     \* bound: the clock stops here
    MaxCrashes,   \* bound: crashes of the process
    MaxFaults,    \* bound: store calls that fail
    Free, Command \* conversation lock owners that are no task

ASSUME QueueCapAssumption == QueueCap \in Nat \ {0}
ASSUME BoundsAssumption ==
    MarkTTL \in Nat /\ MaxClock \in Nat \ {0} /\ MaxCrashes \in Nat /\ MaxFaults \in Nat
ASSUME SubsetAssumption ==
    Steerable \subseteq Msg \ MediaOnly /\ MediaOnly \subseteq Msg /\ Removable \subseteq Msg
    /\ HardStop \subseteq Stop
ASSUME SwitchAssumption == AutoCompact \in BOOLEAN /\ Commands \in BOOLEAN
ASSUME OwnerAssumption == Free # Command /\ Free \notin Msg /\ Command \notin Msg

VARIABLES
    \* Memory of the process.
    pc,         \* where each handler task is
    claimed,    \* ConvState.queue is Some: the conversation has a runner
    queue,      \* the messages in it
    hinted,     \* ConvState.queued_hint shows a number of queued messages
    batch,      \* the batch the owner of the conversation lock has taken
    lock,       \* owner of the conversation lock
    stopMark,   \* ConvState.stop_requested, 0 when None
    epoch,      \* stop_mark_epoch of the round that is starting
    handle,     \* ConvState.running is Some
    agent,      \* the agent task spawned since the last batch was taken
    round,      \* how many agent tasks were spawned
    spc,        \* where each /stop invocation is
    target,     \* the agent task a /stop invocation took the handle of
    purge,      \* rows that a recall, a drop or /stop all still has to delete
    loaded,     \* rows that the recovery has loaded and not yet spawned
    phase,      \* "up", or the step of the start-up recovery
    \* The store.
    rows,       \* queued_messages
    inflight,   \* the inflight_prompt key: its messages and its time
    retry,      \* the last_prompt key: its messages and its time
    \* The environment.
    clock, crashes, faults,
    \* History of the environment: the batches that a /stop has marked.
    doomed,     \* they were about to start
    caught,     \* the runner loop had a stop check ahead and the mark is still fresh
    \* History: what became of each message.
    fate,       \* how it was settled
    runs,       \* in how many rounds it was handed to an agent
    leftover,   \* its row outlived it: the DELETE failed or was cut off
    unsaved     \* no row of it was ever written, or its last INSERT failed

memory  == <<pc, claimed, queue, hinted, batch, lock, stopMark, epoch, handle,
             agent, round, spc, target, purge, loaded>>
store   == <<rows, inflight, retry>>
marked  == <<doomed, caught>>
env     == <<clock, crashes, faults, marked>>
history == <<fate, runs, leftover, unsaved>>
vars    == <<memory, phase, store, env, history>>

\* Steps of a task before and after it is the conversation's runner.
ArrivalSteps == {"plan", "persistRunner", "pushRunner", "persistPending",
                 "pushPending", "note", "clearHint"}
OwnerSteps   == {"take", "deleteRows", "check", "permit", "check2", "initiator",
                 "epoch", "inflight", "recheck", "register", "collect",
                 "unregister", "unmark", "compact", "registerCompact",
                 "collectCompact", "release"}
RunnerSteps  == OwnerSteps \cup {"lock"}
\* An agent may run for the batch only in these steps.
RoundSteps   == {"register", "collect"}
\* The batch was taken and has not been handed to an agent.
PreSpawn     == {"deleteRows", "check", "permit", "check2", "initiator",
                 "epoch", "inflight", "recheck"}
\* It still has a stop check of the runner loop ahead.
LoopSteps    == {"deleteRows", "check", "permit", "check2"}

TaskSteps == {"idle", "done", "dead"} \cup ArrivalSteps \cup RunnerSteps
StopSteps == {"idle", "interrupt", "tryLock", "mark", "queue", "done"}
Fates     == {"none", "ran", "steered", "full", "stopped", "refused", "cleared",
              "removed"}
NoPrompt  == [msgs |-> {}, at |-> 0]

\* Mutant: None is read as -1.
NoMarkNegative == -1
\* stop_requested is None; unwrap_or(0) makes it older than every mark.
NoMark == 0

Init ==
    /\ pc = [m \in Msg |-> "idle"] /\ claimed = FALSE /\ queue = {} /\ hinted = FALSE
    /\ batch = {} /\ lock = Free /\ stopMark = NoMark /\ epoch = NoMark /\ handle = FALSE
    /\ agent = "none" /\ round = 0 /\ spc = [s \in Stop |-> "idle"]
    /\ target = [s \in Stop |-> 0] /\ purge = {} /\ loaded = {} /\ phase = "up"
    /\ rows = {} /\ inflight = NoPrompt /\ retry = NoPrompt
    /\ clock = 1 /\ crashes = 0 /\ faults = 0 /\ doomed = {} /\ caught = {}
    /\ fate = [m \in Msg |-> "none"] /\ runs = [m \in Msg |-> 0] /\ leftover = {}
    /\ unsaved = Msg

-----------------------------------------------------------------------------
(* Helpers: moving a task, settling messages, and store calls that may fail. *)

Goto(m, step)    == pc' = [pc EXCEPT ![m] = step]
Settle(ms, how)  == fate' = [m \in Msg |-> IF m \in ms THEN how ELSE fate[m]]

StoreFault       == faults < MaxFaults /\ faults' = faults + 1
StoreOk          == faults' = faults

\* delete_queued_rows: one DELETE by row id; a failure is only logged.
DeleteRows(ms) ==
    \/ StoreOk /\ rows' = rows \ ms /\ UNCHANGED leftover
    \/ StoreFault /\ UNCHANGED rows /\ leftover' = leftover \cup (rows \cap ms)

-----------------------------------------------------------------------------
(* enqueue_or_become_runner *)

\* The platform delivers a message and run() spawns its handler.
Receive(m) ==
    /\ phase = "up" /\ pc[m] = "idle"
    /\ Goto(m, "plan")
    /\ UNCHANGED <<claimed, queue, hinted, batch, lock, stopMark, epoch, handle, agent,
                   round, spc, target, purge, loaded, phase, store, env, history>>

\* EnqueuePlan::BecomeRunner: nobody runs the conversation.
PlanBecomeRunner(m) ==
    /\ pc[m] = "plan" /\ ~claimed
    /\ Goto(m, "persistRunner")
    /\ UNCHANGED <<claimed, queue, hinted, batch, lock, stopMark, epoch, handle, agent,
                   round, spc, target, purge, loaded, phase, store, env, history>>

\* The registered handle has a steer channel whose receiver lives; the handle
\* of a compact round has none.
SteerChannelOpen == handle /\ agent = "running" /\ \A r \in Msg : pc[r] # "collectCompact"

\* EnqueuePlan::Steered: try_send put the text on the stdin of the round.
PlanSteer(m) ==
    /\ pc[m] = "plan" /\ claimed /\ m \in Steerable /\ SteerChannelOpen
    /\ Goto(m, "done") /\ Settle({m}, "steered")
    /\ UNCHANGED <<claimed, queue, hinted, batch, lock, stopMark, epoch, handle, agent,
                   round, spc, target, purge, loaded, phase, store, env,
                   runs, leftover, unsaved>>

\* EnqueuePlan::QueueFull: the length seen in the critical section is at the cap.
PlanQueueFull(m) ==
    /\ pc[m] = "plan" /\ claimed /\ Cardinality(queue) >= QueueCap
    /\ Goto(m, "done") /\ Settle({m}, "full")
    /\ UNCHANGED <<claimed, queue, hinted, batch, lock, stopMark, epoch, handle, agent,
                   round, spc, target, purge, loaded, phase, store, env,
                   runs, leftover, unsaved>>

\* EnqueuePlan::QueuePending: steering was not possible (no handle, no such
\* channel, channel full or its receiver gone) and there is room.
PlanQueuePending(m) ==
    /\ pc[m] = "plan" /\ claimed /\ Cardinality(queue) < QueueCap
    /\ Goto(m, "persistPending")
    /\ UNCHANGED <<claimed, queue, hinted, batch, lock, stopMark, epoch, handle, agent,
                   round, spc, target, purge, loaded, phase, store, env, history>>

\* persist_queued, outside the lock: the row is written before the push.
PersistQueued(m) ==
    /\ \/ pc[m] = "persistRunner" /\ Goto(m, "pushRunner")
       \/ pc[m] = "persistPending" /\ Goto(m, "pushPending")
    /\ \/ StoreOk /\ rows' = rows \cup {m} /\ unsaved' = unsaved \ {m}
       \/ StoreFault /\ unsaved' = unsaved \cup {m} /\ UNCHANGED rows
    /\ UNCHANGED <<claimed, queue, hinted, batch, lock, stopMark, epoch, handle, agent,
                   round, spc, target, purge, loaded, phase, inflight, retry,
                   clock, crashes, marked, fate, runs, leftover>>

\* Mutant: the queue is created anew although another task created it.
PushedAnew(m) == {m}
\* The queue with one more element.
Pushed(m) == queue \cup {m}

\* The second critical section of BecomeRunner: join a queue that appeared
\* meanwhile or create it.  Either way the task goes on to the runner loop.
PushBecomeRunner(m) ==
    /\ pc[m] = "pushRunner"
    /\ claimed' = TRUE
    /\ queue' = Pushed(m)
    /\ Goto(m, "lock")
    /\ UNCHANGED <<hinted, batch, lock, stopMark, epoch, handle, agent, round, spc,
                   target, purge, loaded, phase, store, env, history>>

\* Mutant: the queue is re-created without anybody to drain it.
AfterPushAsQueued(m) == "note"
\* Where QueuePending goes on: when the runner has handed its identity back
\* during the INSERT, this task takes it over.
AfterPush(m) == IF claimed THEN "note" ELSE "lock"

\* The second critical section of QueuePending.
PushPending(m) ==
    /\ pc[m] = "pushPending"
    /\ claimed' = TRUE
    /\ queue' = Pushed(m)
    /\ Goto(m, AfterPush(m))
    /\ hinted' = (hinted \/ claimed)
    /\ UNCHANGED <<batch, lock, stopMark, epoch, handle, agent, round, spc,
                   target, purge, loaded, phase, store, env, history>>

\* After the note and the reaction the task looks whether its batch is gone
\* (peek_conv), and only in a second critical section withdraws the hint.
NoteQueued(m) ==
    /\ pc[m] = "note"
    /\ Goto(m, IF ~claimed \/ queue = {} THEN "clearHint" ELSE "done")
    /\ UNCHANGED <<claimed, queue, hinted, batch, lock, stopMark, epoch, handle, agent,
                   round, spc, target, purge, loaded, phase, store, env, history>>

ClearHint(m) ==
    /\ pc[m] = "clearHint"
    /\ hinted' = FALSE
    /\ Goto(m, "done")
    /\ UNCHANGED <<claimed, queue, batch, lock, stopMark, epoch, handle, agent, round,
                   spc, target, purge, loaded, phase, store, env, history>>

-----------------------------------------------------------------------------
(* dispatch_agent_message: the runner loop, under the conversation lock *)

\* Mutant: the round starts without waiting for the lock.
LockIgnored == TRUE
\* The conversation lock can be taken.
LockAvailable == lock = Free

AcquireLock(m) ==
    /\ pc[m] = "lock" /\ LockAvailable
    /\ lock' = m
    /\ Goto(m, "take")
    /\ UNCHANGED <<claimed, queue, hinted, batch, stopMark, epoch, handle, agent, round,
                   spc, target, purge, loaded, phase, store, env, history>>

\* take_batch_after_window: nothing to take.  An empty queue is handed back.
TakeNothing(m) ==
    /\ pc[m] = "take" /\ queue = {}
    /\ claimed' = FALSE
    /\ Goto(m, "release")
    /\ UNCHANGED <<queue, hinted, batch, lock, stopMark, epoch, handle, agent, round,
                   spc, target, purge, loaded, phase, store, env, history>>

\* take_batch_after_window: take all; the empty queue left behind still says
\* that the conversation has a runner.
TakeBatch(m) ==
    /\ pc[m] = "take" /\ queue # {}
    /\ batch' = queue
    /\ queue' = {}
    /\ hinted' = FALSE
    /\ agent' = "none"
    /\ Goto(m, "deleteRows")
    /\ UNCHANGED <<claimed, lock, stopMark, epoch, handle, round, spc, target,
                   purge, loaded, phase, store, env, history>>

\* Mutant: all rows of the conversation are deleted with the batch.
AllRows == rows
\* Mutant: the rows of a batch that was taken are not deleted.
NoRows == {}
\* The row ids the batch carries.
BatchRows == batch

\* take_batch_after_window: the rows of this batch are deleted by row id.
DeleteBatchRows(m) ==
    /\ pc[m] = "deleteRows"
    /\ DeleteRows(BatchRows)
    /\ Goto(m, "check")
    /\ UNCHANGED <<claimed, queue, hinted, batch, lock, stopMark, epoch, handle, agent,
                   round, spc, target, purge, loaded, phase, inflight, retry,
                   clock, crashes, marked, fate, runs, unsaved>>

\* A stop mark counts in the two checks of the loop while it is at most
\* MarkTTL old.
MarkFresh == stopMark # NoMark /\ clock - stopMark <= MarkTTL

\* Mutant: the loop is left with the empty queue still there.
AfterStopHitBreak == "release"
\* The batch is dropped and the loop goes on to hand the queue back.
AfterStopHit == "take"

\* The two checks consume the mark, whether it counts or not.
StopCheck(m) ==
    /\ pc[m] \in {"check", "check2"}
    /\ stopMark' = NoMark
    /\ IF MarkFresh
       THEN Settle(batch, "stopped") /\ batch' = {} /\ Goto(m, AfterStopHit)
       ELSE UNCHANGED <<fate, batch>> /\ Goto(m, IF pc[m] = "check" THEN "permit" ELSE "initiator")
    /\ UNCHANGED <<claimed, queue, hinted, lock, epoch, handle, agent, round, spc, target,
                   purge, loaded, phase, store, env,
                   runs, leftover, unsaved>>

\* Mutant: no check between the permit and the round.
AfterPermitUnchecked == "initiator"
\* The wait for a permit may take minutes, so the check is repeated.
AfterPermit == "check2"

\* acquire_round_permit returns (module ConvLocks).
PermitGranted(m) ==
    /\ pc[m] = "permit"
    /\ Goto(m, AfterPermit)
    /\ UNCHANGED <<claimed, queue, hinted, batch, lock, stopMark, epoch, handle, agent,
                   round, spc, target, purge, loaded, phase, store, env, history>>

-----------------------------------------------------------------------------
(* run_agent_round and run_round_inner *)

\* An early return before the agent is spawned: the engine cannot close the
\* approval loop, or the working directory is gone.
RefuseRound(m) ==
    /\ pc[m] \in {"initiator", "inflight"}
    /\ Settle(batch, "refused")
    /\ batch' = {}
    /\ Goto(m, "unregister")
    /\ UNCHANGED <<claimed, queue, hinted, lock, stopMark, epoch, handle, agent, round,
                   spc, target, purge, loaded, phase, store, env,
                   runs, leftover, unsaved>>

\* resolve_backend, the model and effort keys, note_round_initiator.
NoteInitiator(m) ==
    /\ pc[m] = "initiator"
    /\ Goto(m, "epoch")
    /\ UNCHANGED <<claimed, queue, hinted, batch, lock, stopMark, epoch, handle, agent,
                   round, spc, target, purge, loaded, phase, store, env, history>>

\* The mark that is there now becomes the baseline of the recheck.
ReadEpoch(m) ==
    /\ pc[m] = "epoch"
    /\ epoch' = stopMark
    /\ Goto(m, "inflight")
    /\ UNCHANGED <<claimed, queue, hinted, batch, lock, stopMark, handle, agent, round,
                   spc, target, purge, loaded, phase, store, env, history>>

\* The messages of the batch that have text: retry_prompt joins their texts,
\* and is None when there are none.
Texts == batch \ MediaOnly

\* Mutant: the prompt is made of the queue, from which the batch is gone.
RoundPromptOfQueue == [msgs |-> queue \ MediaOnly, at |-> clock]
\* The prompt of the batch and the time; that of a batch of pictures only is
\* empty, but it is written all the same.
RoundPrompt == [msgs |-> Texts, at |-> clock]

MarkInflight(m) ==
    /\ pc[m] = "inflight"
    /\ \/ StoreOk /\ inflight' = RoundPrompt
       \/ StoreFault /\ UNCHANGED inflight
    /\ Goto(m, "recheck")
    /\ UNCHANGED <<claimed, queue, hinted, batch, lock, stopMark, epoch, handle, agent,
                   round, spc, target, purge, loaded, phase, rows, retry,
                   clock, crashes, marked, history>>

\* The recheck before the spawn: only a mark newer than the baseline counts.
RecheckStops(m) ==
    /\ pc[m] = "recheck" /\ stopMark > epoch
    /\ stopMark' = NoMark
    /\ Settle(batch, "stopped")
    /\ batch' = {}
    /\ Goto(m, "unregister")
    /\ UNCHANGED <<claimed, queue, hinted, lock, epoch, handle, agent, round, spc, target,
                   purge, loaded, phase, store, env,
                   runs, leftover, unsaved>>

\* Otherwise the agent task is spawned; the mark is consumed all the same.
SpawnAgent(m) ==
    /\ pc[m] = "recheck" /\ ~(stopMark > epoch)
    /\ stopMark' = NoMark
    /\ agent' = "running"
    /\ round' = round + 1
    /\ runs' = [b \in Msg |-> IF b \in batch THEN runs[b] + 1 ELSE runs[b]]
    /\ Settle(batch, "ran")
    /\ Goto(m, "register")
    /\ UNCHANGED <<claimed, queue, hinted, batch, lock, epoch, handle, spc, target,
                   purge, loaded, phase, store, env,
                   leftover, unsaved>>

\* The handle becomes visible to /stop and to steering only now.
RegisterHandle(m) ==
    /\ \/ pc[m] = "register" /\ Goto(m, "collect")
       \/ pc[m] = "registerCompact" /\ Goto(m, "collectCompact")
    /\ handle' = TRUE
    /\ UNCHANGED <<claimed, queue, hinted, batch, lock, stopMark, epoch, agent, round,
                   spc, target, purge, loaded, phase, store, env, history>>

\* backend.run returns, fails or panics by itself.
AgentReturns ==
    /\ agent = "running"
    /\ agent' = "finished"
    /\ UNCHANGED <<pc, claimed, queue, hinted, batch, lock, stopMark, epoch, handle, round,
                   spc, target, purge, loaded, phase, store, env, history>>

\* The idle watchdog of the collect loop aborts the agent.
IdleTimeout(m) ==
    /\ pc[m] = "collect" /\ agent = "running"
    /\ agent' = "aborted"
    /\ UNCHANGED <<pc, claimed, queue, hinted, batch, lock, stopMark, epoch, handle, round,
                   spc, target, purge, loaded, phase, store, env, history>>

\* The chunk channel is closed and the join handle awaited.  Every outcome but
\* a good one stores the prompt for /retry (persist_retry_prompt), if there is one.
CollectOutcome(m) ==
    /\ pc[m] = "collect" /\ agent # "running"
    /\ \/ (agent = "finished" \/ Texts = {}) /\ StoreOk /\ UNCHANGED retry
       \/ Texts # {} /\ StoreOk /\ retry' = RoundPrompt
       \/ Texts # {} /\ StoreFault /\ UNCHANGED retry
    /\ batch' = {}
    /\ Goto(m, "unregister")
    /\ UNCHANGED <<claimed, queue, hinted, lock, stopMark, epoch, handle, agent, round,
                   spc, target, purge, loaded, phase, rows, inflight,
                   clock, crashes, marked, history>>

\* run_agent_round: running and round_initiator are cleared ...
Unregister(m) ==
    /\ pc[m] = "unregister"
    /\ handle' = FALSE
    /\ Goto(m, "unmark")
    /\ UNCHANGED <<claimed, queue, hinted, batch, lock, stopMark, epoch, agent, round,
                   spc, target, purge, loaded, phase, store, env, history>>

\* ... then the inflight mark, and the loop decides on an automatic compact.
ClearInflight(m) ==
    /\ pc[m] = "unmark"
    /\ \/ StoreOk /\ inflight' = NoPrompt
       \/ StoreFault /\ UNCHANGED inflight
    /\ \/ Goto(m, "take")
       \/ AutoCompact /\ agent = "finished" /\ Goto(m, "compact")
    /\ UNCHANGED <<claimed, queue, hinted, batch, lock, stopMark, epoch, handle, agent,
                   round, spc, target, purge, loaded, phase, rows, retry,
                   clock, crashes, marked, history>>

\* maybe_auto_compact, compact_session_locked: a summary round, registered the
\* same way so that /stop reaches it.
SpawnCompact(m) ==
    /\ pc[m] = "compact"
    /\ agent' = "running"
    /\ round' = round + 1
    /\ Goto(m, "registerCompact")
    /\ UNCHANGED <<claimed, queue, hinted, batch, lock, stopMark, epoch, handle, spc,
                   target, purge, loaded, phase, store, env, history>>

FinishCompact(m) ==
    /\ pc[m] = "collectCompact" /\ agent # "running"
    /\ handle' = FALSE
    /\ Goto(m, "take")
    /\ UNCHANGED <<claimed, queue, hinted, batch, lock, stopMark, epoch, agent, round,
                   spc, target, purge, loaded, phase, store, env, history>>

ReleaseLock(m) ==
    /\ pc[m] = "release"
    /\ lock' = Free
    /\ Goto(m, "done")
    /\ UNCHANGED <<claimed, queue, hinted, batch, stopMark, epoch, handle, agent, round,
                   spc, target, purge, loaded, phase, store, env, history>>

\* A session command (/new, /compact, /resume ...) holds the same lock.
CommandTakesLock ==
    /\ Commands /\ phase = "up" /\ lock = Free
    /\ lock' = Command
    /\ UNCHANGED <<pc, claimed, queue, hinted, batch, stopMark, epoch, handle, agent, round,
                   spc, target, purge, loaded, phase, store, env, history>>

CommandReleasesLock ==
    /\ lock = Command
    /\ lock' = Free
    /\ UNCHANGED <<pc, claimed, queue, hinted, batch, stopMark, epoch, handle, agent, round,
                   spc, target, purge, loaded, phase, store, env, history>>

-----------------------------------------------------------------------------
(* cmd_stop.  It never waits for the conversation lock. *)

StopIssued(s) ==
    /\ phase = "up" /\ spc[s] = "idle"
    /\ handle' = FALSE
    /\ IF handle THEN spc' = [spc EXCEPT ![s] = "interrupt"] /\ target' = [target EXCEPT ![s] = round]
                 ELSE spc' = [spc EXCEPT ![s] = "tryLock"] /\ UNCHANGED target
    /\ UNCHANGED <<pc, claimed, queue, hinted, batch, lock, stopMark, epoch, agent, round,
                   purge, loaded, phase, store, env, history>>

\* The taken handle is aborted, at once or when the graceful wait ran out;
\* aborting a task that has ended does nothing.
StopInterrupt(s) ==
    /\ spc[s] = "interrupt"
    /\ agent' = IF agent = "running" /\ target[s] = round THEN "aborted" ELSE agent
    /\ spc' = [spc EXCEPT ![s] = "queue"]
    /\ UNCHANGED <<pc, claimed, queue, hinted, batch, lock, stopMark, epoch, handle, round,
                   target, purge, loaded, phase, store, env, history>>

\* No handle: try_lock tells whether somebody holds the conversation lock.
StopTryLock(s) ==
    /\ spc[s] = "tryLock"
    /\ spc' = [spc EXCEPT ![s] = IF lock = Free THEN "queue" ELSE "mark"]
    /\ UNCHANGED <<pc, claimed, queue, hinted, batch, lock, stopMark, epoch, handle, agent,
                   round, target, purge, loaded, phase, store, env, history>>

\* The batch in the hands of a runner that is in one of these steps.
BatchAt(steps) == IF \E m \in Msg : pc[m] \in steps THEN batch ELSE {}

StopSetsMark(s) ==
    /\ spc[s] = "mark"
    /\ stopMark' = clock
    /\ doomed' = doomed \cup BatchAt(PreSpawn) /\ caught' = caught \cup BatchAt(LoopSteps)
    /\ spc' = [spc EXCEPT ![s] = "queue"]
    /\ UNCHANGED <<pc, claimed, queue, hinted, batch, lock, epoch, handle, agent, round,
                   target, purge, loaded, phase, store, clock, crashes, faults, history>>

\* "/stop all" takes the queue, and with it the runner identity, and drops its
\* messages; a plain /stop keeps them.
StopQueue(s) ==
    /\ spc[s] = "queue"
    /\ spc' = [spc EXCEPT ![s] = "done"]
    /\ IF s \in HardStop
       THEN /\ claimed' = FALSE /\ queue' = {} /\ hinted' = FALSE
            /\ purge' = purge \cup queue
            /\ Settle(queue, "cleared")
       ELSE UNCHANGED <<claimed, queue, hinted, purge, fate>>
    /\ UNCHANGED <<pc, batch, lock, stopMark, epoch, handle, agent, round, target, loaded,
                   phase, store, env, runs, leftover, unsaved>>

-----------------------------------------------------------------------------
(* Removing single messages, and the row deletions that follow *)

\* Mutant: the removed message stays in the queue.
RemainingAll(m) == queue
\* The queue without the removed message.
Remaining(m) == queue \ {m}

\* Mutant: the footer is left as it is.
HintAfterRemovalStale(m) == hinted
\* The footer follows the queue: it shows what remains, or is withdrawn.
HintAfterRemoval(m) == queue # {m}

\* remove_queued_by_msg_id and "/queue drop n": the message leaves the queue;
\* an emptied queue keeps the runner identity.
RemoveQueued(m) ==
    /\ phase = "up" /\ m \in queue \cap Removable
    /\ queue' = Remaining(m)
    /\ hinted' = HintAfterRemoval(m)
    /\ purge' = purge \cup {m}
    /\ Settle({m}, "removed")
    /\ UNCHANGED <<pc, claimed, batch, lock, stopMark, epoch, handle, agent, round, spc,
                   target, loaded, phase, store, env,
                   runs, leftover, unsaved>>

\* delete_queued_rows of the removed elements, after the critical section.
PurgeRow(m) ==
    /\ m \in purge
    /\ DeleteRows({m})
    /\ purge' = purge \ {m}
    /\ UNCHANGED <<pc, claimed, queue, hinted, batch, lock, stopMark, epoch, handle, agent,
                   round, spc, target, loaded, phase, inflight, retry,
                   clock, crashes, marked, fate, runs, unsaved>>

-----------------------------------------------------------------------------
(* A crash and the start-up recovery *)

\* Everything in memory is gone, the messages of finished handlers included;
\* a message that is replayed is not stopped any more.
Crash ==
    /\ crashes < MaxCrashes /\ crashes' = crashes + 1
    /\ pc' = [m \in Msg |-> IF pc[m] = "idle" THEN "idle" ELSE "dead"]
    /\ claimed' = FALSE /\ queue' = {} /\ hinted' = FALSE /\ batch' = {} /\ lock' = Free
    /\ stopMark' = NoMark /\ epoch' = NoMark /\ handle' = FALSE /\ agent' = "none"
    /\ spc' = [s \in Stop |-> IF spc[s] = "idle" THEN "idle" ELSE "done"]
    /\ target' = [s \in Stop |-> 0]
    /\ purge' = {} /\ leftover' = leftover \cup (purge \cap rows)
    /\ loaded' = {} /\ phase' = "recoverRounds"
    /\ doomed' = {} /\ caught' = {}
    /\ UNCHANGED <<round, store, clock, faults, fate, runs, unsaved>>

\* Mutant: a prompt that is there is kept, however old.
RecoveredPromptOld == IF retry # NoPrompt THEN retry ELSE inflight
\* The inflight prompt, unless a strictly newer prompt is there.
RecoveredPrompt == IF retry # NoPrompt /\ retry.at > inflight.at THEN retry ELSE inflight

\* recover_crashed_rounds, first write: it becomes the prompt of /retry.
RecoverPrompt ==
    /\ phase = "recoverRounds" /\ inflight.msgs # {}
    /\ retry' = RecoveredPrompt
    /\ phase' = "clearMark"
    /\ UNCHANGED <<memory, rows, inflight, env, history>>

\* recover_crashed_rounds, second write: the mark is removed.
RecoverClearMark ==
    /\ phase = "clearMark"
    /\ inflight' = NoPrompt
    /\ phase' = "replayLoad"
    /\ UNCHANGED <<memory, rows, retry, env, history>>

\* A mark without a prompt is removed, and nothing is offered to /retry.
RecoverEmptyMark ==
    /\ phase = "recoverRounds" /\ inflight # NoPrompt /\ inflight.msgs = {}
    /\ inflight' = NoPrompt
    /\ phase' = "replayLoad"
    /\ UNCHANGED <<memory, rows, retry, env, history>>

RecoverNothing ==
    /\ phase = "recoverRounds" /\ inflight = NoPrompt
    /\ phase' = "replayLoad"
    /\ UNCHANGED <<memory, store, env, history>>

\* replay_persisted_queue: load_queued_all ...
ReplayLoad ==
    /\ phase = "replayLoad"
    /\ loaded' = rows
    /\ phase' = IF rows = {} THEN "up" ELSE "replayClear"
    /\ UNCHANGED <<pc, claimed, queue, hinted, batch, lock, stopMark, epoch, handle, agent,
                   round, spc, target, purge, store, env, history>>

\* ... clear_queued_all ...
ReplayClear ==
    /\ phase = "replayClear"
    /\ rows' = {}
    /\ phase' = "replaySpawn"
    /\ UNCHANGED <<memory, inflight, retry, env, history>>

\* ... and one spawned handler per loaded row.
ReplaySpawn(m) ==
    /\ phase = "replaySpawn" /\ m \in loaded
    /\ Goto(m, "plan")
    /\ fate' = [fate EXCEPT ![m] = "none"]
    /\ loaded' = loaded \ {m}
    /\ phase' = IF loaded = {m} THEN "up" ELSE phase
    /\ UNCHANGED <<claimed, queue, hinted, batch, lock, stopMark, epoch, handle, agent,
                   round, spc, target, purge, store, env,
                   runs, leftover, unsaved>>

\* Seconds pass; they matter only to stop marks and prompt stamps.
Tick ==
    /\ clock < MaxClock /\ clock' = clock + 1
    /\ caught' = IF clock - stopMark < MarkTTL THEN caught ELSE caught \ batch
    /\ UNCHANGED <<memory, phase, store, crashes, faults, doomed, history>>

-----------------------------------------------------------------------------

\* The step a handler task takes by itself.
TaskStep(m) ==
    \/ PlanBecomeRunner(m) \/ PlanSteer(m) \/ PlanQueueFull(m) \/ PlanQueuePending(m)
    \/ PersistQueued(m) \/ PushBecomeRunner(m) \/ PushPending(m) \/ NoteQueued(m)
    \/ ClearHint(m) \/ AcquireLock(m) \/ TakeNothing(m) \/ TakeBatch(m)
    \/ DeleteBatchRows(m) \/ StopCheck(m) \/ PermitGranted(m) \/ RefuseRound(m)
    \/ NoteInitiator(m) \/ ReadEpoch(m) \/ MarkInflight(m) \/ RecheckStops(m)
    \/ SpawnAgent(m) \/ RegisterHandle(m) \/ IdleTimeout(m) \/ CollectOutcome(m)
    \/ Unregister(m) \/ ClearInflight(m) \/ SpawnCompact(m) \/ FinishCompact(m)
    \/ ReleaseLock(m)

StopStep(s) == StopInterrupt(s) \/ StopTryLock(s) \/ StopSetsMark(s) \/ StopQueue(s)

Recovery ==
    \/ RecoverPrompt \/ RecoverClearMark \/ RecoverEmptyMark \/ RecoverNothing
    \/ ReplayLoad \/ ReplayClear \/ \E m \in Msg : ReplaySpawn(m)

Next ==
    \/ \E m \in Msg : TaskStep(m)
    \/ \E m \in Msg : Receive(m) \/ RemoveQueued(m) \/ PurgeRow(m)
    \/ \E s \in Stop : StopIssued(s) \/ StopStep(s)
    \/ AgentReturns \/ CommandTakesLock \/ CommandReleasesLock
    \/ Crash \/ Recovery \/ Tick

Spec == Init /\ [][Next]_vars

\* The runtime runs every spawned task that can go on, and the conversation
\* lock is a FIFO mutex, so a waiting task gets it.  An agent ends: backend.run
\* returns, at the latest when agent_timeout is up (0 turns that off: then it
\* is an assumption about the backend).  Nothing makes users, commands on the
\* lock, store faults, crashes or the clock move.
Fairness ==
    /\ \A m \in Msg : WF_vars(TaskStep(m)) /\ SF_vars(AcquireLock(m)) /\ WF_vars(PurgeRow(m))
    /\ \A s \in Stop : WF_vars(StopStep(s))
    /\ WF_vars(AgentReturns) /\ WF_vars(CommandReleasesLock) /\ WF_vars(Recovery)

FairSpec == Spec /\ Fairness

-----------------------------------------------------------------------------

TypeOK ==
    /\ pc \in [Msg -> TaskSteps]
    /\ claimed \in BOOLEAN /\ queue \subseteq Msg /\ hinted \in BOOLEAN /\ batch \subseteq Msg
    /\ lock \in Msg \cup {Free, Command}
    /\ stopMark \in Nat /\ epoch \in Nat /\ handle \in BOOLEAN
    /\ agent \in {"none", "running", "finished", "aborted"} /\ round \in Nat
    /\ spc \in [Stop -> StopSteps] /\ target \in [Stop -> Nat]
    /\ purge \subseteq Msg /\ loaded \subseteq Msg
    /\ phase \in {"up", "recoverRounds", "clearMark", "replayLoad", "replayClear", "replaySpawn"}
    /\ rows \subseteq Msg
    /\ inflight \in [msgs : SUBSET Msg, at : Nat] /\ retry \in [msgs : SUBSET Msg, at : Nat]
    /\ clock \in Nat /\ crashes \in Nat /\ faults \in Nat
    /\ fate \in [Msg -> Fates] /\ runs \in [Msg -> Nat]
    /\ leftover \subseteq Msg /\ unsaved \subseteq Msg /\ doomed \subseteq Msg /\ caught \subseteq Msg

\* A conversation whose queue exists has a task that will drain it: the runner
\* identity is never left behind by a task that leaves, nor created by one
\* that does not stay (the lost wake-up of enqueue_or_become_runner).
NoOrphanQueue == claimed => \E m \in Msg : pc[m] \in RunnerSteps

\* Until it is settled, a message whose handler is alive or has returned is
\* with that handler, in the queue, or in the batch of the runner: no
\* interleaving of enqueuing, taking, /stop and recall mislays one.
NoSilentLoss ==
    \A m \in Msg : fate[m] = "none" /\ pc[m] \notin {"idle", "dead"} =>
        \/ pc[m] \in ArrivalSteps \ {"note", "clearHint"}
        \/ m \in queue \/ m \in batch

\* A queued message has its row in the store, so that a crash replays it,
\* whatever rows other tasks delete meanwhile; only a failed INSERT excuses.
RowsProtectQueue == queue \subseteq rows \cup unsaved

\* A row belongs to a message that is still to be handled, or is about to be
\* deleted, or its deletion failed: a restart does not replay settled messages.
RowsArePending ==
    \A m \in rows : fate[m] = "none" \/ m \in purge \cup leftover

\* No message is handed to an agent twice, across crashes and replays, unless
\* the deletion of its row failed or was cut off by a crash.
AtMostOnce == \A m \in Msg : runs[m] <= 1 \/ m \in leftover

\* The queued-messages footer is not shown for a queue that is empty.
NoStaleHint == hinted => queue # {}

\* While an agent runs for a batch, there is an inflight mark that a crash would
\* leave, and its prompt is that of this batch: every message of it that has
\* text and no other (unless a store write failed).
RunningRoundIsMarked ==
    (\E m \in Msg : pc[m] \in RoundSteps) =>
        \/ inflight # NoPrompt /\ inflight.msgs = batch \ MediaOnly
        \/ faults # 0

\* The recovery drops an inflight mark that has a prompt only when /retry offers
\* that prompt or a strictly newer one, also when the recovery itself is cut off
\* by a crash; a mark without a prompt never costs /retry the prompt it has.
RecoveryKeepsPrompt ==
    [][inflight' # inflight /\ phase \in {"recoverRounds", "clearMark"} =>
          /\ retry' = retry
          /\ inflight.msgs = {} \/ retry = inflight \/ retry.at > inflight.at]_vars

\* A /stop that leaves its mark while the batch still has a stop check of the
\* runner loop ahead, and is not older than MarkTTL at that check, stops that
\* batch: it is never handed to an agent, whatever other /stop invocations do.
MarkedInLoopDoesNotRun == \A m \in caught : fate[m] # "ran"

\* Comment in dispatch_agent_message: the two checks and the recheck of the
\* epoch cover all the time until the spawn, so a marked batch never runs.
MarkedBatchDoesNotRun == \A m \in doomed : fate[m] # "ran"

\* What became of a message is final: only the replay of a row that outlived
\* its message reopens it.
SettledIsFinal ==
    [][\A m \in Msg : fate[m] # "none" => fate'[m] = fate[m] \/ m \in leftover]_vars

\* Every message that was received is settled in the end, or its handler died
\* in a crash.
EveryMessageSettles ==
    \A m \in Msg : pc[m] # "idle" ~> fate[m] # "none" \/ pc[m] = "dead"

\* README: a queued message survives a crash.  A saved message that was not
\* settled when the process died is in a place that the restart reads.
SavedIsNeverLost ==
    \A m \in Msg : pc[m] = "dead" /\ fate[m] = "none" /\ m \notin unsaved =>
        m \in rows \cup loaded \cup inflight.msgs \cup retry.msgs

\* What the sender of a message may rely on.
StatusOf(m) ==
    CASE pc[m] = "idle"                                          -> "new"
      [] pc[m] # "idle" /\ fate[m] = "ran" /\ m \in batch        -> "running"
      [] pc[m] # "idle" /\ fate[m] # "none" /\ ~(fate[m] = "ran" /\ m \in batch) -> "settled"
      [] pc[m] = "dead" /\ fate[m] = "none" /\ m \notin rows \cup loaded -> "lost"
      [] OTHER                                                   -> "waiting"

\* The places where a message has neither its row nor its mark: its batch is
\* taken and its round not yet marked (or the mark could not be written, or does
\* not name it, as it has no text), or it is being replayed and not yet saved
\* again.
Unmarked == {"check", "permit", "check2", "initiator", "epoch", "inflight"}
InGap(m) ==
    \/ m \in batch /\ \E r \in Msg : pc[r] \in Unmarked
    \/ m \in batch /\ (m \in MediaOnly \/ faults # 0) /\ \E r \in Msg : pc[r] = "recheck"
    \/ pc[m] \in {"plan", "persistRunner", "persistPending"}
    \/ phase = "replaySpawn" /\ m \in loaded

\* How far that promise holds: a saved message that waits is on disk, by its row
\* or by the mark of its round, at every step except in those places, so that
\* a crash anywhere else loses none (take_batch_after_window, the inflight mark,
\* replay_persisted_queue, and whatever deletes rows meanwhile).
SavedIsOnDisk ==
    \A m \in Msg : StatusOf(m) = "waiting" /\ m \notin unsaved =>
        m \in rows \/ m \in batch \cap inflight.msgs \/ InGap(m)

-----------------------------------------------------------------------------
(* The conversation implements the mailbox. *)

Mailbox == INSTANCE AgentMailbox WITH status <- [m \in Msg |-> StatusOf(m)], escaped <- leftover

\* Every step of the conversation is a step of the mailbox or leaves it alone:
\* one batch at a time, no message twice, nothing lost but by a crash.
ImplementsMailbox == Mailbox!Spec

=============================================================================
