# Verification of imagent

imagent is a gateway: people write to it in an instant-messaging chat, and it
lets an agent (Claude Code, Codex, Gemini) work on what they wrote. It
persists and queues their messages, runs one agent round at a time per
conversation, and lets the agent's dangerous steps wait for a yes or no in the
chat. This directory holds TLA+ models of its core, TLC configurations that
check them, and TLAPS proofs of what matters most.

Line numbers are those of the commit these modules were written for. `D`
stands for `src/crates/core/src/dispatch/`.

1. [The system](#1-the-system)
2. [Modules](#2-modules)
3. [The conversation runner](#3-the-conversation-runner)
4. [The approval flow](#4-the-approval-flow)
5. [Locks and the round gate](#5-locks-and-the-round-gate)
6. [The card of a round](#6-the-card-of-a-round)
7. [The outbox](#7-the-outbox)
8. [The hub of the relay](#8-the-hub-of-the-relay)
9. [Runs](#9-runs)
10. [Fairness](#10-fairness)
11. [What is proved](#11-what-is-proved)
12. [Where code and documents disagree](#12-where-code-and-documents-disagree)
13. [What is not modelled](#13-what-is-not-modelled)
14. [Plan](#14-plan)

Tools: `tlc -workers 2 -config ConvRunner_crash.cfg MCConvRunner.tla` runs a
configuration (PROJECT.json names the module of each), `tlapm
ConvRunner_proofs.tla` checks the proofs of a module.

## 1. The system

### How the parts interact

    platform ──message──▶ Dispatcher::run (one receive loop)
                            │  1. is it the answer to a pending question?
                            │       PermissionRouter ◀──ask── waiters (socket, hook)
                            │  2. else spawn handle()
                            ▼
              handle(): command, or enqueue_or_become_runner
                            │          │
                     /stop, /new ...   ▼  ConvState.queue   ⇄  store: queued_messages
                            │       runner loop, under conv_locks[conv]
                            ▼          │  permit of round_gate
                     ConvState.running ◀── run_round_inner ⇄  store: inflight_prompt,
                                       │                           last_prompt
                                       ▼
                               backend.run (a task of its own), events ──▶ card session
                                                                               │
                platform (Feishu, WeCom, web ...) ◀── cards, texts ────────────┘
                     │            └─ a text that cannot be sent ⇄ outbox, its driver
                     └─ web: gateway ⇄ relay hub ⇄ browsers

Everything in the dispatcher is a future on a tokio runtime. The state that
futures share is behind short locks (`conv_states`, the router's map,
`conv_locks`), which are released at every await: all interesting behaviour is
what other futures do between two critical sections.

### Inventory

| Component | State | Operations | What is hard | What makes it correct |
|---|---|---|---|---|
| Conversation runner (`D/mod.rs`, `round.rs`, `commands/mod.rs`, `commands/session.rs`, `commands/misc.rs`) | per conversation: `queue`, `running`, `stop_requested`, `queued_hint`; in the store: `queued_messages`, `inflight_prompt`, `last_prompt` | enqueue or become the runner, take a batch, run a round, `/stop`, `/stop all`, recall, `/queue drop`, automatic compaction, crash recovery, replay | a runner that leaves while a message is pushed; rows written and deleted outside the locks; a `/stop` at any moment; a crash between two store calls; store calls that fail | a queue has somebody to drain it; no message is mislaid or executed twice; one round at a time; a crash loses nothing that was saved; a stop mark stops |
| Permission router and approval flow (`permission.rs`, `D/socket.rs`, `D/mod.rs`) | pending questions, session-wide allowances, permission mode | register, anchor the card, route a reply, cancel, time out, initiator check | the receive loop looks at the router under a new lock each time; request ids are used again; a waiter times out while it is answered; its future is dropped | each question is answered exactly once and ends; the card, the audit and the agent tell the same story; nothing is permitted without a user |
| `conv_locks` and the round gate (`D/mod.rs`, `D/round.rs`) | reference-counted locks, a replaceable semaphore | acquire, try, release; reload of the limit | an entry removed while it is in use; permits of a gate that was replaced | one lock per conversation, nothing leaks, limits hold, waiters are served |
| Idle eviction and settings of a conversation (`D/mod.rs:1235`) | `conv_states` entries, time of the last touch | evict the idle ones above a cap | what was checked before the second critical section is not all checked in it | an entry in use stays |
| Outbox (`outbox.rs`, the sends of `wecom/platform.rs` and `feishu/platform`) | rows with attempts and time of the next try; one driver per kind | send live, keep what failed; tick: take up to 10 due rows, deliver, delete or back off; sweep unknown kinds | a send that failed after it was carried out; a delivery whose deletion fails; a message of several chunks of which some went; new rows that overtake old ones | what was reported as sent is handed to the platform or its client, kept, or given up after 16 attempts; nothing goes twice without a reason; first attempts are in order |
| De-duplication (`dedup.rs`) | message key → time | check | cleared at its hard cap | no duplicate within the window |
| Card sessions (`card_session.rs`) | state of a round's card, shared by the round and its patcher task; one `live_cards` row per conversation | append, throttled patch, heartbeat, finalise, sweep after a restart | a slow patch racing newer events and the final one; a crash while a card is live; a card the user deletes; a final frame that fails | the card shows the last state; the conclusion reaches the user; a closed card stays closed; a card left "generating" can be found |
| Multi-platform (`multi_platform.rs`, `platform.rs`) | children by prefix, an inbound channel | pump, route, mirror | a child that fails is restarted with back-off | a conversation's messages go to its own platform |
| Configuration, authorisation, instance lock (`config.rs`, `auth.rs`, `instance.rs`) | settings, white lists, a lock file | load, reload, allow | files | only listed senders reach the dispatcher |
| Agent back ends (`crates/claude`, `codex`, `gemini`) | child processes, pending requests | start, stream, interrupt | protocols, processes that hang | a run ends, or its task can be aborted |
| Platforms (`crates/feishu`, `wecom`, `ilink`, `localterm`, `web`) | connections, cards by request id | receive, send, update | reconnection, rate limits | every message is delivered to `recv` once |
| Store (`crates/store`) | SQLite tables, sealed credentials | one transaction per call | failure of a call | a call happens completely or not at all |
| Relay (`crates/relay`) | hub: slots of machines, browsers, a channel per connection, an offline buffer; store: browser sessions, machines, pairing codes, push subscriptions, passkeys | register, replace, bind, route, broadcast, revoke, release; pair, claim, expire | what is read under the hub's lock is sent after it; a session revoked between its check and its binding; full channels; two claims of one code | no connection of a revoked session stays; browsers see who is online; a code is used once |
| Cron and webhook (`D/commands/cron.rs`, `src/webhook.rs`) | jobs with the next time, replay guard | fire, catch up, inject | a restart over due times; injection while shutting down | a due job fires once; no event twice |
| Other commands, MCP server, bitable, delegate, metrics, rendering, session scan | little | request and response | wording and layout | – |
| Program entry, service, backup, setup; Web UI | – | wiring, files, presentation | – | – |

Modelled are the runner, the approval flow, the locks, the card sessions, the
outbox and the hub of the relay: they hold the promises users rely on, and
their hazards are interleavings, failures and crashes that tests hardly reach.
PROJECT.json lists every component with its status, and the hazards found in
this code, each with its line and the property that would catch it.

## 2. Modules

| Module | What it is |
|---|---|
| `ConvRunner` | one conversation: enqueue, batch, round, stop, crash, recovery |
| `AgentMailbox` | the abstract specification `ConvRunner` implements |
| `ConvRunner_proofs`, `ConvRunner_mailbox` | its inductive invariant and theorems; the proof of the refinement |
| `Approval`, `Approval_proofs` | the approval flow of one conversation, and its theorems |
| `Questions` | the abstract specification `Approval` implements: what a question, its card and its agent are promised |
| `ConvLocks`, `ConvLocks_proofs` | the map of conversation locks and the round gate, and their theorems |
| `ConvMutex` | the abstract specification of the locks: a mutex per conversation |
| `CardSession`, `CardSession_proofs` | the card of a conversation's rounds and its row in `live_cards`, and their theorems |
| `Outbox`, `Outbox_proofs` | live sends, rows, drivers and the sweeper of the outbox, and their theorems |
| `RelayHub`, `RelayHub_proofs` | connections of gateways and browsers to the relay, and their theorems |
| `MCConvRunner`, `MCApproval`, `MCConvLocks`, `MCCardSession`, `MCOutbox`, `MCRelayHub` | small instances for TLC |

How they compose: `ConvRunner` takes the conversation lock for granted (the
variable `lock`, one owner at a time) and lets the wait for a permit end at any
time. `ConvLocks` shows that the map of reference-counted locks gives exactly
that lock (`ImplementsMutex`), and that the permit comes (`PermitComes`).
`Approval` concerns what happens while a round runs; for `ConvRunner` that is
part of the time between `SpawnAgent` and the end of the agent, and what a
round that ends does to `Approval` is `CancelAll` and `Abort`. `CardSession`
is the other side of the same time: `StartRound` is a round of `ConvRunner`,
`Finalize` its end, `Abandon` its abortion; that rounds of a conversation do
not overlap is what `ConvRunner` shows. The text a card session falls back to
(`SendText`) is a `StartSend` of `Outbox`, whose `told` is what `SendText` gets
back. `RelayHub` carries the frames of the platform `web`.

Definitions that begin with a comment `Mutant:` are not part of a model. Each
is a plausible bug of the definition that follows it, and serves to show that
the property it is paired with in PROJECT.json is violated by such a bug.

## 3. The conversation runner

### State

A handler task is a spawned `handle()` future and is named by its message.
`pc[m]` is where it is; a step is the code between two awaits.

| Variable | Code |
|---|---|
| `claimed`, `queue`, `hinted` | `ConvState.queue` is `Some`; its messages; `queued_hint` shows a number |
| `batch` | the batch in the hands of the task that holds the conversation lock |
| `lock` | the guard of the conversation lock: a task, a session command, nobody |
| `stopMark`, `epoch` | `stop_requested`; `stop_mark_epoch` of the round being started |
| `handle`, `agent`, `round` | `ConvState.running` is `Some`; the agent task; which of them it is |
| `spc`, `target` | where each `/stop` is; the agent task whose handle it took |
| `purge`, `loaded`, `phase` | rows a recall or `/stop all` is about to delete; rows the recovery has read; the step of the recovery |
| `rows`, `inflight`, `retry` | `queued_messages`; `inflight_prompt`; `last_prompt` |
| `fate`, `runs`, `leftover`, `unsaved` | history: how each message ended, in how many rounds it was handed to an agent, whether its row outlived it, whether it was ever saved |
| `doomed`, `caught` | history: the batches a `/stop` marked while they were about to start; those it marked, with a mark still fresh, while a check of the loop was ahead |

### Actions

| Actions | Code |
|---|---|
| `Receive` | `run()` spawns `handle` |
| `PlanBecomeRunner`, `PlanSteer`, `PlanQueueFull`, `PlanQueuePending` | first critical section of `enqueue_or_become_runner` (`D/mod.rs:2434`) |
| `PersistQueued` | `persist_queued`, outside the lock |
| `PushBecomeRunner`, `PushPending` | second critical section; `PushPending` takes the runner's identity over when it was handed back in between |
| `NoteQueued`, `ClearHint` | note to the user, look at the queue, withdraw the footer |
| `AcquireLock`, `TakeNothing`, `TakeBatch`, `DeleteBatchRows`, `StopCheck`, `PermitGranted`, `ReleaseLock` | the loop of `dispatch_agent_message` (`D/commands/mod.rs:559`) and `take_batch_after_window` |
| `RefuseRound`, `NoteInitiator`, `ReadEpoch`, `MarkInflight`, `RecheckStops`, `SpawnAgent`, `RegisterHandle` | the preamble of `run_round_inner` up to the handle that `/stop` can see |
| `AgentReturns`, `IdleTimeout`, `CollectOutcome`, `Unregister`, `ClearInflight` | the end of a round: by itself, by the watchdog, by a `/stop` |
| `SpawnCompact`, `RegisterHandle`, `FinishCompact` | `maybe_auto_compact` |
| `CommandTakesLock`, `CommandReleasesLock` | `/new`, `/compact`, `/resume`: same lock |
| `StopIssued`, `StopInterrupt`, `StopTryLock`, `StopSetsMark`, `StopQueue` | `cmd_stop`, which never waits for the conversation lock |
| `RemoveQueued`, `PurgeRow` | recall and `/queue drop`, and the deletion of rows that follows outside the lock |
| `Crash`, `RecoverPrompt`, `RecoverClearMark`, `RecoverEmptyMark`, `RecoverNothing`, `ReplayLoad`, `ReplayClear`, `ReplaySpawn` | death of the process at any step, the recovery included; `recover_crashed_rounds`, `replay_persisted_queue` |

Store calls on the path of a message may fail (`StoreFault`), since the code
logs a failure and goes on.

`MediaOnly` are the messages without text: pictures, files, voice. Their round
is marked like any other, but the prompt in the mark is that of the messages
with text (`RoundPrompt`, `retry_prompt` in `D/round.rs:333`), and is empty when
there are none. The recovery removes an empty mark and offers nothing
(`RecoverEmptyMark`, `D/mod.rs:2772`), and a failed round without text leaves
nothing to `/retry` either.

A queue and a batch are sets: every operation pushes, counts, removes one or
takes all, and none depends on the order. The price is that the order within
a batch is not checked.

### Properties

* `NoOrphanQueue`: a queue that exists has a task in the runner loop. This is
  the lost wake-up of `enqueue_or_become_runner`: a task plans to queue,
  writes its row, and meanwhile the runner hands its identity back.
* `NoSilentLoss`: until it is settled, a message is with its handler, in the
  queue or in the batch.
* `SavedIsOnDisk`: how far the promise that a crash loses no message holds. A
  saved message that waits has its row or is in the mark of its round at every
  step, except in the gaps `InGap` names: its batch is taken and not yet
  marked (or the write of the mark failed), it has no text and its round is
  about to start, or it is replayed and its new row is not yet written. Rows are deleted by id after the critical section, while
  other messages are saved and pushed. That a queued message has its row
  (`RowsProtectQueue`) is a part of its proof.
* `RowsArePending`: conversely, a row belongs to an unsettled message or is
  about to go.
* `AtMostOnce`: no message is executed twice, across crashes and replays. The
  only excuse is a row whose DELETE failed or was cut off by a crash.
* `RunningRoundIsMarked`, `RecoveryKeepsPrompt`: what a crash of a running
  round leaves, namely the texts of its batch and no others, and that recovery,
  also when cut off by another crash, never drops a prompt without offering it
  or a newer one to `/retry`. Of a batch without text nothing is left, by
  intention of the code.
* `NoStaleHint`: the footer is not shown for an empty queue.
* `SettledIsFinal`: what became of a message does not change; a message that
  ran does not become "stopped" because a `/stop` came late.
* `MarkedInLoopDoesNotRun`: a stop mark left while the batch has a check of the
  loop ahead, the wait for a permit included, stops it, as long as it is fresh.
* `EveryMessageSettles`: liveness, see section 10.
* `ImplementsMailbox`: the whole conversation is an `AgentMailbox`: messages
  wait, one batch runs at a time, settled is settled, only a crash loses a
  waiting message without a record. A message is "running" while its batch is
  with an agent, "lost" when its handler died and no row is left; `escaped`
  is `leftover`.

## 4. The approval flow

### State

A waiter is one call of `handle_permission_kind_socket`, of
`handle_ask_socket` (a question from a terminal agent), or of the hook of a
back end, whose future dies with its round. The receive loop is one process
that handles one message at a time.

| Variable | Code |
|---|---|
| `pc`, `shown`, `outcome` | where each waiter is; whether its card reached the users; what it wrote back |
| `pending`, `order`, `card`, `answer` | the router's list with positions, `card_msg_id`, the oneshot channel of each entry |
| `allows`, `mode` | `session_allows`; `permission_mode` |
| `rpc`, `reply`, `forced`, `seen`, `taken` | where the receive loop is, the message it handles, whether its permission was replaced, the question the initiator was compared for, the entry taken out of the list |
| `confirmed`, `audit` | history: what the card says; the decision of the `permission_decision` row |

### Actions

| Actions | Code |
|---|---|
| `Ask`, `CheckAllowance`, `Register`, `SendCard`, `SetAnchor` | mode gate, `is_session_allowed`, `register` (supersedes the same id, evicts the oldest at the cap), the card |
| `Answered`, `Expire`, `DropReceiver`, `CancelOwn` | `wait_reply_with_buzz`; between the time-out and the drop of the receiver an answer can still be sent |
| `GuardCancel`, `Abort` | `PendingCancelGuard`: the future of a hook is dropped at an await, and its drop spawns a cancel |
| `Deliver`, `Gate`, `GateClosed`, `InitiatorCheck`, `ModeCheck`, `RouteTake`, `RouteMisses`, `RouteSend` | the receive loop, one step per look at the router (`D/mod.rs:2056`) |
| `CancelAll`, `ClearAllows`, `SetMode` | `/stop` and rounds that end badly; `/stop all`, `/new`; `/perm` |

`Hit` is `resolve_pending_idx`: a button finds its request id, a quotation its
card or the only question, a plain word the newest question.

### Properties

* `NoLostQuestion`, `NoGhostQuestion`: a waiter that listens has an answer or
  is in the list (or in the hands of the loop), and an entry of the list is of
  a waiter that has not left. Request ids make this hard: a cancel by id hits
  whichever entry has it.
* `ConfirmedIsObeyed`: the card and the agent agree, except for a waiter that
  was leaving by itself when the answer came.
* `PermittedByUser`: an agent is permitted only what a card confirms.
* `ImplementsQuestions`: the whole flow is `Questions`, which has no list, no
  channels, no time limits and no receive loop: a question is decided once, by
  a user or withdrawn by the program while it is open and undecided; its card
  says what a user decided; the agent gets the decision, or is told that there
  is none; a tool passes without a question only while it is allowed for the
  session. A question is "asked" once its waiter has begun, its decision is
  what its channel holds. That a decision is never replaced is part of it
  (`DecisionIsFinal`, which is proved by itself too).
* `InitiatorDecides`: somebody who may not answer a question does so only if
  the message was for another one when that was compared. The code documents
  that the two looks at the list may differ; this is exactly how far it goes.
* `EveryQuestionEnds`: liveness, see section 10.

## 5. Locks and the round gate

`entry` is the map `conv_locks`, `ref` the clone of the `Arc` each task has,
`owner` the holder of each lock object; the strong count of a lock is one (the
map) plus the number of tasks that refer to it. A runner, a session command
and a `/stop` differ in what they do with the lock (`TakeLock`, `TryLock`) and
in that only a runner releases the entry (`DropRef`, `Release`).

`gate` numbers the semaphores; `asked` is the gate a round read before it
waited, `permit` the gate whose permit it holds, and `Reload` replaces the gate.
A limit of 0 is no limit. A runner takes a permit per round and goes round its
loop as often as there are batches (`Snapshot`, `TakePermit`, `EndRound`,
`LeaveLoop`).

* `ImplementsMutex`: there are never two tasks inside for one conversation.
  The reason is `OneLockPerConv`, which is proved: there are never two lock
  objects in use for it.
* `NoDeadlock`: a round waits for its permit with the lock of its conversation
  held (`D/commands/mod.rs:601`), and others wait for that lock. Whoever is
  blocked waits for a task that goes on, or for one that waits for such a task:
  no chain is longer, and none is a circle.
* `RunnersLeakNothing`: whatever the overlap of runners that leave, the last
  one removes the entry.
* `GateIsRespected`: a gate never has more rounds than its limit, also when
  it was replaced while they ran.
* `PermitComes`: a waiter of a replaced gate is not forgotten.

## 6. The card of a round

The round (the consumer) never calls the platform: it changes the shared
`CardState` and wakes the patcher, a task that turns the newest state into a
frame of the card. What a card shows is one of: the template of a new card
entity, the state of an event of its round, the conclusion, a minimal end
(what a platform falls back to when the full frame is refused), or the note
of the sweep after a restart.

### State

| Variable | Code |
|---|---|
| `consumer`, `round`, `said` | the round: running, waiting for `finalize`'s acknowledgement, sending the text, gone; and the process: down, sweeping |
| `s` | `CardState`: `gen`, `flushed`, the final frame waiting, `finished`, `handle` |
| `wake` | whether the (unbounded) wake channel has a message; more than one rouse the patcher no more than one does |
| `work` | where `patcher_task` and its `dispatch_patch` are, and what they have in their hands |
| `row` | the row of `live_cards`: one handle per conversation |
| `card`, `count`, `gone`, `platform` | the cards in the chat, those the user deleted, the platform this process is configured with |
| `text`, `loose`, `dropped` | history: how each round ended; the cards that came without a name, or whose registration failed or was overwritten; the event of this round whose frame the platform dropped last |

### Actions

| Actions | Code |
|---|---|
| `StartRound`, `Touch`, `Finalize`, `CollectAck`, `SendText`, `Abandon` | `start`, the events of the agent and the heartbeat, `finalize` with its fallback to a text (`card_session.rs:376`), a session that is dropped |
| `Decide`, `Rouse`, `Tail` | the loop of `patcher_task` (`card_session.rs:476`) and the frame after it |
| `Snapshot`, `SendCard`, `SendFails`, `SendUnnamed`, `UpdateCard`, `UpdateFails`, `UpdateLost`, `Record`, `ClearRow`, `Commit` | `dispatch_patch`: one step per await |
| `DeleteCard`, `Crash`, `Restart`, `SweepVoid`, `SweepPatch`, `SweepClear` | the user, the process, `sweep_live_cards` |

Throttling and back-off only delay the patcher, so every delay is allowed. The
rate limit of the platform is another matter: a running frame of a card entity
that meets it is dropped, and `update_card` returns Ok all the same
(`feishu/src/platform/mod.rs:660`, `675`). `UpdateCard` therefore shows the frame
or drops it (`Throttled`), and the core counts its event as flushed in both
cases.

### Properties

* `LastFrameShown`: no update is lost between the round and the platform. Events
  come while a frame is on its way; when the patcher sleeps with everything
  flushed and its last call went well, the card shows the newest event, unless
  the platform dropped the frame of that very event.
* `OrphanIsRegistered`: a card that says "generating" is in `live_cards`, except
  for the cards in `loose` and those the terminal frame made.
* `ConclusionIsKept`: a round whose `finalize` reported its card has its
  conclusion there; except for the two ways in which the code loses it
  (section 12).
* `ClosedStaysClosed`: a frame that is late does not reopen a card.
* `FinalizeReturns`: liveness, see section 10.

## 7. The outbox

A message goes out live; if that fails and a repetition is harmless, it becomes
a row, which the driver of its kind delivers in batches. The platform of a
direct kind (`feishu_text`) is called, and every delivery of a row carries the
key that was made with it. The messages of the other (`wecom_text`) have no key.
They are put in chunks into the channel of a client, which writes them to its
connection later, and are kept only from the chunk that surely did not get into
the channel: Ok means no more than that the last chunk is in the channel
(`wecom/src/platform.rs:257`).

### State

| Variable | Code |
|---|---|
| `pc`, `at`, `told` | the live send of each message, its chunk, what `send_text` returned |
| `out`, `queued` | how often each chunk was taken by the platform or written to it; how often it is in the channel of its client |
| `seen` | the keys the platform remembers |
| `row` | the table: id, first kept chunk, attempts, time of the next try |
| `pump` | the driver of each kind: its batch, the time of its tick, the row and chunk in its hands |
| `driven`, `open`, `up`, `clock` | the kinds with a driver, the clients that still take frames, the process, the time |
| `attempted`, `spent`, `lost`, `doubts` | history: rows with an attempt behind them; rows given up; chunks dropped from a channel; how many reasons there are for one more copy of a message |

### Actions

| Actions | Code |
|---|---|
| `StartSend`, `SendChunk`, `SendUnclear`, `SendRefused`, `Keep` | `send_text_frames` and its classification of failures (`wecom/platform.rs:161`), the text drain of Feishu |
| `Fetch`, `Take`, `DeliverChunk`, `DeliverFails`, `MarkSent`, `MarkFailed` | `OutboxDriver` (`outbox.rs:162`) with `due_outbox`, `outbox_mark_sent`, `outbox_mark_failed` |
| `SweepRow` | the sweeper of kinds without a driver (`src/src/main.rs:871`) |
| `ClientSends`, `ClientLoses`, `ClientExits` | a client writes a frame, fails to (`wecom/src/client.rs:298`), or ends with what is in its channel |
| `KeyExpires` | the platform forgets a key after its window (`feishu/src/platform/drain.rs:1559`) |
| `Tick`, `Crash`, `Restart` | time, death (with all channels) and a start with other platforms |

### Properties

* `OkMeansKept`: what was reported as sent went out, is in the channel of its
  client or in its row, was lost from that channel, or the attempts are used up,
  chunk by chunk. Losses from a channel do happen after an Ok (section 12);
  the property says that they are the only ones.
* `FreshInOrder`: no row is attempted before an older one of its kind that
  waits for its first attempt, although rows are written while a driver is in
  the middle of its batch, and the sweeper and drivers of different
  processes take turns.
* `RepeatIsExcused`: of a chunk there is one copy, and at most one more for each
  reason: a live call that took effect and was taken for a failure (its key is
  not that of the row), a key the platform forgot and, without a key, an
  attempt that failed half-way, a row that could not be removed, a death during
  a delivery. A row with a key may fail, stay after its delivery or meet a crash
  any number of times, and none of that is a reason: this is what the key is
  for, and a key made anew for each attempt breaks it.
* `EveryRowEnds`: liveness, see section 10.

## 8. The hub of the relay

Each element of `Gateway` and `Browser` is one connection from the handshake to
its end; a client that connects again is another one.

| Variable | Code |
|---|---|
| `step`, `job` | where a handler is; what it has read under the lock and not yet sent: connections to close, a list of machines, whom to tell, frames to replay |
| `chan` | the bounded channel of the connection; `try_send` drops what does not fit |
| `slot`, `browsers`, `buf` | `HubState`: machines, browsers, the offline buffer |
| `bound`, `revoked` | `SessionStore`: connections bound to a session; revoked sessions |
| `used`, `says`, `shown` | frames sent by browsers and gateways; the list a browser shows |
| `ver`, `newest`, `overrun` | history: number of changes of the slots, the newest that reached each browser (or found its channel full), closes that found one full |

| Actions | Code |
|---|---|
| `Authenticate`, `RegisterBrowser`, `Bind`, `RegisterGateway` | handshake, registration with replacement and limits, binding to the session |
| `SendCloses` | the superseded connection, or those of a revoked session, are closed after the lock is released, one per step (`relay/src/lib.rs:2217`, `2364`) |
| `Greet`, `Announce` | acknowledgement with list or replayed frames; the broadcast of a change, one browser per step |
| `SendFrame`, `Say`, `Revoke`, `Receive`, `Leave` | `route_browser_frame`, `route_gateway_frame`, `device_revoke`, the socket, the end of a connection |
| `ReleaseBrowser`, `ReleaseGateway` | what the end of a handler gives back; a connection that was superseded leaves the slot alone |

* `RevokedIsClosed`: a connection of a revoked session is being closed, however
  verification, registration, binding and revocation interleave: its close is
  in its channel or with the connection that revoked. Only a channel that was
  full excuses it.
* `ListIsTrue`: when nothing is under way, each browser was sent the newest
  list of machines (unless its channel was full), and if that is the one it
  shows, it is the truth.
* `TypeOK` contains that the tables name only connections that have not ended,
  and that a greeting is no longer than a channel: the acknowledgement with the
  replay of a full buffer, from which `CHANNEL_CAPACITY` is derived ("202 and
  more", `relay/src/lib.rs:148`; `HubAssumption` asks for no more than that).

A greeting is sent with `send_all`, which waits for room although nobody reads
the channel yet. The arithmetic covers a channel that is empty. Others may have
put frames and lists in it since the registration; the 310 places between 202
and 512 are for these, and nothing bounds them. In the model `Greet` is not
enabled then, and the connection waits for ever, as it does in the code.

## 9. Runs

| Run | Question | Bounds |
|---|---|---|
| `conv_crash` | what do arrivals, refusals at the cap, recalls, crashes and failing store calls do to the messages of a conversation? | 2 messages, one recallable, the other without text, cap 1, 2 crashes, 1 fault, 2 clock values |
| `conv_stop` | does a `/stop` stop what it promises, is no queue left alone, and is every message settled? | 2 messages, one steerable, a `/stop all`, compaction, commands, cap 2, marks that live 1 of 2 clock values |
| `conv_lost`, `conv_swallowed` | two promises of the documents, refuted; section 12 | 1 crash; 1 stop |
| `approval_reuse` | can a question be lost, or a dead one swallow replies, when ids are used again, and is each answered as `Questions` promises? | 3 waiters, two hooks with one id, cap 1, 1 reply |
| `approval_answers` | do card and agent agree, who decides, does every question end? | a permission request and a terminal question, 2 users, cap 2, 1 reply, 1 cancel, 1 change of mode |
| `approval_audit` | does the audit tell the decision? Refuted; section 12 | the same, with all words |
| `locks` | are the locks a mutex that leaks nothing, the gate fair and respected, and do locks and permits never wait in a circle? | 3 runners and a command on 2 conversations, 4 lock objects, 1 reload, limits 0 and 1 |
| `cards` | does the card tell the truth in the end, whatever fails? | 2 rounds of up to 2 events, 1 fault, 1 crash, a platform with card entities and one with plain cards |
| `cards_template` | does the user always get the conclusion? Refuted; section 12 | 1 round, card entities |
| `outbox` | what becomes of a message that was reported as sent: where is it, in which order and how often does it go? | 2 messages of WeCom (2 and 1 chunks), 1 of Feishu with a key, 2 attempts, batches of 2, 2 clock values, 1 fault or crash (besides failing deliveries, ended clients and forgotten keys), a restart with both platforms or one |
| `relay` | does a revoked device stay out, and do browsers know who is online? | 2 connections of gateways and 2 of browsers of one session, 2 machines, limits of 1 gateway and 1 browser at a time, buffer 1, channels of 3, 1 frame per browser and 1 of the gateways |

Why the bounds are enough:

* Two messages are one in the round and one behind it, and stops and crashes
  meet every phase of both. With cap 1 the second finds a full queue while
  the first waits in it. The lost wake-up of the queue needs a runner that
  leaves and one message that plans to queue.
* Two crashes let the second cut off the recovery of the first. One fault can
  hit any of the store calls; several faults only excuse more.
* Two clock values let a mark be fresh or stale and one prompt be newer than
  another.
* Two hooks with one id and a third question make the cap and a superseded id
  bite in one step. More replies repeat the loop, which keeps no state between
  messages except the allowances, and these the properties do not speak of.
* Two tasks on one conversation overlap in all ways, a third comes when they
  leave, and a task on another one competes for the permit. `MaxReloads` 1
  gives an old and a new gate.
* The second round meets what the first left: its card, its row, its text.
  Two events are one that is on its way and one that comes in between.
* A batch that holds two of three rows leaves one behind; two attempts are one
  that backs off and one that is the last; a message in two chunks can fail
  at its first and at its second. A driver only sees whether a row is due, and
  with two clock values a row is put off, meets rows that are not, and is due.
  With one fault the row with a key comes from a live send that failed, so the
  run has no second fault for its deletion; deliveries that fail need none, and
  are what the key has to make up for. The theorem has no such bound, and it
  also covers deliveries without a key to a direct kind (`Bare`), of which the
  run has none.
* Two connections are a gateway and its successor, or a browser that is told
  and one that registers. A channel of three is what the replay of a buffer of one
  needs, and is full soon. With one browser at a time in the tables a revocation
  in the run is of the revoking session itself or of a connection that is about
  to register; that other live connections are closed is in the theorem, and so
  are three or more connections.

The safety theorems of section 11 hold for all bounds; the runs found the
formulas worth proving and show that the interesting cases occur.

Deadlock is not checked: messages, questions, tasks, rounds and connections are
finite, and the system may stop when all are settled, answered or gone. That
none is stuck earlier is what the liveness properties say, and `NoDeadlock` for
the locks. `approval_reuse` uses the symmetry of the two hooks with one id; it
checks no liveness, which symmetry would make unsound.

`TypeOK` is checked by TLC for every module except `ConvLocks`, and proved for
all of them (section 11).

## 10. Fairness

* `ConvRunner`: weak fairness for every task, stop and recovery step: the
  runtime polls what can go on. Strong fairness for `AcquireLock`, because a
  tokio mutex is FIFO and a waiter gets it although commands and other
  runners keep taking it. Weak fairness for `CommandReleasesLock` and for
  `AgentReturns`: `agent_timeout` (an hour by default) ends every `backend.run`
  of a round. Where it is 0, this is an assumption about the back end;
  `/compact` rounds then have no limit of their own either. No fairness for
  users, commands taking the lock, crashes, faults or the clock.
* `Approval`: weak fairness for every waiter's steps: sends to the platform
  end, because its client has a time limit, and a wait ends at the latest at
  `permission_ask_timeout`. None for users or the receive loop, so no
  question depends on being answered.
* `ConvLocks`: weak fairness for each task, strong fairness for `TakePermit`
  of each runner: the semaphore is FIFO. A round ends, by the argument for
  `ConvRunner`.
* `CardSession`: weak fairness for the patcher, for the round that has its
  acknowledgement and for the text: tasks are scheduled, and calls of the
  platform have time limits. None for events, users, faults or starts.
* `Outbox`: weak fairness for time, for the driver of each kind, for the
  sweeper and for the restart: a driver ticks every ten seconds, and a gateway
  that died is started by its service manager. A row stays in a process that
  stays down.
* `RelayHub`: none; only safety is stated. The relay promises no delivery.

## 11. What is proved

All theorems are for every value of the constants that the named assumptions
of the modules allow: any number of messages, stops, crashes and faults,
waiters, users, tasks, locks, reloads, rounds, events, attempts and
connections. The assumptions are about shape only (a cap is a positive number,
special owners are no messages, waiters, tasks, messages and connections are
finitely many because their sets are counted), with two that are facts of the
code: a message of a direct kind has one chunk, and the capacity of a relay
channel is at least the acknowledgement, one more and a full buffer, the sum it is
derived from.

**`ConvRunner_proofs`.** None of the safety properties is inductive alone. The
invariant `IInv` is a conjunction of parts, each preserved with the help of
those before it:

1. `TypeOK`.
2. `Turns`: whoever is inside owns the lock; a claimed queue has a runner that
   is not already leaving (`NoOrphanQueue` is weaker: it does not exclude
   `release`, where it would be lost a step later); nobody runs while the
   recovery works; what it has loaded has no task.
3. `Places`: a message is in at most one of queue, batch and `purge`, and in
   none before it was pushed; a batch has an owner.
4. `Records`: a message is saved before it is pushed and has no row before
   that; between `ReplayClear` and `ReplaySpawn` what was loaded has no row.
   This gives `RowsProtectQueue`.
5. `Outcomes`: where unsettled messages are, hence `NoSilentLoss` and
   `RowsArePending`.
6. `RanOnce`: a message that ran did so once and is nowhere from where it
   could come back, unless it is a leftover. This gives
   `AtMostOnce`, and needs 4 and 5 across a crash: what is replayed is what has
   a row, and what has a row is unsettled or a leftover.
7. `Prompts`: the mark of a round holds exactly the texts of its batch, and in
   the middle of the recovery `/retry` already offers the prompt.

Theorems: `TypeCorrect`, `InvariantHolds`, one for each safety property
(`NoOrphanQueueHolds`, `NoSilentLossHolds`, `NoStaleHintHolds`,
`RowsProtectQueueHolds`, `RowsArePendingHolds`, `AtMostOnceHolds`,
`RunningRoundIsMarkedHolds`, `RecoveryKeepsPromptHolds`), and the action property
`SettledIsFinalHolds`. `SavedIsOnDiskHolds` needs one more
invariant, `Traces`: at the delete of its rows a batch still has them, no
message of the batch is among those whose rows a `/stop` or a recall is about
to delete, and a message loaded by the recovery keeps its row until
`ReplayClear`. `MarkedInLoopDoesNotRunHolds` rests on an invariant of
its own, `Stops`: as long as a marked message is in the batch the mark is fresh
and its runner is before the last check of the loop (`MarkAhead`), and no marked
message comes back to the queue (`CaughtLeaves`).

**`ConvRunner_mailbox`.** `ImplementsMailboxHolds`: every step under `IInv` is
a step of the mailbox or leaves it alone. Its lemmas say which change of status
each kind of action makes (accept, start, finish, dismiss, crash, reopen,
quiet).

**`Approval_proofs`.** `IInv` is `TypeOK`, `ListInv` (who can be in the list
and what the loop can have in its hands: `NoGhostQuestion` and `NoLostQuestion`
with `EarlyIsSilent` and `TakenIsOpen`), `AnswerInv` (the card says what was
sent, and the agent gets what was sent) and `SeenIsOwn` (what was compared is
not foreign to the sender). Theorems: `ApprovalTypeCorrect`,
`ApprovalInvariantHolds`, `NoLostQuestionHolds`, `NoGhostQuestionHolds`,
`ConfirmedIsObeyedHolds`, `PermittedByUserHolds`, `DecisionIsFinalHolds`,
`InitiatorDecidesHolds`, and `ImplementsQuestionsHolds`: every step of the
detailed flow is a step of `Questions` or leaves it alone. The refinement needs
that a waiter whose channel still listens is an open question
(`ListeningIsOpen`), that whoever the list names listens, and, for the answers
the program gives by itself, that it takes only open and undecided questions
out of the list (`SystemAnswers`, `CancelAnswers`). `QuestionsMoveOn` is the
safety behind `EveryQuestionEnds`: a question has at most nine steps ahead
(`Ahead`), its own take one away, and no answer, newcomer, `/stop` or abort
gives one back.

**`ConvLocks_proofs`.** Two independent invariants. `IInv`: a task has a
reference exactly in certain steps, whoever is inside owns the lock it refers
to and nobody else owns one, entries of different conversations differ,
`OneLockPerConv` and `RunnersLeakNothing`. `GateInv`: a round in a limited gate
holds its permit, and the permits of a gate are no more than its limit, which
is a fact about cardinalities. `NoDeadlock` follows from both: a gate without a
free permit has a limit, hence a round that holds one (`FullGate`) and is not
blocked, and the owner of a lock is such a round or waits for one. Theorems: `LocksTypeCorrect`,
`LocksInvariantHolds`, `OneLockPerConvHolds`, `RunnersLeakNothingHolds`,
`ImplementsMutexHolds`, `GateInvariantHolds`, `GateIsRespectedHolds`,
`NoDeadlockHolds`.

**`CardSession_proofs`.** `IInv`: types and the count of cards (`Types`,
`Counts`: a card can be made whenever the code makes one), what round and
patcher have in common in each step (`Blank`, `Ending`, `Open`, `Closing`: no
frame is begun after the terminal one), whose card the handle is and what a
finished card showed (`OfThisRound`, `Had`, `Acked`), and `Latest`, which says
what the card shows, or which frame was dropped, between the steps of a frame. `LastFrameShown` is its last
instant; `OrphanIsRegistered` and `ConclusionIsKept` are then preserved.
Theorems: `CardInvariantHolds`, `CardTypeCorrect`, `LastFrameShownHolds`,
`OrphanIsRegisteredHolds`, `ConclusionIsKeptHolds`, `ClosedStaysClosedHolds`.

Two more are the safety behind `FinalizeReturns`. `NoWakeIsLost`: whenever there
is an event to show or a round to close, a sleeping patcher has a message in
its wake channel, and a round in `finalize` has its terminal frame on order or
in the patcher's hands. `AckComesCloser`: while a round waits there, `Left`, a
number from 1 to 13, bounds what the patcher still has to do (the running frame
it may hold, then the terminal one, each with its lost handle and its row);
every step of the patcher lowers it, and no other step touches what it depends
on. What is not proved is only that such a step can be taken (ENABLED) and is
(fairness).

**`Outbox_proofs`.** Types with `Ids` (ids of rows differ and a new one is
larger), and three independent strengthenings. For `OkMeansKept`: what went out
or was in a channel stays out, in the channel, or is remembered as lost
(`Gone`, `Grown`); what the live send has behind it is such (`LiveKept`), and so
is what a driver has behind it and every chunk whose key the platform has seen
(`DriverKept`). For
`RepeatIsExcused`: copies are counted together with those to come. `Open` is the
set of chunks whose first copy is still ahead, in a live send, in a row or in
the hands of a driver, and the copies of a chunk, plus one if it is open, are no
more than one and its reasons. A row with a key that the platform knows is not
open, so nothing a driver does can add a copy; without a key a delivery closes
the chunk, and what opens it again is a reason (`Excused`, `AllExcused`,
`RepeatStep`). For `FreshInOrder`: rows that wait for their first attempt are due
in the order of their ids, and a batch contains, with a row, what is older and
waits (`Order`); that a batch of limited size is closed in this way is an
argument about cardinalities. Theorems: `OutboxTypeCorrect`,
`OkMeansKeptHolds`, `RepeatIsExcusedHolds`, `FreshInOrderHolds`.

`RowsRunOut` is the safety behind `EveryRowEnds`. `Budget` counts the results a
message may still get from the outbox, `Left` the steps of a driver until the
attempt in its hands has one. A row has between 1 and `MaxAttempts` results
left; every result that is recorded, by the driver or the sweeper, takes one
away; no step, crash and restart included, gives one back; a driver's step
brings a begun attempt closer to its result, and nothing puts it off. That
results are recorded again and again needs fairness, and only `MaxFaults`
of them may fail to be.

**`RelayHub_proofs`.** `Base`: who is in the tables in which step, and what
fits in a channel. `Revocations`: a connection that was bound is found by the
revocation, one that was not finds the session revoked. `Truthful` and
`Delivered`: a list of the current version is the truth; and it reached every
browser in the table, is in its channel, or is still owed to it by itself or
by a gateway. `Closers`: only a connection that closes others has any to close,
and it keeps them until their closes are sent; `Revocations` needs it, because a
revoked connection is for a while closed only in the hands of the one that
revoked. `Room`, for `TypeOK`: neither the buffer nor what a gateway has to replay
exceeds `BufMax`. Theorems: `HubTypeCorrect`, `BaseHolds`, `RevokedIsClosedHolds`,
`ListingHolds`, `ListIsTrueHolds`.

**Only model-checked:** the liveness properties `EveryMessageSettles`,
`EveryQuestionEnds`, `PermitComes`, `FinalizeReturns` and `EveryRowEnds`:
liveness under fairness and ENABLED are out of the prover's reach. Every
invariant and every action property that a passing run checks is proved, and
so are the three refinements. Of four of the five the safety part is proved as
well (`QuestionsMoveOn`, `NoDeadlockHolds`, `AckComesCloser`, `RowsRunOut`): what
is left to TLC there is that the steps which bring the end closer can be taken and
are. `EveryMessageSettles` has no such measure yet, because a message in the
queue depends on the rounds of others.

## 12. Where code and documents disagree

Four are shown by runs:

1. **A crash can lose a saved message** (`conv_lost`). README.md:39 promises
   崩溃不丢消息: queued messages are stored at once and replayed, and a running
   round leaves its mark. `take_batch_after_window` deletes the rows of the
   batch (`D/mod.rs:2741`) before `run_round_inner` writes the mark
   (`D/round.rs:518`). In between lie the stop checks and the wait for a permit,
   which may take minutes. The same happens between `clear_queued_all` and the
   new rows of the replayed messages. In the counterexample a message is
   saved, taken, its row deleted, and the process dies. What does hold is
   `SavedIsOnDisk`: a crash outside of these two gaps loses none, as long as the
   message has text. That of a round of pictures only loses them: the mark is
   empty, and the recovery drops it without a word (`D/mod.rs:2772`, on purpose).
2. **A stop mark can be swallowed** (`conv_swallowed`). The comment at
   `D/commands/mod.rs:606` says that the recheck of the epoch covers the
   preamble. Its baseline is read at `D/round.rs:324`, after several awaits of
   the preamble; a mark left before it is part of the baseline, and the batch
   runs. What does hold is `MarkedInLoopDoesNotRun`.
3. **The audit names the wrong decision** (`approval_audit`). When the mode is
   deny or off, the loop replaces a permission by a denial, delivers it and
   shows it on the card; the audit row parses the message again
   (`D/mod.rs:2166`) and says allow.
4. **A conclusion can be lost** (`cards_template`). The comment at
   `card_session.rs:375` says 流式卡片可以停在「生成中」，但结论不能丢. When the
   terminal frame finds no handle, `dispatch_patch` makes the card
   (`card_session.rs:595`). A Feishu card entity is made from a template
   (`feishu/src/platform/mod.rs:2169`, `feishu/src/card.rs:773`), and the
   content comes with the next patch, of which there is none. The call
   succeeds, so no text is sent either.

Others were met on the way; the models contain the behaviour, and the
properties are stated so that they excuse it:

* Cards: the row of `live_cards` is one per conversation, so the card of the next
  round displaces the row of a card whose final frame failed, which was to
  stay for the next sweep (`card_session.rs:659`). A sweep writes "no
  conclusion" over a finished card when the row could not be removed or the
  process died before it was; line 679 calls that harmless. A running frame that
  meets the rate limit of Feishu is dropped with Ok
  (`feishu/src/platform/mod.rs:660`, `675`), on the argument that the next window sends
  the whole text again (下个节流窗整帧重发, line 655). The core has counted the
  event as flushed by then, so the next window sends nothing unless another
  event comes, against 每个事件最终都会上卡 (`card_session.rs:14`), where the tail
  frame shall not depend on later events. The heartbeat of a silent round, every
  25 seconds, is such an event; the conclusion is not concerned.
* Outbox: the Ok of WeCom's `send_text` means that the frames are in the channel
  of the client (64 places, `wecom/src/platform.rs:307`). A failed write, the end of
  the client or a crash loses them without a row or an error to anybody, and an
  errcode in the answer of the server is only logged (`wecom/src/client.rs:275`).
  A WeCom row of several chunks starts again at its first one after a
  failed attempt, against 可能丢一条但绝不重复 (`wecom/src/platform.rs:214`). The
  live send of Feishu has another key than the row (`feishu/src/platform/outbox.rs:28`:
  one logical send, one key), and a reply to a comment is delivered without
  one (`feishu/src/platform/drain.rs:1571`). A row from before keys gets a new key for
  each attempt, although the comment (`feishu/src/platform/outbox.rs:76`) says that its
  attempts share one; such rows are not modelled. Within a batch the order is that of the next
  try, not that of queueing, once rows have failed.
* Relay: of two broadcasts the older list can arrive last and stays until the
  next change, against the comment at `relay/src/lib.rs:1026`. A frame routed to a
  gateway can precede its `hello_ack`, upon which its client gives up and the
  replayed frames are gone. `send_all` "never blocks" (`relay/src/lib.rs:1876`) only in
  a channel that is empty when it begins; see section 8.

## 13. What is not modelled

* Conversation runner: the order of messages in a queue, texts and rendering,
  media that arrive late, the drain at shutdown, the handle of a manual
  `/compact` (the lock it holds is modelled), store calls of the recovery that
  fail, two rows for one message. A message has text or not; a batch counts as
  having a prompt when one of its messages has text.
* Approval: the `approval_tools` filter and the tools it lets pass,
  platforms that return no message id, reminders at half time, the clean-up of
  cards, the socket's other kinds (notify, bitable, delegate), several
  conversations at once. Modes are merged where the code treats them alike:
  "ask" is ask and auto-claude, "deny" is deny and off.
* Locks: that a task is dropped at an await (the process ends then).
* Cards: platforms that have no cards at all (their sessions keep no state), the
  length of throttle and back-off, the text itself.
* Outbox: the order of the frames in a client's channel and its limit (a full
  channel is a time-out, which may come at any hand-over of a live send or a driver), a platform that
  refuses a frame in its answer, comments without an anchor (an Ok without a
  delivery, `feishu/src/platform/drain.rs:1576`), rows that cannot be parsed, rows
  from before idempotency keys.
* Relay: the rate limit of 20 frames in a sliding window of 10 seconds, which ends
  a connection and is one of the reasons for `Leave`; `MaxFrames` and `MaxSays` only
  bound the runs. A greeting is sent in one step, though `send_all` sends one
  message after the other. A machine that is removed between authentication and registration of
  its gateway, issue and expiry of sessions, pairing, push, passkeys, limits
  in bytes.
* All other components of the inventory: the table in section 1 says what they
  keep, PROJECT.json why they are left out. They are protocol clients,
  message formats, files, wording and a user interface: most of the
  repository's 97,000 lines, but little of its concurrent state. The modules
  here therefore stand for a small share of its lines.

Code outside the repository is modelled from its use and marked external in
PROJECT.json: the return of `Backend::run` and the death of the process. Tokio's
mutex, semaphore and channels appear as guards of the actions that use
them.

## 14. Plan

In the order of what matters most to users. Done:

1. `ConvRunner`, its abstract `AgentMailbox`, the refinement, the proofs, and
   the promise of `/stop`.
2. `Approval` and its proofs.
3. `ConvLocks` with `ConvMutex`: the lock that 1 assumes.
4. `Outbox`: live sends, driver and sweeper, and its proofs.
5. `CardSession` with live cards, and its proofs.
6. `RelayHub`: connections, revocation, lists, and its proofs.

Left:

* A measure for `EveryMessageSettles`: the steps of the runner until the batch
  of a waiting message is settled.

7. Recovery with faults: failing store calls in `recover_crashed_rounds` and
   `replay_persisted_queue`, rows with ids of their own (two rows of one
   message).
8. The relay's store: pairing codes, issue and expiry of sessions.
9. Idle eviction, together with several conversations in `Approval`.
10. Cron: due times, catch-up and restart; webhook's replay guard; `dedup`.

Every module follows the same lines: parameters are constants with named
assumptions, one action per operation, no RECURSIVE operators, invariants as
conjunctions of named parts.
