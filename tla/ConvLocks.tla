------------------------------ MODULE ConvLocks ------------------------------
(* The two things a round waits for before its agent is spawned: the lock of  *)
(* its conversation, which lives in the conv_locks map only as long as        *)
(* somebody refers to it, and a permit of the gate that bounds the rounds of  *)
(* all conversations, which a reload of the configuration replaces while      *)
(* rounds hold permits of the old one.                                        *)
(*                                                                            *)
(* A task handles one message: it is a runner, a session command (/new,       *)
(* /compact, /resume, /switch) or a /stop that only tries the lock.  A lock   *)
(* object is never freed and made again, so its name stands for its address.  *)
EXTENDS Integers, FiniteSets

CONSTANTS
    Task, Conv, ConvOf,
    Runner,            \* the others are session commands or /stop
    Lock,              \* lock objects
    NoLock, Nobody,
    Limit, FirstLimit, \* max_concurrent_rounds: values it may get, and gets first
    MaxReloads         \* bound: reloads of the configuration

ASSUME TaskAssumption ==
    /\ IsFiniteSet(Task) /\ ConvOf \in [Task -> Conv]
    /\ Runner \subseteq Task
    /\ NoLock \notin Lock /\ Nobody \notin Task
ASSUME LimitAssumption ==
    Limit \subseteq Nat /\ FirstLimit \in Limit /\ MaxReloads \in Nat

VARIABLES
    pc,      \* where each task is
    entry,   \* conv_locks: the lock of each conversation
    ref,     \* the clone of a lock that each task has
    owner,   \* the task that holds the guard of each lock
    used,    \* the lock objects that were made
    gate,    \* round_gate: number of the gate in force
    limit,   \* limit of each gate
    asked,   \* the gate at which each round asked for a permit
    permit   \* the gate whose permit each round holds, 0 when none

locks == <<entry, ref, owner, used>>
gates == <<gate, limit, asked, permit>>
vars  == <<pc, locks, gates>>

Steps == {"idle", "refer", "lock", "loop", "queue", "round", "unlock", "drop", "release", "done"}
\* Between taking the lock and giving it back.
Inside == {"loop", "queue", "round", "unlock"}

Init ==
    /\ pc = [t \in Task |-> "idle"]
    /\ entry = [c \in Conv |-> NoLock] /\ ref = [t \in Task |-> NoLock]
    /\ owner = [l \in Lock |-> Nobody] /\ used = {}
    /\ gate = 1 /\ limit = [g \in 1 .. MaxReloads + 1 |-> FirstLimit]
    /\ asked = [t \in Task |-> 0] /\ permit = [t \in Task |-> 0]

Goto(t, step) == pc' = [pc EXCEPT ![t] = step]
Refer(t, l)   == ref' = [ref EXCEPT ![t] = l]
ReferringTo(l) == {t \in Task : ref[t] = l}

-----------------------------------------------------------------------------
(* The lock of a conversation *)

Start(t) ==
    /\ pc[t] = "idle"
    /\ Goto(t, "refer")
    /\ UNCHANGED <<locks, gates>>

\* acquire_conv_lock, when the map has an entry ...
ReferToEntry(t) ==
    /\ pc[t] = "refer" /\ entry[ConvOf[t]] # NoLock
    /\ Refer(t, entry[ConvOf[t]])
    /\ Goto(t, "lock")
    /\ UNCHANGED <<entry, owner, used, gates>>

Fresh == CHOOSE l \in Lock : l \notin used

\* ... and when it has none: a new lock.
ReferToNew(t) ==
    /\ pc[t] = "refer" /\ entry[ConvOf[t]] = NoLock /\ Lock \ used # {}
    /\ entry' = [entry EXCEPT ![ConvOf[t]] = Fresh]
    /\ used' = used \cup {Fresh}
    /\ Refer(t, Fresh)
    /\ Goto(t, "lock")
    /\ UNCHANGED <<owner, gates>>

\* lock().await of a runner or a command.
TakeLock(t) ==
    /\ pc[t] = "lock" /\ owner[ref[t]] = Nobody
    /\ owner' = [owner EXCEPT ![ref[t]] = t]
    /\ Goto(t, IF t \in Runner THEN "loop" ELSE "unlock")
    /\ UNCHANGED <<entry, ref, used, gates>>

\* try_lock of a /stop, whose result decides on the stop mark.
TryLock(t) ==
    /\ pc[t] = "lock" /\ t \notin Runner
    /\ Goto(t, "drop")
    /\ UNCHANGED <<locks, gates>>

\* The guard is dropped.
Unlock(t) ==
    /\ pc[t] = "unlock"
    /\ owner' = [owner EXCEPT ![ref[t]] = Nobody]
    /\ Goto(t, "drop")
    /\ UNCHANGED <<entry, ref, used, gates>>

\* The clone is dropped.  Only a runner goes on to release the entry.
DropRef(t) ==
    /\ pc[t] = "drop"
    /\ Refer(t, NoLock)
    /\ Goto(t, IF t \in Runner THEN "release" ELSE "done")
    /\ UNCHANGED <<entry, owner, used, gates>>

\* Mutant: the entry is removed while others refer to the lock.
RemovableAlways(c) == entry[c] # NoLock
\* Mutant: the entry is never removed.
RemovableNever(c) == FALSE
\* strong_count is 1: only the map refers to the lock.
Removable(c) == entry[c] # NoLock /\ ReferringTo(entry[c]) = {}

\* release_conv_lock
Release(t) ==
    /\ pc[t] = "release"
    /\ entry' = IF Removable(ConvOf[t]) THEN [entry EXCEPT ![ConvOf[t]] = NoLock] ELSE entry
    /\ Goto(t, "done")
    /\ UNCHANGED <<ref, owner, used, gates>>

-----------------------------------------------------------------------------
(* The gate of the rounds *)

\* acquire_round_permit reads the gate once; a limit of 0 means no limit.
Snapshot(t) ==
    /\ pc[t] = "loop"
    /\ asked' = [asked EXCEPT ![t] = gate]
    /\ Goto(t, IF limit[gate] = 0 THEN "round" ELSE "queue")
    /\ UNCHANGED <<locks, gate, limit, permit>>

Holding(g) == {t \in Task : permit[t] = g}

\* Mutant: the waiter looks for permits of the gate now in force.
HasPermitInForce(t) == Cardinality(Holding(gate)) < limit[gate] /\ asked[t] = gate
\* Mutant: off by one.
HasPermitOrOne(t) == Cardinality(Holding(asked[t])) <= limit[asked[t]]
\* The semaphore of the snapshot has a permit left.
HasPermit(t) == Cardinality(Holding(asked[t])) < limit[asked[t]]

TakePermit(t) ==
    /\ pc[t] = "queue" /\ HasPermit(t)
    /\ permit' = [permit EXCEPT ![t] = asked[t]]
    /\ Goto(t, "round")
    /\ UNCHANGED <<locks, gate, limit, asked>>

\* The round and its compaction are over, or a stop mark was found: the permit
\* is dropped, and the runner goes for the next batch.
EndRound(t) ==
    /\ pc[t] = "round"
    /\ permit' = [permit EXCEPT ![t] = 0]
    /\ Goto(t, "loop")
    /\ UNCHANGED <<locks, gate, limit, asked>>

\* No batch is left, and the runner leaves its loop.
LeaveLoop(t) ==
    /\ pc[t] = "loop"
    /\ Goto(t, "unlock")
    /\ UNCHANGED <<locks, gates>>

\* reload_max_concurrent_rounds
Reload(n) ==
    /\ gate <= MaxReloads /\ n # limit[gate]
    /\ gate' = gate + 1
    /\ limit' = [limit EXCEPT ![gate + 1] = n]
    /\ UNCHANGED <<pc, locks, asked, permit>>

-----------------------------------------------------------------------------

TaskStep(t) ==
    \/ ReferToEntry(t) \/ ReferToNew(t)
    \/ TakeLock(t) \/ TryLock(t) \/ Unlock(t) \/ DropRef(t) \/ Release(t)
    \/ Snapshot(t) \/ TakePermit(t) \/ EndRound(t) \/ LeaveLoop(t)

Next ==
    \/ \E t \in Task : Start(t) \/ TaskStep(t)
    \/ \E n \in Limit : Reload(n)

Spec == Init /\ [][Next]_vars

\* The runtime runs every task that can go on and a round ends; the semaphore
\* is FIFO, so that a waiter gets its turn.
FairSpec ==
    /\ Spec
    /\ \A t \in Task : WF_vars(TaskStep(t))
    /\ \A t \in Runner : SF_vars(TakePermit(t))

-----------------------------------------------------------------------------

TypeOK ==
    /\ pc \in [Task -> Steps]
    /\ entry \in [Conv -> Lock \cup {NoLock}] /\ ref \in [Task -> Lock \cup {NoLock}]
    /\ owner \in [Lock -> Task \cup {Nobody}] /\ used \subseteq Lock
    /\ gate \in 1 .. MaxReloads + 1 /\ limit \in [1 .. MaxReloads + 1 -> Limit]
    /\ asked \in [Task -> 0 .. MaxReloads + 1] /\ permit \in [Task -> 0 .. MaxReloads + 1]

\* Whoever refers to a lock of the conversation refers to the one in the map:
\* there are never two lock objects in use for one conversation.
OneLockPerConv == \A t \in Task : ref[t] # NoLock => ref[t] = entry[ConvOf[t]]

\* At rest an entry is left in the map only by a command or a /stop, which do
\* not release it: runners alone never leak one, however they overlap.
RunnersLeakNothing ==
    \A c \in Conv : entry[c] # NoLock =>
        \E t \in Task : ConvOf[t] = c /\ (pc[t] \notin {"idle", "refer", "done"} \/ (pc[t] = "done" /\ t \notin Runner))

\* The rounds that run under a gate never exceed its limit, however often it is
\* replaced; a round that asked at an unlimited gate holds nothing.
GateIsRespected ==
    \A g \in 1 .. MaxReloads + 1 : limit[g] # 0 =>
        Cardinality({t \in Task : pc[t] = "round" /\ asked[t] = g}) <= limit[g]

\* A task that cannot go on, those that have what it waits for, and one that
\* has something and goes on.
Blocked(t)  == (pc[t] = "lock" /\ owner[ref[t]] # Nobody) \/ (pc[t] = "queue" /\ ~HasPermit(t))
WaitsFor(t) == IF pc[t] = "lock" THEN {owner[ref[t]]} ELSE Holding(asked[t])
AtWork(t)   == pc[t] \in Inside /\ ~Blocked(t)

\* A round waits for its permit with the lock of its conversation held, so that
\* others wait for it in turn: whoever waits for a lock or a permit waits, itself
\* or through the one it waits for, for a task that goes on.
NoDeadlock ==
    \A t \in Task : Blocked(t) =>
        \E u \in WaitsFor(t) : AtWork(u) \/ \E v \in WaitsFor(u) : AtWork(v)

\* Nobody waits forever for a permit, also when the gate is replaced meanwhile
\* or other conversations have always more to do.
PermitComes == \A t \in Runner : pc[t] = "queue" ~> pc[t] = "round"

\* The locks in the map make a mutex of each conversation.
Mutex == INSTANCE ConvMutex WITH inside <- {t \in Task : pc[t] \in Inside}
ImplementsMutex == Mutex!Spec

=============================================================================
