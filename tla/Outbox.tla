-------------------------------- MODULE Outbox --------------------------------
(* Messages to a chat platform, sent live and, when that fails, kept as rows  *)
(* of the outbox and delivered again by the driver of their kind: in batches, *)
(* with a back-off, up to a number of attempts.  Rows of a kind that no       *)
(* driver of this process serves are put off and finally removed by the       *)
(* sweeper.                                                                   *)
(*                                                                            *)
(* The platform of a direct kind (feishu_text) is called, and all deliveries  *)
(* of a row carry the idempotency key that was made with it.  The others      *)
(* (wecom_text) put a message in chunks into the channel of their client,     *)
(* which writes them to its connection later, and only what surely did not    *)
(* get into the channel is kept.                                              *)
(* Time is counted in units of the shortest back-off and stops at MaxClock,   *)
(* when every row is due.                                                     *)
EXTENDS Naturals, FiniteSets

CONSTANTS
    Msg, Kind, KindOf, Chunks,  \* messages, their kinds and numbers of chunks
    Direct,        \* the kinds whose platform is called; one chunk per message
    Bare,          \* messages whose deliveries carry no key: replies to comments
    Config,        \* the sets of kinds a later start may have drivers for
    MaxAttempts,   \* OUTBOX_MAX_ATTEMPTS
    Batch,         \* rows a driver takes per tick
    Nobody,        \* no message
    Hour,          \* how far the sweeper puts a row off
    MaxBackoff,
    MaxClock,      \* bound: units of time
    MaxFaults      \* bound: failing calls and deaths of the process

ASSUME OutboxAssumption ==
    /\ IsFiniteSet(Msg) /\ Nobody \notin Msg /\ Direct \subseteq Kind /\ KindOf \in [Msg -> Kind]
    /\ Chunks \in [Msg -> Nat \ {0}] /\ \A m \in Msg : KindOf[m] \in Direct => Chunks[m] = 1
    /\ Bare \subseteq Msg /\ Config \subseteq SUBSET Kind
    /\ {MaxAttempts, Batch, Hour, MaxBackoff} \subseteq Nat \ {0}
    /\ {MaxClock, MaxFaults} \subseteq Nat

VARIABLES
    pc,       \* where the live send of each message is
    at,       \* the chunk it is at
    told,     \* what send_text returned
    out,      \* how often each chunk was taken by the platform or written to it
    queued,   \* how often each chunk is in the channel of its client
    seen,     \* the keys the platform remembers
    row,      \* the outbox
    pump,     \* the driver of each kind
    driven,   \* the kinds that have a driver in this process
    open,     \* the kinds whose client still takes frames
    up,       \* the process runs
    clock,
    attempted,\* history: the rows in the table that some attempt was made or counted for
    spent,    \* history: rows removed after MaxAttempts
    lost,     \* history: chunks that were dropped from the channel of a client
    doubts,   \* history: the reasons so far for one more copy of a message
    faults

live    == <<pc, at, told>>
past    == <<attempted, spent, doubts>>
carried == <<out, queued, seen, lost>>
process == <<driven, open, up>>
vars    == <<live, carried, row, pump, process, clock, past, faults>>

NoRow == [id |-> 0, from |-> 1, tries |-> 0, due |-> 0]
Rows  == {m \in Msg : row[m].id > 0}
Piece == UNION {{m} \X (1 .. Chunks[m]) : m \in Msg}
Asleep == [step |-> "sleep", todo |-> {}, now |-> 0, row |-> Nobody, at |-> 1]

Init ==
    /\ pc = [m \in Msg |-> "new"] /\ at = [m \in Msg |-> 1] /\ told = [m \in Msg |-> "nothing"]
    /\ out = [c \in Piece |-> 0] /\ queued = [c \in Piece |-> 0] /\ seen = {} /\ lost = {}
    /\ row = [m \in Msg |-> NoRow]
    /\ pump = [k \in Kind |-> Asleep] /\ driven = Kind /\ open = Kind /\ up = TRUE
    /\ clock = 0 /\ attempted = {} /\ spent = {}
    /\ doubts = [m \in Msg |-> 0] /\ faults = 0

\* A call of the store or of a platform that fails, or the death of the process.
Fault   == faults < MaxFaults /\ faults' = faults + 1
Least(a, b) == IF a <= b THEN a ELSE b
Later(delay, now) == Least(now + delay, MaxClock)

-----------------------------------------------------------------------------
(* Handing over a chunk.  A key that the platform remembers makes it drop the *)
(* repeat; the key of a row is made with the row and kept in it.              *)

IsDirect(m) == KindOf[m] \in Direct
HasKey(m)   == IsDirect(m) /\ m \notin Bare
KeyOfAttempt(m) == <<m, row[m].tries>>
KeyOf(m)        == m

Hand(c) ==
    /\ IF IsDirect(c[1]) THEN out' = [out EXCEPT ![c] = @ + 1] /\ UNCHANGED queued
                         ELSE queued' = [queued EXCEPT ![c] = @ + 1] /\ UNCHANGED out
    /\ UNCHANGED lost
HandRow(m, i) ==
    \/ ~HasKey(m) /\ Hand(<<m, i>>) /\ UNCHANGED seen
    \/ HasKey(m) /\ KeyOf(m) \in seen /\ UNCHANGED carried
    \/ HasKey(m) /\ KeyOf(m) \notin seen /\ Hand(<<m, i>>) /\ seen' = seen \cup {KeyOf(m)}
Handed == out' # out \/ queued' # queued

\* One more copy of these messages has a reason.
Doubt(ms) == [m \in Msg |-> IF m \in ms THEN doubts[m] + 1 ELSE doubts[m]]

\* A hand-over fails when the channel is closed, or in an error or a time-out
\* although the chunk may have been handed over.
Refused(m) == ~IsDirect(m) /\ KindOf[m] \notin open
CanHand(m) == IsDirect(m) \/ KindOf[m] \in open

\* What is in the channels of these messages is gone with their clients.
Drop(ms) ==
    /\ queued' = [c \in Piece |-> IF c[1] \in ms THEN 0 ELSE queued[c]]
    /\ lost' = lost \cup {c \in Piece : c[1] \in ms /\ queued[c] > 0}
    /\ UNCHANGED <<out, seen>>

-----------------------------------------------------------------------------
(* The live send: send_text_frames of wecom, spawn_drain_text of feishu *)

Goto(m, step) == pc' = [pc EXCEPT ![m] = step]
Tell(m, what) ==
    Goto(m, "done") /\ at' = [at EXCEPT ![m] = 1] /\ told' = [told EXCEPT ![m] = what]

StartSend(m) ==
    /\ up /\ pc[m] = "new" /\ KindOf[m] \in driven /\ Goto(m, "send")
    /\ UNCHANGED <<at, told, carried, row, pump, process, clock, past, faults>>

SendChunk(m) ==
    /\ up /\ pc[m] = "send" /\ CanHand(m) /\ Hand(<<m, at[m]>>) /\ UNCHANGED seen
    /\ IF at[m] = Chunks[m] THEN Tell(m, "ok")
       ELSE at' = [at EXCEPT ![m] = @ + 1] /\ UNCHANGED <<pc, told>>
    /\ UNCHANGED <<row, pump, process, clock, past, faults>>

\* A frame that may have been taken is kept only if repeating it is harmless.
KeptWhenUnclearAlways(m) == TRUE
KeptWhenUnclear(m)       == IsDirect(m)

SendUnclear(m) ==
    /\ up /\ pc[m] = "send" /\ Fault /\ CanHand(m)
    /\ (Hand(<<m, at[m]>>) \/ UNCHANGED <<out, queued, lost>>) /\ UNCHANGED seen
    /\ IF KeptWhenUnclear(m) THEN Goto(m, "keep") /\ UNCHANGED <<at, told>> ELSE Tell(m, "error")
    \* The live delivery carries a key of its own, or none.
    /\ doubts' = IF IsDirect(m) /\ Handed THEN Doubt({m}) ELSE doubts
    /\ UNCHANGED <<row, pump, process, clock, attempted, spent>>

SendRefused(m) ==
    /\ up /\ pc[m] = "send" /\ Refused(m) /\ Goto(m, "keep")
    /\ UNCHANGED <<at, told, carried, row, pump, process, clock, past, faults>>

\* The chunk that was refused is the first of the row.
FirstKeptNext(i) == i + 1
FirstKept(i)     == i
\* Ids only order the rows that are there.
NextId == 1 + Cardinality({i \in 1 .. Cardinality(Msg) : \E b \in Rows : row[b].id >= i})
Keep(m) ==
    /\ up /\ pc[m] = "keep"
    /\ \/ /\ row' = [row EXCEPT ![m] = [id |-> NextId, from |-> FirstKept(at[m]), tries |-> 0, due |-> clock]]
          /\ Tell(m, "ok") /\ UNCHANGED faults
       \/ Fault /\ Tell(m, "error") /\ UNCHANGED row
    /\ UNCHANGED <<carried, pump, process, clock, past>>

-----------------------------------------------------------------------------
(* The driver: OutboxDriver::run *)

EarlierByTime(a, b) == row[a].due < row[b].due \/ (row[a].due = row[b].due /\ row[a].id > row[b].id)
Earlier(a, b)       == row[a].due < row[b].due \/ (row[a].due = row[b].due /\ row[a].id < row[b].id)
Due(k)      == {m \in Rows : KindOf[m] = k /\ row[m].due <= clock}
InBatch(k)  == {m \in Due(k) : Cardinality({b \in Due(k) : Earlier(b, m)}) < Batch}
FirstOf(s)  == CHOOSE m \in s : \A b \in s \ {m} : Earlier(m, b)

Fetch(k) ==
    /\ up /\ k \in driven /\ pump[k].step = "sleep" /\ Due(k) # {}
    /\ pump' = [pump EXCEPT ![k] = [Asleep EXCEPT !.step = "next", !.todo = InBatch(k), !.now = clock]]
    /\ UNCHANGED <<live, carried, row, process, clock, past, faults>>

Take(k) ==
    /\ up /\ pump[k].step = "next"
    /\ IF pump[k].todo = {} THEN pump' = [pump EXCEPT ![k] = Asleep] /\ UNCHANGED attempted
       ELSE LET m == FirstOf(pump[k].todo)
            IN  /\ pump' = [pump EXCEPT ![k] = [pump[k] EXCEPT !.step = "deliver", !.todo = @ \ {m},
                                                               !.row = m, !.at = row[m].from]]
                /\ attempted' = attempted \cup {m}
    /\ UNCHANGED <<live, carried, row, process, clock, spent, doubts, faults>>

Step(k, step) == pump' = [pump EXCEPT ![k].step = step]

DeliverChunk(k) ==
    /\ up /\ pump[k].step = "deliver"
    /\ LET m == pump[k].row
       IN  /\ CanHand(m) /\ HandRow(m, pump[k].at)
           /\ IF pump[k].at = Chunks[m] THEN Step(k, "sent") ELSE pump' = [pump EXCEPT ![k].at = @ + 1]
    /\ UNCHANGED <<live, row, process, clock, past, faults>>

\* The next attempt starts again with the first chunk of the row, and a key
\* makes up for it.
DeliverFails(k) ==
    /\ up /\ pump[k].step = "deliver"
    /\ LET m == pump[k].row
       IN  /\ \/ CanHand(m) /\ HandRow(m, pump[k].at)
              \/ UNCHANGED carried
           /\ doubts' = IF ~HasKey(m) /\ (pump[k].at > row[m].from \/ Handed) THEN Doubt({m}) ELSE doubts
    /\ Step(k, "failed")
    /\ UNCHANGED <<live, row, process, clock, attempted, spent, faults>>

Remove(m) == row' = [row EXCEPT ![m] = NoRow] /\ attempted' = attempted \ {m}

MarkSent(k) ==
    /\ up /\ pump[k].step = "sent" /\ Step(k, "next")
    /\ \/ Remove(pump[k].row) /\ UNCHANGED <<doubts, faults>>
       \/ /\ Fault /\ doubts' = Doubt({m \in {pump[k].row} : ~HasKey(m)})
          /\ UNCHANGED <<row, attempted>>
    /\ UNCHANGED <<live, carried, process, clock, spent>>

\* outbox_mark_failed: one more attempt; the last one removes the row.
ExhaustedLate(tries) == tries > MaxAttempts
Exhausted(tries)     == tries >= MaxAttempts
Failed(m, due) ==
    IF Exhausted(row[m].tries + 1)
    THEN Remove(m) /\ spent' = spent \cup {m}
    ELSE /\ row' = [row EXCEPT ![m].tries = @ + 1, ![m].due = due] /\ attempted' = attempted \cup {m}
         /\ UNCHANGED spent

\* The delay doubles with every attempt.
Doubled == <<1, 2, 4, 8, 16, 32, 64, 128, 256>>
Backoff(tries) == Least(Doubled[1 + Least(tries, 8)], MaxBackoff)
MarkFailed(k) ==
    /\ up /\ pump[k].step = "failed" /\ Step(k, "next")
    /\ LET m == pump[k].row
       IN  \/ Failed(m, Later(Backoff(row[m].tries), pump[k].now)) /\ UNCHANGED faults
           \/ Fault /\ UNCHANGED <<row, attempted, spent>>
    /\ UNCHANGED <<live, carried, process, clock, doubts>>

-----------------------------------------------------------------------------
(* The sweeper, time and the process *)

NotDrivenNever(m) == FALSE
NotDriven(m)      == KindOf[m] \notin driven
Strays    == {m \in Rows : NotDriven(m) /\ row[m].due <= clock}
SweepRow ==
    /\ up /\ Strays # {}
    /\ LET m == FirstOf(Strays)
       IN  Failed(m, Later(Hour, clock))
    /\ UNCHANGED <<live, carried, pump, process, clock, doubts, faults>>

Tick ==
    /\ clock < MaxClock /\ clock' = clock + 1
    /\ UNCHANGED <<live, carried, row, pump, process, past, faults>>

\* The client writes a chunk to its connection, or fails to; it connects again
\* without the chunk.
Unqueued(c) == up /\ queued[c] > 0 /\ queued' = [queued EXCEPT ![c] = @ - 1]
ClientSends(c) ==
    /\ Unqueued(c) /\ out' = [out EXCEPT ![c] = @ + 1] /\ UNCHANGED <<seen, lost>>
    /\ UNCHANGED <<live, row, pump, process, clock, past, faults>>
ClientLoses(c) ==
    /\ Unqueued(c) /\ Fault /\ lost' = lost \cup {c} /\ UNCHANGED <<out, seen>>
    /\ UNCHANGED <<live, row, pump, process, clock, past>>

\* The client of a platform ends (for good, until the next start).
ClientExits(k) ==
    /\ up /\ k \in open \ Direct /\ open' = open \ {k} /\ Drop({m \in Msg : KindOf[m] = k})
    /\ UNCHANGED <<live, row, pump, driven, up, clock, past, faults>>

\* The platform forgets the key of a row after its idempotency window.
KeyExpires(m) ==
    /\ m \in Rows /\ KeyOf(m) \in seen /\ seen' = seen \ {KeyOf(m)} /\ doubts' = Doubt({m})
    /\ UNCHANGED <<live, out, queued, lost, row, pump, process, clock, attempted, spent, faults>>

\* A row without a key whose delivery had begun is delivered again.
Begun(k) == pump[k].step = "sent" \/ (pump[k].step = "deliver" /\ pump[k].at > row[pump[k].row].from)
Crash ==
    /\ up /\ up' = FALSE /\ Fault /\ Drop(Msg)
    /\ doubts' = Doubt({m \in Msg : ~HasKey(m) /\ \E k \in Kind : Begun(k) /\ pump[k].row = m})
    /\ pump' = [k \in Kind |-> Asleep]
    /\ pc' = [m \in Msg |-> IF pc[m] \in {"send", "keep"} THEN "done" ELSE pc[m]]
    /\ at' = [m \in Msg |-> 1]
    /\ UNCHANGED <<told, row, driven, open, clock, attempted, spent>>

Restart(kinds) ==
    /\ ~up /\ up' = TRUE /\ driven' = kinds /\ open' = Kind
    /\ UNCHANGED <<live, carried, row, pump, clock, past, faults>>

Driver(k) == Fetch(k) \/ Take(k) \/ DeliverChunk(k) \/ DeliverFails(k) \/ MarkSent(k) \/ MarkFailed(k)
Next ==
    \/ \E m \in Msg : StartSend(m) \/ SendChunk(m) \/ SendUnclear(m) \/ SendRefused(m) \/ Keep(m)
    \/ \E k \in Kind : Driver(k) \/ ClientExits(k)
    \/ (\E m \in Msg : KeyExpires(m)) \/ \E c \in Piece : ClientSends(c) \/ ClientLoses(c)
    \/ SweepRow \/ Tick \/ Crash \/ (\E kinds \in Config : Restart(kinds))

\* Time passes, drivers and sweeper run, a dead process is started again.
Fairness ==
    /\ WF_vars(Tick) /\ \A k \in Kind : WF_vars(Driver(k))
    /\ WF_vars(SweepRow) /\ WF_vars(\E kinds \in Config : Restart(kinds))

Spec     == Init /\ [][Next]_vars
FairSpec == Spec /\ Fairness

-----------------------------------------------------------------------------
(* Properties *)

TypeOK ==
    /\ pc \in [Msg -> {"new", "send", "keep", "done"}] /\ told \in [Msg -> {"nothing", "ok", "error"}]
    /\ \A m \in Msg : at[m] \in 1 .. Chunks[m]
    /\ out \in [Piece -> Nat] /\ queued \in [Piece -> Nat] /\ doubts \in [Msg -> Nat]
    /\ row \in [Msg -> [id : Nat, from : Nat \ {0}, tries : 0 .. MaxAttempts - 1, due : 0 .. MaxClock]]
    /\ \A m \in Rows : row[m].from <= Chunks[m]
    /\ \A a, b \in Rows : row[a].id = row[b].id => a = b
    /\ driven \subseteq Kind /\ open \subseteq Kind /\ up \in BOOLEAN
    /\ \A k \in Kind :
        /\ pump[k].step \in {"sleep", "next", "deliver", "sent", "failed"}
        /\ pump[k].todo \subseteq {m \in Rows : KindOf[m] = k}
        /\ pump[k].now \in 0 .. clock
        /\ pump[k].step \in {"deliver", "sent", "failed"} =>
             /\ pump[k].row \in Rows \ pump[k].todo /\ KindOf[pump[k].row] = k
             /\ pump[k].at \in row[pump[k].row].from .. Chunks[pump[k].row]
    /\ clock \in 0 .. MaxClock /\ faults \in 0 .. MaxFaults
    /\ attempted \subseteq Msg /\ spent \subseteq Msg /\ seen \subseteq Msg /\ lost \subseteq Piece

\* When a send reports success, every chunk of the message went out, is in the
\* channel of its client or in its row of the outbox, until the attempts are
\* used up.  Only what got into a channel can be lost.
OkMeansKept ==
    \A m \in Msg : told[m] = "ok" => \A i \in 1 .. Chunks[m] :
        \/ out[<<m, i>>] > 0 \/ (m \in Rows /\ i >= row[m].from) \/ m \in spent
        \/ ~IsDirect(m) /\ (queued[<<m, i>>] > 0 \/ <<m, i>> \in lost)

\* due_outbox sorts by (next_try, id): no row is attempted before an older row
\* of its kind that waits for its first attempt.
FreshInOrder ==
    \A a, b \in Rows : KindOf[a] = KindOf[b] /\ row[a].id < row[b].id /\ b \in attempted => a \in attempted

\* SendFail and outbox_payload: what may have got into a channel is not kept,
\* and one key for all attempts suppresses repeats.  A chunk has no more copies
\* than one and one for each reason: a live call that took effect and failed, a
\* key forgotten by the platform and, without a key, an attempt that failed
\* half-way, a row that could not be removed, and a death during a delivery.
RepeatIsExcused ==
    \A m \in Msg : \A i \in 1 .. Chunks[m] : out[<<m, i>>] + queued[<<m, i>>] <= 1 + doubts[m]

\* Every row is delivered or given up: the outbox of finitely many messages is
\* empty in the end.
EveryRowEnds == <>[](Rows = {})

=============================================================================
