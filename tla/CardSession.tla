----------------------------- MODULE CardSession -----------------------------
(* The streaming card of one conversation.  The round (the consumer) only     *)
(* accumulates what the agent says and wakes the patcher; the patcher task    *)
(* turns the latest state into frames of a card, creates the card when it has *)
(* no handle, and registers it in live_cards, one row per conversation, so    *)
(* that the sweep of the next start can close a card a dead process left.     *)
(*                                                                            *)
(* What a card shows is a number: a template, the state of an event (gen),    *)
(* or one of three ends.  Throttling and back-off only delay the patcher.     *)
EXTENDS Naturals, FiniteSets

CONSTANTS
    MaxRounds,   \* bound: rounds of the conversation
    MaxGen,      \* bound: events of a round
    MaxFaults,   \* bound: failing calls and deleted cards
    MaxCrashes,  \* bound: deaths of the process
    Platform,    \* the platforms a start may be configured with
    Managed,     \* of each: whether send_card makes a card entity (TRUE), a plain card, or either
    FirstPlatform

ASSUME CardAssumption ==
    /\ {MaxRounds, MaxGen, MaxFaults, MaxCrashes} \subseteq Nat /\ MaxGen > 0
    /\ FirstPlatform \in Platform /\ Managed \in [Platform -> SUBSET BOOLEAN]

VARIABLES
    consumer,  \* the round, or the process when it is starting or down
    round,     \* number of the current or last round
    s,         \* CardState: what consumer and patcher share
    wake,      \* a message is in the wake channel
    work,      \* the patcher and the dispatch_patch it is in
    row,       \* live_cards: handle registered for the conversation
    card,      \* the cards in the chat
    count,     \* how many were made
    gone,      \* those the user deleted
    platform,  \* the platform of the running process
    said,      \* what finalize was given: nothing yet, or the length of the text
    text,      \* how each round ended: without text, on its card, in a text that was sent or failed
    loose,     \* history: cards without a name, or whose registration failed or was given up
    dropped,   \* history: the event of this round whose frame the platform dropped last
    faults, crashes

process == <<consumer, round, platform, crashes>>
chat    == <<card, count, gone>>
ends    == <<said, text>>
history == <<loose, dropped>>
vars    == <<process, s, wake, work, row, chat, ends, history, faults>>

Round  == 1 .. MaxRounds
NoCard == 0
Card   == 1 .. MaxRounds + MaxFaults

\* What a card shows.
Template    == 0
Conclusion  == MaxGen + 1
Minimal     == MaxGen + 2
Interrupted == MaxGen + 3
Frame       == 0 .. Interrupted
IsEnd(f)    == f >= Conclusion

NoFrame == [round |-> 0, platform |-> FirstPlatform, managed |-> FALSE,
            first |-> Template, shown |-> Template, had |-> FALSE]
Off     == [step |-> "off", final |-> FALSE, last |-> FALSE, snap |-> 0,
            frame |-> Template, ok |-> FALSE, made |-> NoCard, ack |-> "none"]
NoSession == [gen |-> 0, flushed |-> 0, final |-> FALSE, finished |-> FALSE, handle |-> NoCard]
\* Events are numbered from 1.
NoEvent   == 0
\* ensure_started is the first event of a session.
Fresh     == [NoSession EXCEPT !.gen = 1]

Init ==
    /\ consumer = "none" /\ round = 0 /\ platform = FirstPlatform /\ crashes = 0
    /\ s = NoSession /\ wake = FALSE /\ work = Off /\ row = NoCard
    /\ card = [h \in Card |-> NoFrame] /\ count = 0 /\ gone = {}
    /\ said = "nothing" /\ text = [r \in Round |-> "open"]
    /\ loose = {} /\ dropped = NoEvent /\ faults = 0

Goto(step) == work' = [work EXCEPT !.step = step]
\* A call that may fail does so at most MaxFaults times.
Fault      == faults < MaxFaults /\ faults' = faults + 1
Dirty      == s.gen # s.flushed

-----------------------------------------------------------------------------
(* The round *)

StartRound ==
    /\ consumer = "none" /\ work.step = "off" /\ round < MaxRounds
    /\ consumer' = "running" /\ round' = round + 1
    /\ s' = Fresh /\ wake' = TRUE
    /\ work' = [Off EXCEPT !.step = "decide"]
    /\ dropped' = NoEvent
    /\ UNCHANGED <<platform, crashes, row, chat, ends, loose, faults>>

\* A chunk of the agent, the usage or a heartbeat.
Touch ==
    /\ consumer = "running" /\ s.gen < MaxGen
    /\ s' = [s EXCEPT !.gen = @ + 1] /\ wake' = TRUE
    /\ UNCHANGED <<process, work, row, chat, ends, history, faults>>

FinalWakeForgot == wake
FinalWake       == TRUE

\* An empty text is the round of a /stop; a long one does not fit on a card.
Finalize(length) ==
    /\ consumer = "running"
    /\ consumer' = "waiting" /\ s' = [s EXCEPT !.final = TRUE] /\ wake' = FinalWake
    /\ said' = length
    /\ UNCHANGED <<round, platform, crashes, work, row, chat, text, history, faults>>

NeedsTextWhenLong(ok, length) == length = "long"
NeedsText(ok, length)         == (~ok /\ length # "empty") \/ (ok /\ length = "long")

CollectAck ==
    /\ consumer = "waiting" /\ work.ack # "none"
    /\ said' = "nothing"
    /\ IF NeedsText(work.ack = "ok", said)
       THEN consumer' = "texting" /\ UNCHANGED text
       ELSE /\ consumer' = "none"
            /\ text' = [text EXCEPT ![round] = IF said = "empty" THEN "none" ELSE "card"]
    /\ UNCHANGED <<round, platform, crashes, s, wake, work, row, chat, history, faults>>

SendText ==
    /\ consumer = "texting" /\ consumer' = "none"
    /\ \/ text' = [text EXCEPT ![round] = "sent"] /\ UNCHANGED faults
       \/ text' = [text EXCEPT ![round] = "failed"] /\ Fault
    /\ UNCHANGED <<round, platform, crashes, s, wake, work, row, chat, said, history>>

\* The round is aborted by a shutdown and drops its session: the wake channel closes.
Abandon ==
    /\ consumer \in {"running", "waiting"} /\ consumer' = "left"
    /\ UNCHANGED <<round, platform, crashes, s, wake, work, row, chat, ends, history, faults>>

-----------------------------------------------------------------------------
(* The patcher: patcher_task *)

\* The terminal frame goes before a pending running frame.
Decide ==
    /\ work.step = "decide"
    /\ \/ /\ s.final
          /\ s' = [s EXCEPT !.final = FALSE]
          /\ work' = [work EXCEPT !.step = "snapshot", !.final = TRUE]
       \/ /\ ~s.final /\ Dirty
          /\ work' = [work EXCEPT !.step = "snapshot", !.snap = s.gen] /\ UNCHANGED s
       \/ ~s.final /\ ~Dirty /\ Goto("idle") /\ UNCHANGED s
    /\ UNCHANGED <<process, wake, row, chat, ends, history, faults>>

Rouse ==
    /\ work.step = "idle"
    /\ \/ wake /\ wake' = FALSE /\ Goto("decide")
       \/ ~wake /\ consumer = "left" /\ Goto("tail") /\ UNCHANGED wake
    /\ UNCHANGED <<process, s, row, chat, ends, history, faults>>

\* The patcher ends; what is left of the session goes with it.
Leave == work' = [Off EXCEPT !.ack = work.ack] /\ s' = NoSession

\* After the loop: one more running frame, never after the terminal one.
TailDue == ~s.finished /\ Dirty
Tail ==
    /\ work.step = "tail"
    /\ IF TailDue
       THEN work' = [work EXCEPT !.step = "snapshot", !.final = FALSE, !.last = TRUE] /\ UNCHANGED s
       ELSE Leave
    /\ UNCHANGED <<process, wake, row, chat, ends, history, faults>>

-----------------------------------------------------------------------------
(* One frame: dispatch_patch *)

Snapshot ==
    /\ work.step = "snapshot"
    /\ work' = [work EXCEPT !.step = "call", !.made = NoCard,
                            !.frame = IF work.final THEN Conclusion ELSE s.gen]
    /\ UNCHANGED <<process, s, wake, row, chat, ends, history, faults>>

\* A card entity is created from a template and shows no frame before the next patch.
FirstShown(managed) == IF managed THEN Template ELSE work.frame
Made(managed) ==
    /\ count + 1 \in Card /\ count' = count + 1 /\ UNCHANGED gone
    /\ card' = [card EXCEPT ![count + 1] =
          [round |-> round, platform |-> platform, managed |-> managed,
           first |-> work.frame, shown |-> FirstShown(managed),
           had |-> IsEnd(FirstShown(managed))]]
Show(h, f) == card' = [card EXCEPT ![h].shown = f, ![h].had = @ \/ f = Conclusion]

SendCard ==
    /\ work.step = "call" /\ s.handle = NoCard
    /\ \E managed \in Managed[platform] : Made(managed)
    /\ work' = [work EXCEPT !.step = "record", !.ok = TRUE, !.made = count + 1]
    /\ UNCHANGED <<process, s, wake, row, ends, history, faults>>

\* The call fails, although the card may have been made.
SendFails ==
    /\ work.step = "call" /\ s.handle = NoCard /\ Fault
    /\ \/ UNCHANGED <<chat, loose>>
       \/ (\E managed \in Managed[platform] : Made(managed)) /\ loose' = loose \cup {count + 1}
    /\ work' = [work EXCEPT !.step = "commit", !.ok = FALSE]
    /\ UNCHANGED <<process, s, wake, row, ends, dropped>>

\* The row goes when a terminal frame succeeded.
AfterCallAny(ok) == IF work.final THEN "clear" ELSE "commit"
AfterCall(ok)    == IF work.final /\ ok THEN "clear" ELSE "commit"

\* The answer names no message: the plain card has no handle and is not registered.
SendUnnamed ==
    /\ work.step = "call" /\ s.handle = NoCard /\ Fault
    /\ FALSE \in Managed[platform] /\ Made(FALSE) /\ loose' = loose \cup {count + 1}
    /\ work' = [work EXCEPT !.step = AfterCall(TRUE), !.ok = TRUE]
    /\ UNCHANGED <<process, s, wake, row, ends, dropped>>

\* A running frame of a card entity that meets the rate limit is dropped, and
\* the platform reports a success all the same.
Throttled == ~work.final /\ card[s.handle].managed /\ dropped' = work.frame /\ UNCHANGED card

UpdateCard ==
    /\ work.step = "call" /\ s.handle \in Card \ gone
    /\ (Show(s.handle, work.frame) /\ UNCHANGED dropped) \/ Throttled
    /\ work' = [work EXCEPT !.step = AfterCall(TRUE), !.ok = TRUE]
    /\ UNCHANGED <<process, s, wake, row, count, gone, ends, loose, faults>>

\* The call fails: nothing was shown, or it was all the same, or (a terminal
\* frame) the platform could only shrink the card to a minimal end.
UpdateFails ==
    /\ work.step = "call" /\ s.handle \in Card \ gone /\ Fault
    /\ \/ UNCHANGED card
       \/ Show(s.handle, work.frame)
       \/ work.final /\ Show(s.handle, Minimal)
    /\ work' = [work EXCEPT !.step = AfterCall(FALSE), !.ok = FALSE]
    /\ UNCHANGED <<process, s, wake, row, count, gone, ends, history>>

\* The handle is lost.  The row goes; a running frame makes a new card.
UpdateLost ==
    /\ work.step = "call" /\ s.handle \in gone
    /\ \/ row' = NoCard /\ loose' = loose \cup ({row} \ {NoCard, s.handle}) /\ UNCHANGED faults
       \/ Fault /\ UNCHANGED <<row, loose>>
    /\ s' = [s EXCEPT !.handle = NoCard]
    /\ work' = IF work.final THEN [work EXCEPT !.step = "commit", !.ok = FALSE] ELSE work
    /\ UNCHANGED <<process, wake, chat, ends, dropped>>

\* The row of the conversation is overwritten, whatever card it named.
Record ==
    /\ work.step = "record" /\ Goto(AfterCall(TRUE))
    /\ \/ row' = work.made /\ loose' = loose \cup ({row} \ {NoCard, work.made}) /\ UNCHANGED faults
       \/ Fault /\ loose' = loose \cup {work.made} /\ UNCHANGED row
    /\ UNCHANGED <<process, s, wake, chat, ends, dropped>>

ClearRow ==
    /\ work.step = "clear" /\ Goto("commit")
    /\ \/ row' = NoCard /\ loose' = loose \cup ({row} \ {NoCard, s.handle, work.made}) /\ UNCHANGED faults
       \/ Fault /\ UNCHANGED <<row, loose>>
    /\ UNCHANGED <<process, s, wake, chat, ends, dropped>>

\* Success or not, the frame counts as handled unless another event came.
FlushedAfterNext(snap)   == IF s.gen = snap THEN s.gen + 1 ELSE s.flushed
FlushedAfterAlways(snap) == s.gen
FlushedAfter(snap)       == IF s.gen = snap THEN s.gen ELSE s.flushed
AfterFinalForgot(c) == c
AfterFinal(c)       == [c EXCEPT !.finished = TRUE, !.flushed = c.gen]

\* What the next frame starts from.
Rested == [work EXCEPT !.snap = 0, !.frame = Template, !.made = NoCard]

Commit ==
    /\ work.step = "commit"
    /\ LET c == IF work.made = NoCard THEN s ELSE [s EXCEPT !.handle = work.made]
       IN  \/ /\ work.final /\ s' = AfterFinal(c)
              /\ work' = [Rested EXCEPT !.step = "tail", !.ack = IF work.ok THEN "ok" ELSE "failed"]
           \/ /\ ~work.final /\ work.last /\ Leave
           \/ /\ ~work.final /\ ~work.last /\ work' = [Rested EXCEPT !.step = "decide"]
              /\ s' = [c EXCEPT !.flushed = FlushedAfter(work.snap)]
    /\ UNCHANGED <<process, wake, row, chat, ends, history, faults>>

-----------------------------------------------------------------------------
(* The user, the process and the sweep *)

DeleteCard(h) ==
    /\ h <= count /\ h \notin gone /\ Fault /\ gone' = gone \cup {h}
    /\ UNCHANGED <<process, s, wake, work, row, card, count, ends, history>>

\* The process ends: what it had not registered stays unregistered.
Crash ==
    /\ consumer # "down" /\ crashes < MaxCrashes
    /\ crashes' = crashes + 1 /\ consumer' = "down" /\ work' = Off /\ wake' = FALSE
    /\ s' = NoSession /\ said' = "nothing"
    /\ loose' = IF work.step = "record" THEN loose \cup {work.made} ELSE loose
    /\ UNCHANGED <<round, platform, row, chat, text, dropped, faults>>

Restart(p) ==
    /\ consumer = "down" /\ platform' = p
    /\ \/ consumer' = "sweep" /\ UNCHANGED faults
       \/ consumer' = "none" /\ Fault
    /\ UNCHANGED <<round, crashes, s, wake, work, row, chat, ends, history>>

\* sweep_live_cards, before the first message is handled: a row of another
\* platform or of a deleted card is void, a card that could be closed is next.
SweepVoid ==
    /\ consumer = "sweep" /\ consumer' = "none"
    /\ \/ row = NoCard /\ UNCHANGED <<row, loose, faults>>
       \/ /\ row # NoCard /\ (card[row].platform # platform \/ row \in gone)
          /\ \/ row' = NoCard /\ loose' = loose \cup {row} /\ UNCHANGED faults
             \/ Fault /\ UNCHANGED <<row, loose>>
    /\ UNCHANGED <<round, platform, crashes, s, wake, work, chat, ends, dropped>>

SweepPatch ==
    /\ consumer = "sweep" /\ row # NoCard /\ row \notin gone /\ card[row].platform = platform
    /\ \/ consumer' = "swept" /\ Show(row, Interrupted) /\ UNCHANGED faults
       \/ consumer' = "none" /\ Fault /\ (Show(row, Interrupted) \/ UNCHANGED card)
    /\ UNCHANGED <<round, platform, crashes, s, wake, work, row, count, gone, ends, history>>

SweepClear ==
    /\ consumer = "swept" /\ consumer' = "none"
    /\ \/ row' = NoCard /\ UNCHANGED faults
       \/ Fault /\ UNCHANGED row
    /\ UNCHANGED <<round, platform, crashes, s, wake, work, chat, ends, history>>

Patcher ==
    \/ Decide \/ Rouse \/ Tail \/ Snapshot
    \/ SendCard \/ SendFails \/ SendUnnamed \/ UpdateCard \/ UpdateFails \/ UpdateLost
    \/ Record \/ ClearRow \/ Commit

Next ==
    \/ StartRound \/ Touch \/ (\E length \in {"empty", "short", "long"} : Finalize(length))
    \/ CollectAck \/ SendText \/ Abandon
    \/ Patcher
    \/ (\E h \in Card : DeleteCard(h)) \/ Crash \/ (\E p \in Platform : Restart(p))
    \/ SweepVoid \/ SweepPatch \/ SweepClear

\* Calls of the platform and the store return, and tasks are scheduled.
Fairness == WF_vars(Patcher) /\ WF_vars(CollectAck) /\ WF_vars(SendText)

Spec     == Init /\ [][Next]_vars
FairSpec == Spec /\ Fairness

-----------------------------------------------------------------------------
(* Properties *)

Steps == {"off", "decide", "idle", "tail", "snapshot", "call", "record", "clear", "commit"}
Generating(h) == h <= count /\ h \notin gone /\ ~IsEnd(card[h].shown)
\* The terminal frame made this card entity, which never showed a conclusion.
OnlyTemplate(h) == card[h].managed /\ card[h].first = Conclusion /\ ~card[h].had

\* Types; no event is flushed before it happened, and the registered and the
\* held handle are of cards that exist.
TypeOK ==
    /\ consumer \in {"none", "running", "waiting", "texting", "left", "down", "sweep", "swept"}
    /\ round \in 0 .. MaxRounds /\ platform \in Platform /\ crashes \in 0 .. MaxCrashes
    /\ s \in [gen : 0 .. MaxGen, flushed : 0 .. MaxGen, final : BOOLEAN, finished : BOOLEAN,
              handle : 0 .. count]
    /\ s.flushed <= s.gen /\ wake \in BOOLEAN
    /\ work \in [step : Steps, final : BOOLEAN, last : BOOLEAN, snap : 0 .. MaxGen,
                 frame : 0 .. Conclusion, ok : BOOLEAN, made : 0 .. count,
                 ack : {"none", "ok", "failed"}]
    /\ row \in 0 .. count /\ count \in 0 .. MaxRounds + MaxFaults /\ gone \subseteq 1 .. count
    /\ card \in [Card -> [round : 0 .. MaxRounds, platform : Platform, managed : BOOLEAN,
                          first : Frame, shown : Frame, had : BOOLEAN]]
    /\ said \in {"nothing", "empty", "short", "long"}
    /\ text \in [Round -> {"open", "none", "card", "sent", "failed"}]
    /\ loose \subseteq 0 .. count /\ dropped \in 0 .. Conclusion /\ faults \in 0 .. MaxFaults

\* No update is lost (touch, patcher_task): when the patcher sleeps with every
\* event flushed and its last call went well, the card shows the latest event,
\* or is a card entity that was created by it, or the platform dropped the frame
\* of that very event, which stays off the card until the next event.
LastFrameShown ==
    work.step = "idle" /\ ~Dirty /\ work.ok /\ s.handle # NoCard =>
        \/ card[s.handle].shown = s.gen
        \/ card[s.handle].managed /\ card[s.handle].first = s.gen /\ card[s.handle].shown = Template
        \/ card[s.handle].managed /\ dropped = s.gen

\* A card that still says it is generating, once the patcher that made it has
\* committed it, is registered for the sweep; except those that came without a
\* name, or whose registration failed or was overwritten, and those the terminal
\* frame itself made.
OrphanIsRegistered ==
    \A h \in Card : Generating(h) =>
        \/ row = h \/ h \in loose
        \/ work.step = "record" /\ work.made = h
        \/ OnlyTemplate(h)

\* P5-11: a round whose finalize returned with text has its conclusion on the
\* card, or a text with it was sent, if only in vain.
OnCard(r) == \E h \in Card : card[h].round = r /\ card[h].shown = Conclusion
ConclusionIsDelivered ==
    \A r \in Round : text[r] = "card" => OnCard(r)

\* The same, except for the two ways in which the code loses a conclusion: the
\* terminal frame made a card entity, or a sweep wrote over the finished card.
ConclusionIsKept ==
    \A r \in Round : text[r] = "card" =>
        \/ OnCard(r)
        \/ \E h \in Card : card[h].round = r
             /\ (OnlyTemplate(h) \/ (card[h].had /\ card[h].shown = Interrupted))

\* A card that was closed never says again that it is generating.
ClosedStaysClosed ==
    [][\A h \in Card : IsEnd(card[h].shown) => IsEnd(card'[h].shown)]_vars

\* finalize returns: the acknowledgement always comes (or the process ends).
FinalizeReturns == consumer = "waiting" ~> consumer # "waiting"

=============================================================================
