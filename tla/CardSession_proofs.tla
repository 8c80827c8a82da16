-------------------------- MODULE CardSession_proofs --------------------------
(* Theorems about CardSession: a closed card stays closed, a card that says it *)
(* is generating is registered for the sweep, an idle patcher has shown the    *)
(* latest event, and an acknowledged conclusion is on a card.                  *)
EXTENDS CardSession, TLAPS

USE DEF process, chat, ends, history, Throttled

LEMMA Bounds ==
    /\ MaxRounds \in Nat /\ MaxGen \in Nat /\ MaxGen > 0 /\ MaxFaults \in Nat /\ MaxCrashes \in Nat
    /\ FirstPlatform \in Platform /\ \A p \in Platform : Managed[p] \subseteq BOOLEAN
  BY CardAssumption

\* The numbers that stand for what a card shows.
USE DEF Card, Round, NoCard, Frame, Template, Conclusion, Minimal, Interrupted, IsEnd

-----------------------------------------------------------------------------
(* Types, one group of variables after the other; first with sets that do not *)
(* depend on the state.                                                       *)

Handle  == 0 .. MaxRounds + MaxFaults
Session == [gen : 0 .. MaxGen, flushed : 0 .. MaxGen, final : BOOLEAN, finished : BOOLEAN,
            handle : Handle]
Work    == [step : Steps, final : BOOLEAN, last : BOOLEAN, snap : 0 .. MaxGen,
            frame : 0 .. Conclusion, ok : BOOLEAN, made : Handle, ack : {"none", "ok", "failed"}]
Drawn   == [round : 0 .. MaxRounds, platform : Platform, managed : BOOLEAN,
            first : Frame, shown : Frame, had : BOOLEAN]

SessionOK == s \in Session
WorkOK    == work \in Work
CountOK   == count \in Handle
CardsOK   == card \in [Card -> Drawn]
PlainOK ==
    /\ consumer \in {"none", "running", "waiting", "texting", "left", "down", "sweep", "swept"}
    /\ round \in 0 .. MaxRounds /\ platform \in Platform /\ crashes \in 0 .. MaxCrashes
    /\ wake \in BOOLEAN /\ said \in {"nothing", "empty", "short", "long"}
    /\ text \in [Round -> {"open", "none", "card", "sent", "failed"}]
    /\ faults \in 0 .. MaxFaults
NamesOK == row \in Handle /\ loose \subseteq Handle /\ gone \subseteq Handle
Framed    == 0 .. Conclusion
DroppedOK == dropped \in Framed
Types == SessionOK /\ WorkOK /\ CountOK /\ CardsOK /\ PlainOK /\ NamesOK /\ DroppedOK

LEMMA Numbers ==
    /\ 0 \in Handle /\ 0 \in 0 .. MaxGen /\ 1 \in 0 .. MaxGen /\ 0 \in 0 .. Conclusion
    /\ Conclusion \in 0 .. Conclusion /\ \A n \in 0 .. MaxGen : n \in 0 .. Conclusion
    /\ \A f \in 0 .. Conclusion : f \in Frame
  BY Bounds DEF Handle

LEMMA Redraw ==
    ASSUME NEW d \in Drawn, NEW f \in Frame, NEW b \in BOOLEAN
    PROVE  [d EXCEPT !.shown = f, !.had = b] \in Drawn
  BY Bounds DEF Drawn

LEMMA ShowTyped ==
    ASSUME card \in [Card -> Drawn], NEW h \in Card, NEW f \in Frame, Show(h, f)
    PROVE  card' \in [Card -> Drawn]
  <1> DEFINE new == [card[h] EXCEPT !.shown = f, !.had = @ \/ f = Conclusion]
  <1>1. (card[h].had \/ f = Conclusion) \in BOOLEAN
      OBVIOUS
  <1>2. card[h] \in Drawn
      OBVIOUS
  <1>3. new \in Drawn
      BY <1>1, <1>2, Redraw
  <1>4. card' = [card EXCEPT ![h] = new]
      BY DEF Show
  <1> QED BY <1>3, <1>4

LEMMA MadeTyped ==
    ASSUME card \in [Card -> Drawn], count \in Handle, NEW managed \in BOOLEAN,
           round \in 0 .. MaxRounds, platform \in Platform, work.frame \in 0 .. Conclusion,
           Made(managed)
    PROVE  card' \in [Card -> Drawn] /\ count' \in Handle
  <1> DEFINE new == [round |-> round, platform |-> platform, managed |-> managed,
                     first |-> work.frame, shown |-> FirstShown(managed),
                     had |-> IsEnd(FirstShown(managed))]
  <1>1. FirstShown(managed) \in Frame /\ work.frame \in Frame
      BY Bounds DEF FirstShown
  <1>2. IsEnd(FirstShown(managed)) \in BOOLEAN
      OBVIOUS
  <1>3. new \in Drawn
      BY <1>1, <1>2 DEF Drawn
  <1>4. card' = [card EXCEPT ![count + 1] = new] /\ count + 1 \in Card /\ count' = count + 1
      BY DEF Made
  <1>5. card' \in [Card -> Drawn]
      BY <1>3, <1>4
  <1> QED BY <1>4, <1>5, Bounds DEF Handle

LEMMA OffTyped == Off \in Work /\ \A a \in {"none", "ok", "failed"} : [Off EXCEPT !.ack = a] \in Work
  <1> DEFINE G == 0 .. MaxGen  F == 0 .. Conclusion
  <1>1. 0 \in G /\ 0 \in F /\ 0 \in Handle
      BY Numbers
  <1>2. Work = [step : Steps, final : BOOLEAN, last : BOOLEAN, snap : G, frame : F, ok : BOOLEAN,
                made : Handle, ack : {"none", "ok", "failed"}]
      BY DEF Work
  <1> HIDE DEF G, F
  <1>3. Off \in Work
      BY <1>1, <1>2 DEF Off, Steps
  <1>4. ASSUME NEW a \in {"none", "ok", "failed"} PROVE [Off EXCEPT !.ack = a] \in Work
      BY <1>2, <1>3
  <1> QED BY <1>3, <1>4

LEMMA AckTyped == WorkOK => work.ack \in {"none", "ok", "failed"}
  BY DEF WorkOK, Work

LEMMA RestedTyped == WorkOK => Rested \in Work
  <1> DEFINE G == 0 .. MaxGen  F == 0 .. Conclusion
  <1>1. 0 \in G /\ 0 \in F /\ 0 \in Handle
      BY Numbers
  <1>2. Work = [step : Steps, final : BOOLEAN, last : BOOLEAN, snap : G, frame : F, ok : BOOLEAN,
                made : Handle, ack : {"none", "ok", "failed"}]
      BY DEF Work
  <1> HIDE DEF G, F
  <1> QED BY <1>1, <1>2 DEF WorkOK, Rested

LEMMA SessionsTyped == NoSession \in Session /\ Fresh \in Session
  <1> DEFINE G == 0 .. MaxGen
  <1>1. 0 \in G /\ 1 \in G /\ 0 \in Handle
      BY Numbers
  <1>2. Session = [gen : G, flushed : G, final : BOOLEAN, finished : BOOLEAN, handle : Handle]
      BY DEF Session
  <1> HIDE DEF G
  <1> QED BY <1>1, <1>2 DEF NoSession, Fresh

LEMMA NoFrameTyped == NoFrame \in Drawn
  <1> DEFINE R == 0 .. MaxRounds
  <1>1. 0 \in R /\ 0 \in Frame
      BY Bounds
  <1>2. Drawn = [round : R, platform : Platform, managed : BOOLEAN, first : Frame, shown : Frame,
                 had : BOOLEAN]
      BY DEF Drawn
  <1> HIDE DEF R, Frame
  <1> QED BY <1>1, <1>2, Bounds DEF NoFrame

LEMMA MadeCounts == SendCard => count + 1 \in Handle
  BY Bounds DEF SendCard, Made, Handle

LEMMA TypeInit == Init => Types
  <1> SUFFICES ASSUME Init PROVE Types
      OBVIOUS
  <1>1. SessionOK /\ WorkOK
      BY SessionsTyped, OffTyped DEF Init, SessionOK, WorkOK
  <1>2. CountOK /\ NamesOK
      BY Numbers DEF Init, CountOK, NamesOK
  <1>3. CardsOK
      BY NoFrameTyped DEF Init, CardsOK
  <1>4. text \in [Round -> {"open", "none", "card", "sent", "failed"}]
      BY DEF Init
  <1>6. round \in 0 .. MaxRounds /\ crashes \in 0 .. MaxCrashes /\ faults \in 0 .. MaxFaults
      BY Bounds DEF Init
  <1>7. /\ consumer = "none" /\ platform \in Platform /\ wake \in BOOLEAN /\ said = "nothing"
      BY Bounds DEF Init
  <1>5. PlainOK
      BY <1>4, <1>6, <1>7 DEF PlainOK
  <1>8. DroppedOK
      BY Numbers DEF Init, NoEvent, DroppedOK, Framed
  <1> QED BY <1>1, <1>2, <1>3, <1>5, <1>8 DEF Types

LEMMA SessionStep == SessionOK /\ WorkOK /\ CountOK /\ [Next]_vars => SessionOK'
  <1> SUFFICES ASSUME SessionOK, WorkOK, CountOK, [Next]_vars PROVE SessionOK'
      OBVIOUS
  <1> USE Bounds DEF SessionOK, Session, Handle
  <1>1. CASE StartRound
      BY <1>1, SessionsTyped DEF StartRound
  <1>2. CASE Touch
      BY <1>2 DEF Touch
  <1>3. CASE Decide
      BY <1>3 DEF Decide, Goto, Dirty
  <1>4. CASE Tail
      BY <1>4, SessionsTyped DEF Tail, Leave
  <1>5. CASE UpdateLost
      BY <1>5 DEF UpdateLost, Fault
  <1>6. CASE Commit
    <2> DEFINE kept == IF work.made = NoCard THEN s.handle ELSE work.made
               seen == IF s.gen = work.snap THEN s.gen ELSE s.flushed
               c == IF work.made = NoCard THEN s ELSE [s EXCEPT !.handle = work.made]
    <2>1. kept \in Handle /\ seen \in 0 .. MaxGen
        BY DEF WorkOK, Work
    <2>2. c \in Session /\ c.gen = s.gen
        BY <2>1
    <2>3. s' = [c EXCEPT !.finished = TRUE, !.flushed = c.gen] \/ s' = NoSession
            \/ s' = [c EXCEPT !.flushed = seen]
        BY <1>6 DEF Commit, AfterFinal, FlushedAfter, Leave
    <2> HIDE DEF c, seen
    <2>4. [c EXCEPT !.finished = TRUE, !.flushed = c.gen] \in Session
            /\ [c EXCEPT !.flushed = seen] \in Session
        BY <2>1, <2>2
    <2> QED BY <2>3, <2>4, SessionsTyped
  <1>7. CASE Crash
      BY <1>7 DEF Crash, Off, NoSession
  <1>8. ASSUME NEW length \in {"empty", "short", "long"}, Finalize(length) PROVE SessionOK'
      BY <1>8 DEF Finalize, FinalWake
  <1>9. CASE CollectAck \/ SendText \/ Abandon \/ Rouse \/ Snapshot \/ SendCard \/
            SendFails \/ SendUnnamed \/ UpdateCard \/ UpdateFails \/ Record \/ ClearRow \/
            SweepVoid \/ SweepPatch \/ SweepClear \/ (\E h \in Card : DeleteCard(h)) \/ (\E p \in
            Platform : Restart(p))
      BY <1>9 DEF CollectAck, NeedsText, SendText, Fault, Abandon, Rouse, Goto, Snapshot,
         SendCard, Made, FirstShown, SendFails, SendUnnamed, UpdateCard, Show, AfterCall,
         UpdateFails, Record, ClearRow, SweepVoid, SweepPatch, SweepClear, DeleteCard, Restart
  <1>10. CASE UNCHANGED vars
      BY <1>10 DEF vars
  <1> QED BY <1>1, <1>2, <1>3, <1>4, <1>5, <1>6, <1>7, <1>8, <1>9, <1>10
          DEF Next, Patcher

LEMMA WorkStep == SessionOK /\ WorkOK /\ CountOK /\ [Next]_vars => WorkOK'
  <1> SUFFICES ASSUME SessionOK, WorkOK, CountOK, [Next]_vars PROVE WorkOK'
      OBVIOUS
  <1> USE DEF SessionOK, WorkOK
  <1>t. work \in Work /\ s.gen \in 0 .. MaxGen /\ 0 \in Handle
      BY Bounds DEF Session, Handle
  <1>1. CASE StartRound
    <2>1. \/ work' = [Off EXCEPT !.step = "decide"]
        BY <1>1 DEF StartRound
    <2>2. [Off EXCEPT !.step = "decide"] \in Work
        BY OffTyped DEF Work, Steps
    <2> QED BY <2>1, <2>2
  <1>2. CASE Decide
    <2>1. \/ work' = [work EXCEPT !.step = "snapshot", !.final = TRUE]
          \/ work' = [work EXCEPT !.step = "snapshot", !.snap = s.gen]
          \/ work' = [work EXCEPT !.step = "idle"]
        BY <1>2 DEF Decide, Goto
    <2>2. [work EXCEPT !.step = "snapshot", !.final = TRUE] \in Work
        BY <1>t DEF Work, Steps
    <2>3. [work EXCEPT !.step = "snapshot", !.snap = s.gen] \in Work
        BY <1>t DEF Work, Steps
    <2>4. [work EXCEPT !.step = "idle"] \in Work
        BY <1>t DEF Work, Steps
    <2> QED BY <2>1, <2>2, <2>3, <2>4
  <1>3. CASE Rouse
    <2>1. \/ work' = [work EXCEPT !.step = "decide"]
          \/ work' = [work EXCEPT !.step = "tail"]
        BY <1>3 DEF Rouse, Goto
    <2>2. [work EXCEPT !.step = "decide"] \in Work
        BY <1>t DEF Work, Steps
    <2>3. [work EXCEPT !.step = "tail"] \in Work
        BY <1>t DEF Work, Steps
    <2> QED BY <2>1, <2>2, <2>3
  <1>4. CASE Tail
    <2>1. \/ work' = [work EXCEPT !.step = "snapshot", !.final = FALSE, !.last = TRUE]
          \/ work' = [Off EXCEPT !.ack = work.ack]
        BY <1>4 DEF Tail, Leave
    <2>2. [work EXCEPT !.step = "snapshot", !.final = FALSE, !.last = TRUE] \in Work
        BY <1>t, OffTyped, AckTyped DEF Work, Steps
    <2>3. [Off EXCEPT !.ack = work.ack] \in Work
        BY <1>t, OffTyped, AckTyped DEF Work, Steps
    <2> QED BY <2>1, <2>2, <2>3
  <1>5. CASE Snapshot
    <2> DEFINE f == IF work.final THEN Conclusion ELSE s.gen
    <2>1. f \in 0 .. Conclusion
        BY <1>t, Numbers
    <2>2. work' = [work EXCEPT !.step = "call", !.made = NoCard, !.frame = f]
        BY <1>5 DEF Snapshot
    <2> HIDE DEF f
    <2> QED BY <2>1, <2>2, <1>t DEF Work, Steps
  <1>6. CASE SendCard
    <2>1. \/ work' = [work EXCEPT !.step = "record", !.ok = TRUE, !.made = count + 1]
        BY <1>6 DEF SendCard
    <2>2. [work EXCEPT !.step = "record", !.ok = TRUE, !.made = count + 1] \in Work
        BY <1>t, <1>6, MadeCounts DEF Work, Steps
    <2> QED BY <2>1, <2>2
  <1>7. CASE SendFails
    <2>1. \/ work' = [work EXCEPT !.step = "commit", !.ok = FALSE]
        BY <1>7 DEF SendFails
    <2>2. [work EXCEPT !.step = "commit", !.ok = FALSE] \in Work
        BY <1>t DEF Work, Steps
    <2> QED BY <2>1, <2>2
  <1>8. CASE UpdateCard
    <2>1. \/ work' = [work EXCEPT !.step = "clear", !.ok = TRUE]
          \/ work' = [work EXCEPT !.step = "commit", !.ok = TRUE]
        BY <1>8 DEF UpdateCard, AfterCall
    <2>2. [work EXCEPT !.step = "clear", !.ok = TRUE] \in Work
        BY <1>t DEF Work, Steps
    <2>3. [work EXCEPT !.step = "commit", !.ok = TRUE] \in Work
        BY <1>t DEF Work, Steps
    <2> QED BY <2>1, <2>2, <2>3
  <1>17. CASE SendUnnamed
    <2>1. \/ work' = [work EXCEPT !.step = "clear", !.ok = TRUE]
          \/ work' = [work EXCEPT !.step = "commit", !.ok = TRUE]
        BY <1>17 DEF SendUnnamed, AfterCall
    <2>2. [work EXCEPT !.step = "clear", !.ok = TRUE] \in Work
        BY <1>t DEF Work, Steps
    <2>3. [work EXCEPT !.step = "commit", !.ok = TRUE] \in Work
        BY <1>t DEF Work, Steps
    <2> QED BY <2>1, <2>2, <2>3
  <1>9. CASE UpdateFails
    <2>1. \/ work' = [work EXCEPT !.step = "commit", !.ok = FALSE]
        BY <1>9 DEF UpdateFails, AfterCall
    <2>2. [work EXCEPT !.step = "commit", !.ok = FALSE] \in Work
        BY <1>t DEF Work, Steps
    <2> QED BY <2>1, <2>2
  <1>10. CASE UpdateLost
    <2>1. \/ work' = [work EXCEPT !.step = "commit", !.ok = FALSE]
          \/ work' = work
        BY <1>10 DEF UpdateLost
    <2>2. [work EXCEPT !.step = "commit", !.ok = FALSE] \in Work
        BY <1>t DEF Work, Steps
    <2>3. work \in Work
        BY <1>t DEF Work, Steps
    <2> QED BY <2>1, <2>2, <2>3
  <1>11. CASE Record
    <2>1. \/ work' = [work EXCEPT !.step = "clear"]
          \/ work' = [work EXCEPT !.step = "commit"]
        BY <1>11 DEF Record, Goto, AfterCall
    <2>2. [work EXCEPT !.step = "clear"] \in Work
        BY <1>t DEF Work, Steps
    <2>3. [work EXCEPT !.step = "commit"] \in Work
        BY <1>t DEF Work, Steps
    <2> QED BY <2>1, <2>2, <2>3
  <1>12. CASE ClearRow
    <2>1. \/ work' = [work EXCEPT !.step = "commit"]
        BY <1>12 DEF ClearRow, Goto
    <2>2. [work EXCEPT !.step = "commit"] \in Work
        BY <1>t DEF Work, Steps
    <2> QED BY <2>1, <2>2
  <1>13. CASE Commit
    <2> DEFINE told == IF work.ok THEN "ok" ELSE "failed"
    <2>1. \/ work' = [Rested EXCEPT !.step = "tail", !.ack = told]
          \/ work' = [Off EXCEPT !.ack = work.ack]
          \/ work' = [Rested EXCEPT !.step = "decide"]
        BY <1>13 DEF Commit, Leave
    <2>2. told \in {"none", "ok", "failed"}
        OBVIOUS
    <2> HIDE DEF told
    <2>3. [Rested EXCEPT !.step = "tail", !.ack = told] \in Work
        BY <2>2, RestedTyped DEF Work, Steps
    <2>4. [Rested EXCEPT !.step = "decide"] \in Work
        BY RestedTyped DEF Work, Steps
    <2>5. [Off EXCEPT !.ack = work.ack] \in Work
        BY OffTyped, AckTyped
    <2> QED BY <2>1, <2>3, <2>4, <2>5
  <1>14. CASE Crash
      BY <1>14, OffTyped DEF Crash
  <1>15. CASE Touch \/ CollectAck \/ SendText \/ Abandon \/ SweepVoid \/ SweepPatch \/
            SweepClear \/ (\E length \in {"empty", "short", "long"} : Finalize(length)) \/
            (\E h \in Card : DeleteCard(h)) \/ (\E p \in Platform : Restart(p))
      BY <1>15 DEF Touch, CollectAck, NeedsText, SendText, Fault, Abandon, SweepVoid, SweepPatch,
         Show, SweepClear, Finalize, FinalWake, DeleteCard, Restart
  <1>16. CASE UNCHANGED vars
      BY <1>16 DEF vars
  <1> QED BY <1>1, <1>2, <1>3, <1>4, <1>5, <1>6, <1>7, <1>8, <1>9, <1>10, <1>11, <1>12,
             <1>13, <1>14, <1>15, <1>16, <1>17
          DEF Next, Patcher

LEMMA CardStep == WorkOK /\ PlainOK /\ NamesOK /\ CountOK /\ CardsOK /\ [Next]_vars => (CountOK /\ CardsOK)'
  <1> SUFFICES ASSUME WorkOK, PlainOK, NamesOK, CountOK, CardsOK, [Next]_vars PROVE (CountOK /\ CardsOK)'
      OBVIOUS
  <1> USE DEF CountOK, CardsOK
  <1>t. /\ work.frame \in 0 .. Conclusion /\ work.frame \in Frame /\ round \in 0 .. MaxRounds
        /\ platform \in Platform /\ Managed[platform] \subseteq BOOLEAN
      BY Bounds DEF WorkOK, Work, PlainOK
  <1>1. CASE SendCard
      BY <1>1, <1>t, MadeTyped DEF SendCard
  <1>2. CASE SendFails
      BY <1>2, <1>t, MadeTyped DEF SendFails
  <1>3. CASE UpdateCard
      BY <1>3, <1>t, ShowTyped DEF UpdateCard
  <1>4. CASE UpdateFails
    <2>1. Minimal \in Frame
        BY Bounds
    <2> QED BY <1>4, <1>t, <2>1, ShowTyped DEF UpdateFails
  <1>5. CASE SweepPatch
    <2>1. Interrupted \in Frame /\ row \in Card
        BY Bounds, <1>5 DEF SweepPatch, NamesOK, Handle
    <2> QED BY <1>5, <2>1, ShowTyped DEF SweepPatch
  <1>6. CASE StartRound \/ Touch \/ CollectAck \/ SendText \/ Abandon \/ Decide \/ Rouse
            \/ Tail \/ Snapshot \/ UpdateLost \/ Record \/ ClearRow \/ Commit \/ Crash \/
            SweepVoid \/ SweepClear \/ (\E length \in {"empty", "short", "long"} :
            Finalize(length)) \/ (\E h \in Card : DeleteCard(h)) \/ (\E p \in Platform :
            Restart(p))
      BY <1>6 DEF StartRound, Fresh, NoSession, Off, Touch, CollectAck, NeedsText, SendText,
         Fault, Abandon, Decide, Goto, Dirty, Rouse, Tail, TailDue, Leave, Snapshot,
         UpdateLost, Record, AfterCall, ClearRow, Commit, AfterFinal, FlushedAfter,
         Rested, Crash, SweepVoid, SweepClear, Finalize, FinalWake, DeleteCard, Restart
  <1>7. CASE UNCHANGED vars
      BY <1>7 DEF vars
  <1>8. CASE SendUnnamed
      BY <1>8, <1>t, MadeTyped DEF SendUnnamed
  <1> QED BY <1>1, <1>2, <1>3, <1>4, <1>5, <1>6, <1>7, <1>8
          DEF Next, Patcher

LEMMA PlainStep == PlainOK /\ [Next]_vars => PlainOK'
  <1> SUFFICES ASSUME PlainOK, [Next]_vars PROVE PlainOK'
      OBVIOUS
  <1> USE Bounds DEF PlainOK
  <1>1. CASE StartRound
      BY <1>1 DEF StartRound, Fresh, NoSession, Off
  <1>2. CASE Touch
      BY <1>2 DEF Touch
  <1>3. CASE CollectAck
      BY <1>3 DEF CollectAck, NeedsText
  <1>4. CASE SendText
      BY <1>4 DEF SendText, Fault
  <1>5. CASE Abandon
      BY <1>5 DEF Abandon
  <1>6. CASE Decide
      BY <1>6 DEF Decide, Goto, Dirty
  <1>7. CASE Rouse
      BY <1>7 DEF Rouse, Goto
  <1>8. CASE Tail
      BY <1>8 DEF Tail, TailDue, Dirty, Leave, Off, NoSession
  <1>9. CASE Snapshot
      BY <1>9 DEF Snapshot
  <1>10. CASE SendCard
      BY <1>10 DEF SendCard, Made, FirstShown
  <1>11. CASE SendFails
      BY <1>11 DEF SendFails, Made, FirstShown, Fault
  <1>12. CASE UpdateCard
      BY <1>12 DEF UpdateCard, Show, AfterCall
  <1>13. CASE UpdateFails
      BY <1>13 DEF UpdateFails, Show, AfterCall, Fault
  <1>14. CASE UpdateLost
      BY <1>14 DEF UpdateLost, Fault
  <1>15. CASE Record
      BY <1>15 DEF Record, Goto, AfterCall, Fault
  <1>16. CASE ClearRow
      BY <1>16 DEF ClearRow, Goto, Fault
  <1>17. CASE Commit
      BY <1>17 DEF Commit, AfterFinal, FlushedAfter, Rested, Leave, Off, NoSession
  <1>18. CASE Crash
    <2>1. crashes' \in 0 .. MaxCrashes /\ consumer' = "down" /\ wake' = FALSE /\ said' = "nothing"
        BY <1>18 DEF Crash
    <2>2. UNCHANGED <<round, platform, text, faults>>
        BY <1>18 DEF Crash
    <2> QED BY <2>1, <2>2
  <1>19. CASE SweepVoid
      BY <1>19 DEF SweepVoid, Fault
  <1>20. CASE SweepPatch
      BY <1>20 DEF SweepPatch, Show, Fault
  <1>21. CASE SweepClear
      BY <1>21 DEF SweepClear, Fault
  <1>22. ASSUME NEW length \in {"empty", "short", "long"}, Finalize(length) PROVE PlainOK'
      BY <1>22 DEF Finalize, FinalWake
  <1>23. ASSUME NEW h \in Card, DeleteCard(h) PROVE PlainOK'
      BY <1>23 DEF DeleteCard, Fault
  <1>24. ASSUME NEW p \in Platform, Restart(p) PROVE PlainOK'
      BY <1>24 DEF Restart, Fault
  <1>26. CASE SendUnnamed
      BY <1>26 DEF SendUnnamed, Made, FirstShown, Fault
  <1>25. CASE UNCHANGED vars
      BY <1>25 DEF vars
  <1> QED BY <1>1, <1>2, <1>3, <1>4, <1>5, <1>6, <1>7, <1>8, <1>9, <1>10, <1>11, <1>12,
             <1>13, <1>14, <1>15, <1>16, <1>17, <1>18, <1>19, <1>20, <1>21, <1>22, <1>23,
             <1>24, <1>25, <1>26
          DEF Next, Patcher

LEMMA NamesStep == WorkOK /\ CountOK /\ NamesOK /\ [Next]_vars => NamesOK'
  <1> SUFFICES ASSUME WorkOK, CountOK, NamesOK, [Next]_vars PROVE NamesOK'
      OBVIOUS
  <1> USE DEF NamesOK
  <1>t. work.made \in Handle /\ 0 \in Handle
      BY Numbers DEF WorkOK, Work
  <1>1. CASE SendFails
    <2>1. loose' = loose \/ (loose' = loose \cup {count + 1} /\ count + 1 \in Card)
        BY <1>1 DEF SendFails, Made
    <2>2. Card \subseteq Handle
        BY Bounds DEF Handle
    <2>3. row' = row /\ gone' = gone
        BY <1>1 DEF SendFails, Made
    <2> QED BY <2>1, <2>2, <2>3
  <1>2. CASE UpdateLost
      BY <1>2, <1>t DEF UpdateLost, Fault
  <1>3. CASE Record
      BY <1>3, <1>t DEF Record, Goto, AfterCall, Fault
  <1>4. CASE ClearRow
      BY <1>4, <1>t DEF ClearRow, Goto, Fault
  <1>5. CASE Crash
      BY <1>5, <1>t DEF Crash, Off, NoSession
  <1>6. CASE SweepVoid
      BY <1>6, <1>t DEF SweepVoid, Fault
  <1>7. CASE SweepClear
      BY <1>7, <1>t DEF SweepClear, Fault
  <1>8. ASSUME NEW h \in Card, DeleteCard(h) PROVE NamesOK'
    <2>1. h \in Handle
        BY Bounds DEF Handle
    <2> QED BY <1>8, <2>1 DEF DeleteCard
  <1>9. CASE StartRound \/ Touch \/ CollectAck \/ SendText \/ Abandon \/ Decide \/ Rouse
            \/ Tail \/ Snapshot \/ SendCard \/ UpdateCard \/ UpdateFails \/ Commit \/
            SweepPatch \/ (\E length \in {"empty", "short", "long"} : Finalize(length)) \/
            (\E p \in Platform : Restart(p))
      BY <1>9, <1>t DEF StartRound, Fresh, NoSession, Off, Touch, CollectAck, NeedsText, SendText,
         Fault, Abandon, Decide, Goto, Dirty, Rouse, Tail, TailDue, Leave, Snapshot,
         SendCard, Made, FirstShown, UpdateCard, Show, AfterCall, UpdateFails, Commit,
         AfterFinal, FlushedAfter, Rested, SweepPatch, Finalize, FinalWake, Restart
  <1>10. CASE UNCHANGED vars
      BY <1>10 DEF vars
  <1>11. CASE SendUnnamed
    <2>1. loose' = loose \cup {count + 1} /\ count + 1 \in Card /\ row' = row /\ gone' = gone
        BY <1>11 DEF SendUnnamed, Made
    <2>2. Card \subseteq Handle
        BY Bounds DEF Handle
    <2> QED BY <2>1, <2>2
  <1> QED BY <1>1, <1>2, <1>3, <1>4, <1>5, <1>6, <1>7, <1>8, <1>9, <1>10, <1>11
          DEF Next, Patcher

\* Only a new round and an update touch what the platform dropped.
LEMMA DropsStay ==
    ASSUME [Next]_vars
    PROVE  StartRound \/ UpdateCard \/ UNCHANGED dropped
  <1>1. CASE SendCard
      BY <1>1 DEF SendCard
  <1>21. CASE SendFails
      BY <1>21 DEF SendFails
  <1>22. CASE SendUnnamed
      BY <1>22 DEF SendUnnamed
  <1>23. CASE UpdateFails
      BY <1>23 DEF UpdateFails
  <1>24. CASE SweepPatch
      BY <1>24 DEF SweepPatch
  <1>2. CASE Touch
      BY <1>2 DEF Touch
  <1>3. CASE CollectAck
      BY <1>3 DEF CollectAck
  <1>4. CASE SendText
      BY <1>4 DEF SendText
  <1>5. CASE Abandon
      BY <1>5 DEF Abandon
  <1>6. CASE Decide
      BY <1>6 DEF Decide
  <1>7. CASE Rouse
      BY <1>7 DEF Rouse
  <1>8. CASE Tail
      BY <1>8 DEF Tail, Leave
  <1>9. CASE Snapshot
      BY <1>9 DEF Snapshot
  <1>10. CASE UpdateLost
      BY <1>10 DEF UpdateLost
  <1>11. CASE Record
      BY <1>11 DEF Record
  <1>12. CASE ClearRow
      BY <1>12 DEF ClearRow
  <1>13. CASE Commit
      BY <1>13 DEF Commit, Leave
  <1>14. CASE Crash
      BY <1>14 DEF Crash
  <1>15. CASE SweepVoid
      BY <1>15 DEF SweepVoid
  <1>16. CASE SweepClear
      BY <1>16 DEF SweepClear
  <1>17. CASE \E length \in {"empty", "short", "long"} : Finalize(length)
      BY <1>17 DEF Finalize
  <1>18. CASE \E h \in Card : DeleteCard(h)
      BY <1>18 DEF DeleteCard
  <1>19. CASE \E p \in Platform : Restart(p)
      BY <1>19 DEF Restart
  <1>20. CASE UNCHANGED vars
      BY <1>20 DEF vars
  <1> QED BY <1>1, <1>2, <1>3, <1>4, <1>5, <1>6, <1>7, <1>8, <1>9, <1>10, <1>11, <1>12,
             <1>13, <1>14, <1>15, <1>16, <1>17, <1>18, <1>19, <1>20, <1>21, <1>22, <1>23, <1>24
          DEF Next, Patcher

LEMMA DroppedStep == WorkOK /\ DroppedOK /\ [Next]_vars => DroppedOK'
  <1>4. WorkOK => work.frame \in Framed
      BY DEF WorkOK, Work, Framed
  <1>5. 0 \in Framed
      BY Numbers DEF Framed
  <1> SUFFICES ASSUME work.frame \in Framed, dropped \in Framed, [Next]_vars PROVE dropped' \in Framed
      BY <1>4 DEF DroppedOK
  <1>1. CASE StartRound
      BY <1>1, <1>5 DEF StartRound, NoEvent
  <1>2. CASE UpdateCard
      BY <1>2 DEF UpdateCard
  <1>3. CASE UNCHANGED dropped
      BY <1>3
  <1> QED BY <1>1, <1>2, <1>3, DropsStay

LEMMA TypesStep == Types /\ [Next]_vars => Types'
  BY SessionStep, WorkStep, CardStep, PlainStep, NamesStep, DroppedStep DEF Types


-----------------------------------------------------------------------------
(* What the two ways to change a card do, and which steps change none *)

LEMMA ShowEffect ==
    ASSUME CardsOK, NEW h \in Card, NEW f \in Frame, Show(h, f)
    PROVE  /\ \A k \in Card \ {h} : card'[k] = card[k]
           /\ card'[h].shown = f /\ card'[h].had = (card[h].had \/ f = Conclusion)
           /\ card'[h].round = card[h].round /\ card'[h].platform = card[h].platform
           /\ card'[h].managed = card[h].managed /\ card'[h].first = card[h].first
  <1> DEFINE new == [card[h] EXCEPT !.shown = f, !.had = @ \/ f = Conclusion]
  <1>1. card' = [card EXCEPT ![h] = new]
      BY DEF Show
  <1>2. card[h] \in Drawn
      BY DEF CardsOK
  <1>3. /\ new.shown = f /\ new.had = (card[h].had \/ f = Conclusion)
        /\ new.round = card[h].round /\ new.platform = card[h].platform
        /\ new.managed = card[h].managed /\ new.first = card[h].first
      BY <1>2 DEF Drawn
  <1> HIDE DEF new
  <1> QED BY <1>1, <1>3 DEF CardsOK

LEMMA MadeEffect ==
    ASSUME CardsOK, NEW managed \in BOOLEAN, Made(managed)
    PROVE  /\ count + 1 \in Card /\ count' = count + 1 /\ gone' = gone
           /\ \A k \in Card \ {count + 1} : card'[k] = card[k]
           /\ card'[count + 1].round = round /\ card'[count + 1].managed = managed
           /\ card'[count + 1].first = work.frame /\ card'[count + 1].shown = FirstShown(managed)
           /\ card'[count + 1].had = IsEnd(FirstShown(managed))
  <1> DEFINE new == [round |-> round, platform |-> platform, managed |-> managed,
                     first |-> work.frame, shown |-> FirstShown(managed),
                     had |-> IsEnd(FirstShown(managed))]
  <1>1. card' = [card EXCEPT ![count + 1] = new] /\ count + 1 \in Card
      BY DEF Made
  <1>2. /\ new.round = round /\ new.managed = managed /\ new.first = work.frame
        /\ new.shown = FirstShown(managed) /\ new.had = IsEnd(FirstShown(managed))
      OBVIOUS
  <1>3. count' = count + 1 /\ gone' = gone
      BY DEF Made
  <1> HIDE DEF new
  <1> QED BY <1>1, <1>2, <1>3 DEF CardsOK

LEMMA OffEffect ==
    /\ Off.step = "off" /\ Off.final = FALSE /\ Off.last = FALSE /\ Off.snap = 0 /\ Off.ok = FALSE
    /\ Off.frame = 0 /\ Off.made = 0 /\ Off.ack = "none"
    /\ NoSession.gen = 0 /\ NoSession.flushed = 0 /\ NoSession.final = FALSE /\ NoSession.handle = 0
    /\ NoSession.finished = FALSE
  BY DEF Off, NoSession

LEMMA LeaveEffect ==
    ASSUME Leave
    PROVE  /\ work'.step = "off" /\ work'.final = FALSE /\ work'.last = FALSE /\ work'.ok = FALSE
           /\ work'.frame = 0 /\ work'.made = 0 /\ work'.ack = work.ack
           /\ s'.gen = 0 /\ s'.flushed = 0 /\ s'.handle = 0 /\ s'.final = FALSE
           /\ s'.finished = FALSE
  <1>1. Off \in Work
      BY OffTyped
  <1>2. work' = [Off EXCEPT !.ack = work.ack] /\ s' = NoSession
      BY DEF Leave
  <1> QED BY <1>1, <1>2, OffEffect DEF Work

LEMMA CommitEffect ==
    ASSUME Types, Commit
    PROVE  /\ \/ /\ work.final /\ s'.flushed = s'.gen /\ s'.finished = TRUE /\ work'.step = "tail"
                 /\ work'.final = TRUE /\ work'.last = work.last
                 /\ work'.ack = (IF work.ok THEN "ok" ELSE "failed")
              \/ ~work.final /\ work.last /\ Leave
              \/ /\ ~work.final /\ ~work.last /\ work'.step = "decide" /\ s'.finished = s.finished
                 /\ work'.final = FALSE /\ work'.last = FALSE /\ work'.ack = work.ack
                 /\ s'.flushed = (IF s.gen = work.snap THEN s.gen ELSE s.flushed)
           /\ ~Leave => /\ s'.gen = s.gen /\ s'.final = s.final /\ work'.ok = work.ok
                        /\ s'.handle = (IF work.made = 0 THEN s.handle ELSE work.made)
                        /\ work'.made = 0 /\ work'.frame = 0
           /\ UNCHANGED <<process, wake, row, chat, ends, loose, faults>>
  <1> DEFINE c == IF work.made = NoCard THEN s ELSE [s EXCEPT !.handle = work.made]
  <1>1. c \in Session /\ c.handle = (IF work.made = 0 THEN s.handle ELSE work.made)
      BY DEF Types, SessionOK, WorkOK, Session, Work
  <1>2. /\ c.gen = s.gen /\ c.final = s.final /\ c.flushed = s.flushed /\ c.finished = s.finished
      BY DEF Types, SessionOK, Session
  <1>3. work \in Work
      BY DEF Types, WorkOK
  <1>4. \/ /\ work.final /\ s' = [c EXCEPT !.finished = TRUE, !.flushed = c.gen]
           /\ work' = [Rested EXCEPT !.step = "tail", !.ack = IF work.ok THEN "ok" ELSE "failed"]
        \/ ~work.final /\ work.last /\ Leave
        \/ /\ ~work.final /\ ~work.last /\ work' = [Rested EXCEPT !.step = "decide"]
           /\ s' = [c EXCEPT !.flushed = IF s.gen = work.snap THEN s.gen ELSE s.flushed]
      BY DEF Commit, AfterFinal, FlushedAfter
  <1>5. UNCHANGED <<process, wake, row, chat, ends, loose, faults>>
      BY DEF Commit
  <1> HIDE DEF c
  <1>6. /\ Rested.final = work.final /\ Rested.last = work.last /\ Rested.ok = work.ok
        /\ Rested.made = 0 /\ Rested.frame = 0 /\ Rested.ack = work.ack /\ Rested \in Work
      BY <1>3, RestedTyped DEF Work, Rested, WorkOK
  <1>7. CASE work.final /\ s' = [c EXCEPT !.finished = TRUE, !.flushed = c.gen]
           /\ work' = [Rested EXCEPT !.step = "tail", !.ack = IF work.ok THEN "ok" ELSE "failed"]
      BY <1>1, <1>2, <1>3, <1>5, <1>6, <1>7 DEF Session, Work
  <1>8. CASE ~work.final /\ work.last /\ Leave
      BY <1>5, <1>8
  <1>9. CASE ~work.final /\ ~work.last /\ work' = [Rested EXCEPT !.step = "decide"]
           /\ s' = [c EXCEPT !.flushed = IF s.gen = work.snap THEN s.gen ELSE s.flushed]
      BY <1>1, <1>2, <1>3, <1>5, <1>6, <1>9 DEF Session, Work
  <1> QED BY <1>4, <1>7, <1>8, <1>9

-----------------------------------------------------------------------------
(* Names are of cards that were made; what was not made is blank. *)

Counts ==
    /\ s.handle <= count /\ work.made <= count /\ row <= count
    /\ gone \subseteq 1 .. count /\ loose \subseteq 0 .. count
    /\ s.flushed <= s.gen
Blank == \A h \in Card : h > count => card[h] = NoFrame

LEMMA CountsStep == Types /\ Counts /\ [Next]_vars => Counts'
  <1> SUFFICES ASSUME Types, Counts, [Next]_vars PROVE Counts'
      OBVIOUS
  <1> USE Bounds DEF Types, CountOK, NamesOK, SessionOK, WorkOK, Session, Work, Handle, Counts
  <1>1. CASE StartRound
      BY <1>1 DEF StartRound, Fresh, NoSession, Off
  <1>2. CASE Touch
      BY <1>2 DEF Touch
  <1>3. CASE CollectAck
      BY <1>3 DEF CollectAck, NeedsText
  <1>4. CASE SendText
      BY <1>4 DEF SendText, Fault
  <1>5. CASE Abandon
      BY <1>5 DEF Abandon
  <1>6. CASE Decide
      BY <1>6 DEF Decide, Goto, Dirty
  <1>7. CASE Rouse
      BY <1>7 DEF Rouse, Goto
  <1>8. CASE Tail
    <2>1. CASE Leave
        BY <2>1, <1>8, LeaveEffect DEF Tail
    <2>2. CASE ~Leave
        BY <2>2, <1>8 DEF Tail
    <2> QED BY <2>1, <2>2
  <1>9. CASE Snapshot
      BY <1>9 DEF Snapshot
  <1>10. CASE SendCard
      BY <1>10 DEF SendCard, Made, FirstShown
  <1>11. CASE SendFails
    <2>1. \/ loose' = loose /\ (count' = count \/ count' = count + 1)
          \/ loose' = loose \cup {count + 1} /\ count' = count + 1
        BY <1>11 DEF SendFails, Made
    <2>2. UNCHANGED <<s, row, gone>> /\ work'.made = work.made
        BY <1>11 DEF SendFails, Made
    <2>3. s'.handle <= count' /\ work'.made <= count' /\ row' <= count' /\ s'.flushed <= s'.gen
        BY <2>1, <2>2
    <2>5. count \in Nat /\ (count' = count \/ count' = count + 1)
        BY <2>1
    <2>6. 1 .. count \subseteq 1 .. count' /\ 0 .. count \subseteq 0 .. count'
        BY <2>5
    <2>7. loose' \subseteq loose \cup 0 .. count'
        BY <2>1, <2>5
    <2>4. gone' \subseteq 1 .. count' /\ loose' \subseteq 0 .. count'
        BY <2>2, <2>6, <2>7
    <2> QED BY <2>3, <2>4
  <1>12. CASE UpdateCard
      BY <1>12 DEF UpdateCard, Show, AfterCall
  <1>13. CASE UpdateFails
      BY <1>13 DEF UpdateFails, Show, AfterCall, Fault
  <1>14. CASE UpdateLost
      BY <1>14 DEF UpdateLost, Fault
  <1>15. CASE Record
      BY <1>15 DEF Record, Goto, AfterCall, Fault
  <1>16. CASE ClearRow
      BY <1>16 DEF ClearRow, Goto, Fault
  <1>17. CASE Commit
    <2>1. UNCHANGED <<row, count, gone, loose>> /\ (Leave \/ ~Leave)
        BY <1>17, CommitEffect
    <2>2. CASE Leave
        BY <2>1, <2>2, LeaveEffect
    <2>3. CASE ~Leave
      <3>1. work'.made = 0 /\ s'.handle <= count /\ s'.gen = s.gen
          BY <1>17, <2>3, CommitEffect
      <3>2. s'.flushed = s'.gen \/ s'.flushed = s.gen \/ s'.flushed = s.flushed
          BY <1>17, <2>3, CommitEffect
      <3> QED BY <2>1, <3>1, <3>2
    <2> QED BY <2>1, <2>2, <2>3
  <1>18. CASE Crash
    <2>1. loose' \subseteq loose \cup {work.made} /\ UNCHANGED <<row, count, gone>>
        BY <1>18 DEF Crash
    <2>2. work'.made = 0 /\ s'.handle = 0 /\ s'.flushed <= s'.gen
        BY <1>18, OffEffect DEF Crash
    <2> QED BY <2>1, <2>2
  <1>19. CASE SweepVoid
    <2>1. loose' \subseteq loose \cup {row} /\ (row' = row \/ row' = 0)
        BY <1>19 DEF SweepVoid
    <2>2. UNCHANGED <<s, work, count, gone>>
        BY <1>19 DEF SweepVoid
    <2> QED BY <2>1, <2>2
  <1>20. CASE SweepPatch
      BY <1>20 DEF SweepPatch, Show, Fault
  <1>21. CASE SweepClear
      BY <1>21 DEF SweepClear, Fault
  <1>22. ASSUME NEW length \in {"empty", "short", "long"}, Finalize(length) PROVE Counts'
      BY <1>22 DEF Finalize, FinalWake
  <1>23. ASSUME NEW h \in Card, DeleteCard(h) PROVE Counts'
      BY <1>23 DEF DeleteCard, Fault
  <1>24. ASSUME NEW p \in Platform, Restart(p) PROVE Counts'
      BY <1>24 DEF Restart, Fault
  <1>26. CASE SendUnnamed
    <2>1. loose' = loose \cup {count + 1} /\ count' = count + 1
        BY <1>26 DEF SendUnnamed, Made
    <2>2. UNCHANGED <<s, row, gone>> /\ work'.made = work.made
        BY <1>26 DEF SendUnnamed, Made
    <2>3. s'.handle <= count' /\ work'.made <= count' /\ row' <= count' /\ s'.flushed <= s'.gen
        BY <2>1, <2>2
    <2>4. 1 .. count \subseteq 1 .. count' /\ 0 .. count \subseteq 0 .. count' /\ count + 1 \in 0 .. count'
        BY <2>1
    <2>5. gone' \subseteq 1 .. count' /\ loose' \subseteq 0 .. count'
        BY <2>1, <2>2, <2>4
    <2> QED BY <2>3, <2>5
  <1>25. CASE UNCHANGED vars
      BY <1>25 DEF vars
  <1> QED BY <1>1, <1>2, <1>3, <1>4, <1>5, <1>6, <1>7, <1>8, <1>9, <1>10, <1>11, <1>12,
             <1>13, <1>14, <1>15, <1>16, <1>17, <1>18, <1>19, <1>20, <1>21, <1>22, <1>23,
             <1>24, <1>25, <1>26
          DEF Next, Patcher

LEMMA BlankInit == Init => Counts /\ Blank
  BY Bounds, OffEffect DEF Init, Counts, Blank

LEMMA CardsStay ==
    ASSUME [Next]_vars
    PROVE  SendCard \/ SendFails \/ SendUnnamed \/ UpdateCard \/ UpdateFails
             \/ SweepPatch \/ UNCHANGED <<card, count>>
  <1>1. CASE StartRound
      BY <1>1 DEF StartRound
  <1>2. CASE Touch
      BY <1>2 DEF Touch
  <1>3. CASE CollectAck
      BY <1>3 DEF CollectAck
  <1>4. CASE SendText
      BY <1>4 DEF SendText
  <1>5. CASE Abandon
      BY <1>5 DEF Abandon
  <1>6. CASE Decide
      BY <1>6 DEF Decide
  <1>7. CASE Rouse
      BY <1>7 DEF Rouse
  <1>8. CASE Tail
      BY <1>8 DEF Tail, Leave
  <1>9. CASE Snapshot
      BY <1>9 DEF Snapshot
  <1>10. CASE UpdateLost
      BY <1>10 DEF UpdateLost
  <1>11. CASE Record
      BY <1>11 DEF Record
  <1>12. CASE ClearRow
      BY <1>12 DEF ClearRow
  <1>13. CASE Commit
      BY <1>13 DEF Commit, Leave
  <1>14. CASE Crash
      BY <1>14 DEF Crash
  <1>15. CASE SweepVoid
      BY <1>15 DEF SweepVoid
  <1>16. CASE SweepClear
      BY <1>16 DEF SweepClear
  <1>17. CASE \E length \in {"empty", "short", "long"} : Finalize(length)
      BY <1>17 DEF Finalize
  <1>18. CASE \E h \in Card : DeleteCard(h)
      BY <1>18 DEF DeleteCard
  <1>19. CASE \E p \in Platform : Restart(p)
      BY <1>19 DEF Restart
  <1>20. CASE UNCHANGED vars
      BY <1>20 DEF vars
  <1> QED BY <1>1, <1>2, <1>3, <1>4, <1>5, <1>6, <1>7, <1>8, <1>9, <1>10, <1>11, <1>12,
             <1>13, <1>14, <1>15, <1>16, <1>17, <1>18, <1>19, <1>20
          DEF Next, Patcher

LEMMA BlankStep == Types /\ Counts /\ Blank /\ [Next]_vars => Blank'
  <1> SUFFICES ASSUME Types, Counts, Blank, [Next]_vars PROVE Blank'
      OBVIOUS
  <1> USE Bounds DEF Types, CountOK, NamesOK
  <1>t. /\ count \in Handle /\ s.handle <= count /\ row <= count /\ s.handle \in Handle /\ row \in Handle
        /\ work.frame \in Frame /\ platform \in Platform
      BY Numbers DEF Counts, SessionOK, Session, WorkOK, Work, PlainOK
  <1>1. CASE SendCard
    <2>1. PICK managed \in BOOLEAN : Made(managed)
        BY <1>1, <1>t DEF SendCard
    <2> QED BY <2>1, <1>t, MadeEffect DEF Blank, Handle
  <1>2. CASE SendFails
    <2>1. CASE UNCHANGED chat
        BY <2>1 DEF Blank
    <2>2. ASSUME NEW managed \in BOOLEAN, Made(managed) PROVE Blank'
        BY <2>2, <1>t, MadeEffect DEF Blank, Handle
    <2> QED BY <1>2, <1>t, <2>1, <2>2 DEF SendFails
  <1>3. CASE UpdateCard
    <2>1. count' = count /\ s.handle \in Card /\ s.handle <= count
        BY <1>3, <1>t DEF UpdateCard, Handle
    <2>2. UNCHANGED card \/ \E f \in Frame : Show(s.handle, f)
        BY <1>3, <1>t DEF UpdateCard
    <2> QED BY <2>1, <2>2, ShowEffect DEF Blank, Handle
  <1>4. CASE UpdateFails
    <2>1. count' = count /\ s.handle \in Card /\ s.handle <= count
        BY <1>4, <1>t DEF UpdateFails, Handle
    <2>2. UNCHANGED card \/ \E f \in Frame : Show(s.handle, f)
        BY <1>4, <1>t DEF UpdateFails
    <2> QED BY <2>1, <2>2, ShowEffect DEF Blank, Handle
  <1>5. CASE SweepPatch
    <2>1. count' = count /\ row \in Card /\ row <= count
        BY <1>5, <1>t DEF SweepPatch, Handle
    <2>2. UNCHANGED card \/ \E f \in Frame : Show(row, f)
        BY <1>5, <1>t DEF SweepPatch
    <2> QED BY <2>1, <2>2, ShowEffect DEF Blank, Handle
  <1>6. CASE UNCHANGED <<card, count>>
      BY <1>6 DEF Blank
  <1>7. CASE SendUnnamed
    <2>1. Made(FALSE) /\ FALSE \in BOOLEAN
        BY <1>7 DEF SendUnnamed
    <2>2. /\ count' = count + 1 /\ count + 1 \in Card
          /\ \A k \in Card \ {count + 1} : card'[k] = card[k]
        BY <2>1, MadeEffect
    <2> QED BY <2>2, <1>t DEF Blank, Handle
  <1> QED BY <1>1, <1>2, <1>3, <1>4, <1>5, <1>6, <1>7, CardsStay

-----------------------------------------------------------------------------
(* What each step of the patcher has in its hands *)

\* Terminal frames are recognised by their number, and end the session.
Ending ==
    /\ work.step \in {"call", "record", "clear", "commit"} /\ work.final => work.frame = Conclusion
    /\ ~work.final => work.frame < Conclusion
    /\ work.step \in {"off", "decide", "idle"} => ~work.final
    /\ work.step = "tail" /\ work.final => s.finished
    /\ work.step \in {"off", "decide", "idle", "tail", "snapshot", "call"} => work.made = NoCard
    /\ work.step = "off" => s.handle = NoCard
    /\ consumer \in {"down", "sweep", "swept"} => work.step = "off"

LEMMA EndingInit == Init => Ending
  BY Bounds, OffEffect DEF Init, Ending

LEMMA EndingStep == Types /\ Ending /\ [Next]_vars => Ending'
  <1> SUFFICES ASSUME Types, Ending, [Next]_vars PROVE Ending'
      OBVIOUS
  <1> USE Bounds DEF Types, SessionOK, WorkOK, Session, Work, Ending
  <1>1. CASE StartRound
    <2>1. /\ work'.step = "decide" /\ work'.final = FALSE /\ work'.frame = 0 /\ work'.made = 0
          /\ consumer' = "running"
        BY <1>1, OffTyped, OffEffect DEF StartRound, Work
    <2> QED BY <2>1
  <1>2. CASE Touch
      BY <1>2 DEF Touch
  <1>3. CASE CollectAck
      BY <1>3 DEF CollectAck, NeedsText
  <1>4. CASE SendText
      BY <1>4 DEF SendText, Fault
  <1>5. CASE Abandon
      BY <1>5 DEF Abandon
  <1>6. CASE Decide
      BY <1>6 DEF Decide, Goto, Dirty
  <1>7. CASE Rouse
      BY <1>7 DEF Rouse, Goto
  <1>8. CASE Tail
    <2>1. CASE Leave
      <3>1. /\ work'.step = "off" /\ ~work'.final /\ work'.frame = 0 /\ work'.made = 0
            /\ s'.handle = 0
          BY <2>1, LeaveEffect
      <3> QED BY <3>1
    <2>2. CASE ~Leave
        BY <2>2, <1>8 DEF Tail, TailDue
    <2> QED BY <2>1, <2>2
  <1>9. CASE Snapshot
      BY <1>9 DEF Snapshot
  <1>10. CASE SendCard
      BY <1>10 DEF SendCard, Made, FirstShown
  <1>11. CASE SendFails
      BY <1>11 DEF SendFails, Made, FirstShown, Fault
  <1>12. CASE UpdateCard
      BY <1>12 DEF UpdateCard, Show, AfterCall
  <1>13. CASE UpdateFails
      BY <1>13 DEF UpdateFails, Show, AfterCall, Fault
  <1>14. CASE UpdateLost
      BY <1>14 DEF UpdateLost, Fault
  <1>15. CASE Record
      BY <1>15 DEF Record, Goto, AfterCall, Fault
  <1>16. CASE ClearRow
      BY <1>16 DEF ClearRow, Goto, Fault
  <1>17. CASE Commit
    <2>1. CASE Leave
      <3>1. /\ work'.step = "off" /\ ~work'.final /\ work'.frame = 0 /\ work'.made = 0
            /\ s'.handle = 0
          BY <2>1, LeaveEffect
      <3> QED BY <3>1
    <2>2. CASE ~Leave
      <3>1. \/ work'.step = "tail" /\ work'.final = TRUE /\ s'.finished = TRUE
            \/ work'.step = "decide" /\ work'.final = FALSE
          BY <1>17, <2>2, CommitEffect
      <3>2. work'.frame = 0 /\ work'.made = 0 /\ consumer' = consumer /\ work.step = "commit"
          BY <1>17, <2>2, CommitEffect DEF Commit
      <3> QED BY <3>1, <3>2
    <2> QED BY <2>1, <2>2
  <1>18. CASE Crash
      BY <1>18, OffEffect DEF Crash
  <1>19. CASE SweepVoid
      BY <1>19 DEF SweepVoid, Fault
  <1>20. CASE SweepPatch
      BY <1>20 DEF SweepPatch, Show, Fault
  <1>21. CASE SweepClear
      BY <1>21 DEF SweepClear, Fault
  <1>22. ASSUME NEW length \in {"empty", "short", "long"}, Finalize(length) PROVE Ending'
      BY <1>22 DEF Finalize, FinalWake
  <1>23. ASSUME NEW h \in Card, DeleteCard(h) PROVE Ending'
      BY <1>23 DEF DeleteCard, Fault
  <1>24. ASSUME NEW p \in Platform, Restart(p) PROVE Ending'
      BY <1>24 DEF Restart, Fault
  <1>26. CASE SendUnnamed
      BY <1>26 DEF SendUnnamed, AfterCall, Fault
  <1>25. CASE UNCHANGED vars
      BY <1>25 DEF vars
  <1> QED BY <1>1, <1>2, <1>3, <1>4, <1>5, <1>6, <1>7, <1>8, <1>9, <1>10, <1>11, <1>12,
             <1>13, <1>14, <1>15, <1>16, <1>17, <1>18, <1>19, <1>20, <1>21, <1>22, <1>23,
             <1>24, <1>25, <1>26
          DEF Next, Patcher

-----------------------------------------------------------------------------
(* The five steps that change a card, field by field *)

Drew ==
    /\ count + 1 \in Card /\ count' = count + 1 /\ gone' = gone
    /\ \A k \in Card \ {count + 1} : card'[k] = card[k]
    /\ card'[count + 1].round = round /\ card'[count + 1].first = work.frame
    /\ \/ card'[count + 1].managed = TRUE /\ card'[count + 1].shown = 0 /\ card'[count + 1].had = FALSE
       \/ /\ card'[count + 1].managed = FALSE /\ card'[count + 1].shown = work.frame
          /\ card'[count + 1].had = IsEnd(work.frame)
Redrew(h, f) ==
    /\ h \in Card /\ f \in Frame /\ count' = count /\ gone' = gone
    /\ \A k \in Card \ {h} : card'[k] = card[k]
    /\ card'[h].shown = f /\ card'[h].had = (card[h].had \/ f = Conclusion)
    /\ card'[h].round = card[h].round /\ card'[h].managed = card[h].managed
    /\ card'[h].first = card[h].first
SameWork == /\ work'.final = work.final /\ work'.last = work.last /\ work'.snap = work.snap
            /\ work'.frame = work.frame /\ work'.ack = work.ack

LEMMA MadeDraws == ASSUME Types, NEW managed \in BOOLEAN, Made(managed) PROVE Drew
  <1>1. CASE managed = TRUE
    <2>1. FirstShown(managed) = 0 /\ IsEnd(FirstShown(managed)) = FALSE
        BY <1>1, Bounds DEF FirstShown
    <2>2. CardsOK
        BY DEF Types
    <2> HIDE DEF IsEnd
    <2> QED BY <1>1, <2>1, <2>2, MadeEffect DEF Drew
  <1>2. CASE managed = FALSE
      BY <1>2, MadeEffect, Bounds DEF Types, Drew, FirstShown
  <1> QED BY <1>1, <1>2

LEMMA ShowRedraws ==
    ASSUME Types, NEW h \in Card, NEW f \in Frame, Show(h, f), UNCHANGED <<count, gone>>
    PROVE  Redrew(h, f)
  BY ShowEffect DEF Types, Redrew

LEMMA SendCardEffect ==
    ASSUME Types, SendCard
    PROVE  /\ work.step = "call" /\ s.handle = NoCard /\ Drew /\ SameWork
           /\ work'.step = "record" /\ work'.ok = TRUE /\ work'.made = count + 1
           /\ UNCHANGED <<process, s, wake, row, ends, loose, faults>>
  <1>1. platform \in Platform
      BY DEF Types, PlainOK
  <1>2. PICK managed \in BOOLEAN : Made(managed)
      BY <1>1, Bounds DEF SendCard
  <1>3. Drew
      BY <1>2, MadeDraws
  <1>4. SameWork /\ work'.step = "record" /\ work'.ok = TRUE /\ work'.made = count + 1
      BY DEF SendCard, SameWork, Types, WorkOK, Work
  <1> QED BY <1>3, <1>4 DEF SendCard

LEMMA SendFailsEffect ==
    ASSUME Types, SendFails
    PROVE  /\ work.step = "call" /\ s.handle = NoCard /\ SameWork
           /\ UNCHANGED <<chat, loose>> \/ (Drew /\ loose' = loose \cup {count + 1})
           /\ work'.step = "commit" /\ work'.ok = FALSE /\ work'.made = work.made
           /\ UNCHANGED <<process, s, wake, row, ends>>
  <1>1. platform \in Platform
      BY DEF Types, PlainOK
  <1>2. CASE UNCHANGED <<chat, loose>>
      BY <1>2 DEF SendFails, SameWork, Types, WorkOK, Work
  <1>3. CASE ~UNCHANGED <<chat, loose>>
    <2>1. PICK managed \in BOOLEAN : Made(managed)
        BY <1>1, <1>3, Bounds DEF SendFails
    <2>2. Drew /\ loose' = loose \cup {count + 1}
        BY <1>3, <2>1, MadeDraws DEF SendFails
    <2>3. SameWork /\ work'.step = "commit" /\ work'.ok = FALSE /\ work'.made = work.made
        BY DEF SendFails, SameWork, Types, WorkOK, Work
    <2> QED BY <2>2, <2>3 DEF SendFails
  <1> QED BY <1>2, <1>3

LEMMA SendUnnamedEffect ==
    ASSUME Types, SendUnnamed
    PROVE  /\ work.step = "call" /\ s.handle = NoCard /\ SameWork
           /\ Drew /\ card'[count + 1].shown = work.frame /\ loose' = loose \cup {count + 1}
           /\ work'.step = (IF work.final THEN "clear" ELSE "commit")
           /\ work'.ok = TRUE /\ work'.made = work.made
           /\ UNCHANGED <<process, s, wake, row, ends>>
  <1>1. Made(FALSE)
      BY DEF SendUnnamed
  <1>2. Drew /\ card'[count + 1].shown = work.frame
      BY <1>1, MadeDraws, MadeEffect DEF Types, FirstShown
  <1>3. /\ SameWork /\ work'.step = (IF work.final THEN "clear" ELSE "commit")
        /\ work'.ok = TRUE /\ work'.made = work.made
      BY DEF SendUnnamed, AfterCall, SameWork, Types, WorkOK, Work
  <1> QED BY <1>2, <1>3 DEF SendUnnamed

LEMMA UpdateCardEffect ==
    ASSUME Types, UpdateCard
    PROVE  /\ work.step = "call" /\ s.handle \in Card \ gone /\ SameWork
           /\ \/ Redrew(s.handle, work.frame) /\ UNCHANGED dropped
              \/ /\ ~work.final /\ UNCHANGED chat
                 /\ dropped' = work.frame /\ card[s.handle].managed
           /\ work'.step = (IF work.final THEN "clear" ELSE "commit")
           /\ work'.ok = TRUE /\ work'.made = work.made
           /\ UNCHANGED <<process, s, wake, row, ends, loose, faults>>
  <1>1. work.frame \in Frame
      BY Numbers DEF Types, WorkOK, Work
  <1>2. \/ Redrew(s.handle, work.frame) /\ UNCHANGED dropped
        \/ /\ ~work.final /\ UNCHANGED chat
           /\ dropped' = work.frame /\ card[s.handle].managed
    <2>1. CASE Show(s.handle, work.frame) /\ UNCHANGED dropped
      <3>1. s.handle \in Card /\ UNCHANGED <<count, gone>>
          BY DEF UpdateCard
      <3> QED BY <1>1, <2>1, <3>1, ShowRedraws
    <2>2. CASE ~(Show(s.handle, work.frame) /\ UNCHANGED dropped)
        BY <2>2 DEF UpdateCard
    <2> QED BY <2>1, <2>2
  <1>3. /\ SameWork /\ work'.step = (IF work.final THEN "clear" ELSE "commit")
        /\ work'.ok = TRUE /\ work'.made = work.made
      BY DEF UpdateCard, AfterCall, SameWork, Types, WorkOK, Work
  <1> QED BY <1>2, <1>3 DEF UpdateCard

LEMMA UpdateFailsEffect ==
    ASSUME Types, UpdateFails
    PROVE  /\ work.step = "call" /\ s.handle \in Card \ gone /\ SameWork
           /\ \/ UNCHANGED chat
              \/ Redrew(s.handle, work.frame)
              \/ work.final /\ Redrew(s.handle, Minimal)
           /\ work'.step = "commit" /\ work'.ok = FALSE /\ work'.made = work.made
           /\ UNCHANGED <<process, s, wake, row, count, gone, ends, loose>>
  <1>1. work.frame \in Frame /\ Minimal \in Frame
      BY Numbers, Bounds DEF Types, WorkOK, Work
  <1>2. UNCHANGED card \/ Show(s.handle, work.frame) \/ (work.final /\ Show(s.handle, Minimal))
      BY DEF UpdateFails
  <1>3. UNCHANGED <<count, gone>> /\ s.handle \in Card
      BY DEF UpdateFails
  <1>4. \/ UNCHANGED chat
        \/ Redrew(s.handle, work.frame)
        \/ work.final /\ Redrew(s.handle, Minimal)
      BY <1>1, <1>2, <1>3, ShowRedraws
  <1>5. SameWork /\ work'.step = "commit" /\ work'.ok = FALSE /\ work'.made = work.made
      BY DEF UpdateFails, AfterCall, SameWork, Types, WorkOK, Work
  <1> QED BY <1>4, <1>5 DEF UpdateFails

LEMMA SweepPatchEffect ==
    ASSUME Types, SweepPatch
    PROVE  /\ consumer = "sweep" /\ row # NoCard /\ row \in Card /\ row \notin gone
           /\ \/ consumer' = "swept" /\ Redrew(row, Interrupted)
              \/ consumer' = "none" /\ (Redrew(row, Interrupted) \/ UNCHANGED card)
           /\ UNCHANGED <<round, platform, crashes, s, wake, work, row, count, gone, ends, loose>>
  <1>1. Interrupted \in Frame /\ row \in Card
      BY Bounds DEF SweepPatch, Types, NamesOK, Handle
  <1>2. UNCHANGED <<count, gone>>
      BY DEF SweepPatch
  <1>3. Show(row, Interrupted) => Redrew(row, Interrupted)
      BY <1>1, <1>2, ShowRedraws
  <1> QED BY <1>1, <1>3 DEF SweepPatch

\* What is on a card is a number, and cards are within 1 .. MaxRounds + MaxFaults.
LEMMA CardFields ==
    ASSUME Types, NEW h \in Card
    PROVE  /\ card[h].shown \in Frame /\ card[h].first \in Frame /\ card[h].managed \in BOOLEAN
           /\ card[h].had \in BOOLEAN /\ card[h].round \in 0 .. MaxRounds
  BY DEF Types, CardsOK, Drawn

-----------------------------------------------------------------------------
(* A card in use has not ended *)

Unended(h) == ~IsEnd(card[h].shown) /\ ~IsEnd(card[h].first)

\* The card of the session, until its terminal frame was sent, and the card a
\* running frame made; a frame makes a card only when there is none.
Open ==
    /\ s.handle # NoCard /\ (~work.final \/ work.step \in {"snapshot", "call"}) => Unended(s.handle)
    /\ work.made # NoCard /\ ~work.final => Unended(work.made)
    /\ work.made # NoCard => s.handle = NoCard

LEMMA OpenInit == Init => Open
  BY OffEffect DEF Init, Open

LEMMA OpenStep == Types /\ Counts /\ Blank /\ Ending /\ Open /\ [Next]_vars => Open'
  <1> SUFFICES ASSUME Types, Counts, Blank, Ending, Open, [Next]_vars PROVE Open'
      OBVIOUS
  <1> USE Bounds DEF Types, SessionOK, WorkOK, Session, Work, Ending, Open, Unended
  <1>1. CASE StartRound
    <2>1. work'.made = 0 /\ s'.handle = 0
        BY <1>1, OffTyped, OffEffect DEF StartRound, Fresh, Work
    <2> QED BY <2>1
  <1>2. CASE Touch
      BY <1>2 DEF Touch
  <1>3. CASE CollectAck
      BY <1>3 DEF CollectAck, NeedsText
  <1>4. CASE SendText
      BY <1>4 DEF SendText, Fault
  <1>5. CASE Abandon
      BY <1>5 DEF Abandon
  <1>6. CASE Decide
      BY <1>6 DEF Decide, Goto, Dirty
  <1>7. CASE Rouse
      BY <1>7 DEF Rouse, Goto
  <1>8. CASE Tail
    <2>1. CASE Leave
      <3>1. work'.made = 0 /\ s'.handle = 0
          BY <2>1, LeaveEffect
      <3> QED BY <3>1
    <2>2. CASE ~Leave
        BY <2>2, <1>8 DEF Tail, TailDue
    <2> QED BY <2>1, <2>2
  <1>9. CASE Snapshot
      BY <1>9 DEF Snapshot
  <1>10. CASE SendCard
    <2>1. Drew /\ SameWork /\ s' = s /\ s.handle = 0 /\ work'.made = count + 1
        BY <1>10, SendCardEffect
    <2>2. ~work.final => work.frame < Conclusion
        BY DEF Ending
    <2> QED BY <2>1, <2>2, CardFields DEF Drew, SameWork
  <1>11. CASE SendFails
    <2>1. s' = s /\ s.handle = 0 /\ work'.made = work.made /\ work.made = 0
        BY <1>11, SendFailsEffect
    <2> QED BY <2>1
  <1>12. CASE UpdateCard
    <2>1. (UNCHANGED chat \/ Redrew(s.handle, work.frame)) /\ SameWork /\ s' = s /\ work'.made = work.made
          /\ work'.step = (IF work.final THEN "clear" ELSE "commit") /\ work.step = "call"
        BY <1>12, UpdateCardEffect
    <2> QED BY <2>1 DEF Redrew, SameWork
  <1>13. CASE UpdateFails
    <2>1. /\ UNCHANGED card \/ Redrew(s.handle, work.frame) \/ (work.final /\ Redrew(s.handle, Minimal))
          /\ SameWork /\ s' = s /\ work'.made = work.made /\ work'.step = "commit"
          /\ work.step = "call"
        BY <1>13, UpdateFailsEffect
    <2> QED BY <2>1 DEF Redrew, SameWork
  <1>14. CASE UpdateLost
      BY <1>14 DEF UpdateLost, Fault
  <1>15. CASE Record
      BY <1>15 DEF Record, Goto, AfterCall, Fault
  <1>16. CASE ClearRow
      BY <1>16 DEF ClearRow, Goto, Fault
  <1>17. CASE Commit
    <2>1. CASE Leave
      <3>1. work'.made = 0 /\ s'.handle = 0
          BY <2>1, LeaveEffect
      <3> QED BY <3>1
    <2>2. CASE ~Leave
        BY <1>17, <2>2, CommitEffect DEF Commit
    <2> QED BY <2>1, <2>2
  <1>18. CASE Crash
      BY <1>18, OffEffect DEF Crash
  <1>19. CASE SweepVoid
      BY <1>19 DEF SweepVoid, Fault
  <1>20. CASE SweepPatch
      BY <1>20 DEF SweepPatch, Show, Fault
  <1>21. CASE SweepClear
      BY <1>21 DEF SweepClear, Fault
  <1>22. ASSUME NEW length \in {"empty", "short", "long"}, Finalize(length) PROVE Open'
      BY <1>22 DEF Finalize, FinalWake
  <1>23. ASSUME NEW h \in Card, DeleteCard(h) PROVE Open'
      BY <1>23 DEF DeleteCard, Fault
  <1>24. ASSUME NEW p \in Platform, Restart(p) PROVE Open'
      BY <1>24 DEF Restart, Fault
  <1>26. CASE SendUnnamed
    <2>1. s' = s /\ s.handle = 0 /\ work'.made = work.made /\ work.made = 0
        BY <1>26, SendUnnamedEffect
    <2> QED BY <2>1
  <1>25. CASE UNCHANGED vars
      BY <1>25 DEF vars
  <1> QED BY <1>1, <1>2, <1>3, <1>4, <1>5, <1>6, <1>7, <1>8, <1>9, <1>10, <1>11, <1>12,
             <1>13, <1>14, <1>15, <1>16, <1>17, <1>18, <1>19, <1>20, <1>21, <1>22, <1>23,
             <1>24, <1>25, <1>26
          DEF Next, Patcher

-----------------------------------------------------------------------------
(* A closed card stays closed *)

\* A card that says that its round is over never says again that it is
\* generating: no late running frame is written over a terminal one.
LEMMA ClosedStep ==
    Types /\ Counts /\ Blank /\ Ending /\ Open /\ [Next]_vars =>
        \A h \in Card : IsEnd(card[h].shown) => IsEnd(card'[h].shown)
  <1> SUFFICES ASSUME Types, Counts, Blank, Ending, Open, [Next]_vars,
                      NEW h \in Card, IsEnd(card[h].shown)
               PROVE  IsEnd(card'[h].shown)
      OBVIOUS
  <1>t. /\ work \in Work /\ MaxGen \in Nat /\ card[h].shown \in Frame /\ count \in Handle
      BY CardFields, Bounds DEF Types, WorkOK, CountOK
  <1>n. Drew => h # count + 1
      BY <1>t DEF Blank, Drew, NoFrame, Handle
  <1>1. CASE SendCard
      BY <1>1, <1>n, SendCardEffect DEF Drew
  <1>2. CASE SendFails
      BY <1>2, <1>n, SendFailsEffect DEF Drew
  <1>3. CASE UpdateCard
    <2>1. (UNCHANGED chat \/ Redrew(s.handle, work.frame)) /\ s.handle # 0 /\ work.step = "call"
        BY <1>3, UpdateCardEffect
    <2> QED BY <2>1, <1>t DEF Redrew, Ending, Open, Unended
  <1>4. CASE UpdateFails
    <2>1. /\ UNCHANGED card \/ Redrew(s.handle, work.frame) \/ (work.final /\ Redrew(s.handle, Minimal))
          /\ s.handle # 0 /\ work.step = "call"
        BY <1>4, UpdateFailsEffect
    <2> QED BY <2>1, <1>t DEF Redrew, Ending, Open, Unended
  <1>5. CASE SweepPatch
      BY <1>5, <1>t, SweepPatchEffect DEF Redrew
  <1>6. CASE UNCHANGED <<card, count>>
      BY <1>6
  <1>7. CASE SendUnnamed
      BY <1>7, <1>n, SendUnnamedEffect DEF Drew
  <1> QED BY <1>1, <1>2, <1>3, <1>4, <1>5, <1>6, <1>7, CardsStay

-----------------------------------------------------------------------------
(* The registered cards *)

\* A terminal frame that went well left its conclusion, or made a card entity;
\* the row is taken away only after that, or after the sweep closed the card.
Closing ==
    /\ work.step = "clear" => work.final /\ work.ok
    /\ work.step = "record" => work.made # NoCard /\ work.ok
    /\ work.step \in {"record", "clear", "commit"} /\ work.final /\ work.ok =>
          IF work.made # NoCard THEN card[work.made].shown = Conclusion \/ OnlyTemplate(work.made)
          ELSE \/ s.handle # NoCard /\ card[s.handle].shown = Conclusion
               \/ /\ s.handle = NoCard
                  /\ \E h \in Card : card[h].round = round /\ card[h].shown = Conclusion
    /\ consumer = "swept" => row # NoCard /\ card[row].shown = Interrupted

LEMMA ClosingInit == Init => Closing
  BY OffEffect DEF Init, Closing

LEMMA ClosingStep == Types /\ Counts /\ Blank /\ Ending /\ Open /\ Closing /\ [Next]_vars => Closing'
  <1> SUFFICES ASSUME Types, Counts, Blank, Ending, Open, Closing, [Next]_vars PROVE Closing'
      OBVIOUS
  <1> USE Bounds DEF Types, WorkOK, Work, Ending, Closing, OnlyTemplate
  <1>1. CASE StartRound
    <2>1. work'.step = "decide" /\ consumer' = "running"
        BY <1>1, OffTyped DEF StartRound, Work
    <2> QED BY <2>1
  <1>2. CASE Touch
      BY <1>2 DEF Touch
  <1>3. CASE CollectAck
      BY <1>3 DEF CollectAck, NeedsText
  <1>4. CASE SendText
      BY <1>4 DEF SendText, Fault
  <1>5. CASE Abandon
      BY <1>5 DEF Abandon
  <1>6. CASE Decide
      BY <1>6 DEF Decide, Goto, Dirty
  <1>7. CASE Rouse
      BY <1>7 DEF Rouse, Goto
  <1>8. CASE Tail
    <2>1. CASE Leave
      <3>1. work'.step = "off"
          BY <2>1, LeaveEffect
      <3>2. consumer' = consumer /\ row' = row /\ card' = card
          BY <1>8 DEF Tail
      <3> QED BY <3>1, <3>2
    <2>2. CASE ~Leave
        BY <2>2, <1>8 DEF Tail, TailDue
    <2> QED BY <2>1, <2>2
  <1>9. CASE Snapshot
      BY <1>9 DEF Snapshot
  <1>10. CASE SendCard
    <2>1. /\ Drew /\ SameWork /\ s' = s /\ s.handle = 0 /\ work'.made = count + 1
          /\ work'.step = "record" /\ work'.ok = TRUE /\ consumer' = consumer /\ work.step = "call"
        BY <1>10, SendCardEffect
    <2>2. work.final => work.frame = Conclusion
        BY <2>1 DEF Ending
    <2>3. consumer # "swept"
        BY <2>1 DEF Ending
    <2> QED BY <2>1, <2>2, <2>3 DEF Drew, SameWork
  <1>11. CASE SendFails
    <2>1. work'.step = "commit" /\ work'.ok = FALSE /\ consumer' = consumer /\ work.step = "call"
        BY <1>11, SendFailsEffect
    <2>2. consumer # "swept"
        BY <2>1 DEF Ending
    <2> QED BY <2>1, <2>2
  <1>12. CASE UpdateCard
    <2>1. /\ Redrew(s.handle, work.frame) \/ (~work.final /\ UNCHANGED chat)
          /\ SameWork /\ s' = s /\ work'.made = work.made
          /\ work'.step = (IF work.final THEN "clear" ELSE "commit") /\ work.step = "call"
          /\ work'.ok = TRUE /\ consumer' = consumer
        BY <1>12, UpdateCardEffect
    <2>3. s.handle # 0
      <3>1. s.handle \in Card
          BY <1>12 DEF UpdateCard
      <3> QED BY <3>1
    <2>2. consumer # "swept" /\ work.made = 0 /\ (work.final => work.frame = Conclusion)
        BY <2>1 DEF Ending
    <2> QED BY <2>1, <2>2, <2>3 DEF Redrew, SameWork
  <1>13. CASE UpdateFails
    <2>1. work'.step = "commit" /\ work'.ok = FALSE /\ consumer' = consumer /\ work.step = "call"
        BY <1>13, UpdateFailsEffect
    <2>2. consumer # "swept"
        BY <2>1 DEF Ending
    <2> QED BY <2>1, <2>2
  <1>14. CASE UpdateLost
      BY <1>14 DEF UpdateLost, Fault
  <1>15. CASE Record
      BY <1>15 DEF Record, Goto, AfterCall, Fault
  <1>16. CASE ClearRow
      BY <1>16 DEF ClearRow, Goto, Fault
  <1>17. CASE Commit
    <2>1. CASE Leave
      <3>1. work'.step = "off"
          BY <2>1, LeaveEffect
      <3>2. consumer' = consumer /\ row' = row /\ card' = card
          BY <1>17, CommitEffect
      <3> QED BY <3>1, <3>2
    <2>2. CASE ~Leave
      <3>1. work'.step \in {"tail", "decide"} /\ consumer' = consumer /\ row' = row /\ card' = card
          BY <1>17, <2>2, CommitEffect
      <3> QED BY <3>1
    <2> QED BY <2>1, <2>2
  <1>18. CASE Crash
      BY <1>18, OffEffect DEF Crash
  <1>19. CASE SweepVoid
      BY <1>19 DEF SweepVoid, Fault
  <1>20. CASE SweepPatch
    <2>1. work.step = "off" /\ work' = work
        BY <1>20, SweepPatchEffect DEF Ending
    <2>2. row' = row /\ row # 0 /\ (consumer' = "none" \/ card'[row].shown = Interrupted)
        BY <1>20, SweepPatchEffect DEF Redrew
    <2> QED BY <2>1, <2>2
  <1>21. CASE SweepClear
      BY <1>21 DEF SweepClear, Fault
  <1>22. ASSUME NEW length \in {"empty", "short", "long"}, Finalize(length) PROVE Closing'
      BY <1>22 DEF Finalize, FinalWake
  <1>23. ASSUME NEW h \in Card, DeleteCard(h) PROVE Closing'
      BY <1>23 DEF DeleteCard, Fault
  <1>24. ASSUME NEW p \in Platform, Restart(p) PROVE Closing'
      BY <1>24 DEF Restart, Fault
  <1>26. CASE SendUnnamed
    <2>1. /\ Drew /\ card'[count + 1].shown = work.frame /\ SameWork /\ s' = s /\ round' = round
          /\ s.handle = NoCard
          /\ work'.step = (IF work.final THEN "clear" ELSE "commit") /\ work.step = "call"
          /\ work'.ok = TRUE /\ work'.made = work.made /\ consumer' = consumer
        BY <1>26, SendUnnamedEffect
    <2>2. consumer # "swept" /\ work.made = 0 /\ (work.final => work.frame = Conclusion)
        BY <2>1 DEF Ending
    <2>3. work.final => (\E h \in Card : card[h].round = round /\ card[h].shown = Conclusion)'
        BY <2>1, <2>2 DEF Drew
    <2> QED BY <2>1, <2>2, <2>3 DEF SameWork
  <1>25. CASE UNCHANGED vars
      BY <1>25 DEF vars
  <1> QED BY <1>1, <1>2, <1>3, <1>4, <1>5, <1>6, <1>7, <1>8, <1>9, <1>10, <1>11, <1>12,
             <1>13, <1>14, <1>15, <1>16, <1>17, <1>18, <1>19, <1>20, <1>21, <1>22, <1>23,
             <1>24, <1>25, <1>26
          DEF Next, Patcher

LEMMA OrphanStep ==
    Types /\ Counts /\ Blank /\ Ending /\ Open /\ Closing /\ OrphanIsRegistered /\ [Next]_vars
        => OrphanIsRegistered'
  <1> SUFFICES ASSUME Types, Counts, Blank, Ending, Open, Closing, OrphanIsRegistered, [Next]_vars,
                      NEW h \in Card, Generating(h)'
               PROVE  (\/ row = h \/ h \in loose
                       \/ work.step = "record" /\ work.made = h
                       \/ OnlyTemplate(h))'
      BY DEF OrphanIsRegistered
  <1> USE Bounds
  <1>o. Generating(h) => \/ row = h \/ h \in loose
                         \/ work.step = "record" /\ work.made = h
                         \/ OnlyTemplate(h)
      BY DEF OrphanIsRegistered
  <1>t. work \in Work
      BY DEF Types, WorkOK
  <1>1. CASE SendCard
    <2>1. /\ Drew /\ work'.step = "record" /\ work'.made = count + 1 /\ work.step = "call"
          /\ row' = row /\ loose' = loose
        BY <1>1, SendCardEffect
    <2>2. CASE h = count + 1
        BY <2>1, <2>2
    <2>3. CASE h # count + 1
        BY <2>1, <2>3, <1>o DEF Drew, Generating, OnlyTemplate, Types, CountOK, Handle
    <2> QED BY <2>2, <2>3
  <1>2. CASE SendFails
    <2>1. /\ UNCHANGED <<chat, loose>> \/ (Drew /\ loose' = loose \cup {count + 1})
          /\ work.step = "call" /\ row' = row
        BY <1>2, SendFailsEffect
    <2>2. CASE UNCHANGED <<chat, loose>>
        BY <2>1, <2>2, <1>o DEF Generating, OnlyTemplate
    <2>3. CASE Drew /\ loose' = loose \cup {count + 1}
        BY <2>1, <2>3, <1>o DEF Drew, Generating, OnlyTemplate, Types, CountOK, Handle
    <2> QED BY <2>1, <2>2, <2>3
  <1>3. CASE UpdateCard
    <2>1. /\ UNCHANGED chat \/ Redrew(s.handle, work.frame)
          /\ s.handle # 0 /\ row' = row /\ loose' = loose /\ work.step = "call"
        BY <1>3, UpdateCardEffect
    <2>2. Generating(h)
        BY <2>1 DEF Redrew, Generating, Open, Unended
    <2>3. OnlyTemplate(h) => OnlyTemplate(h)'
        BY <2>1, <1>t, CardFields DEF Redrew, OnlyTemplate, Ending, Generating
    <2> QED BY <2>1, <2>2, <2>3, <1>o
  <1>4. CASE UpdateFails
    <2>1. /\ UNCHANGED chat \/ Redrew(s.handle, work.frame) \/ (work.final /\ Redrew(s.handle, Minimal))
          /\ s.handle # 0 /\ row' = row /\ loose' = loose /\ work.step = "call" /\ UNCHANGED <<count, gone>>
        BY <1>4, UpdateFailsEffect
    <2>2. Generating(h)
        BY <2>1 DEF Redrew, Generating, Open, Unended
    <2>3. OnlyTemplate(h) => OnlyTemplate(h)'
        BY <2>1, <1>t, CardFields DEF Redrew, OnlyTemplate, Ending, Generating
    <2> QED BY <2>1, <2>2, <2>3, <1>o
  <1>5. CASE UpdateLost
    <2>1. UNCHANGED chat /\ s.handle \in gone /\ work.step = "call"
        BY <1>5 DEF UpdateLost
    <2>2. \/ row' = NoCard /\ loose' = loose \cup ({row} \ {NoCard, s.handle})
          \/ row' = row /\ loose' = loose
        BY <1>5 DEF UpdateLost
    <2> QED BY <2>1, <2>2, <1>o DEF Generating, OnlyTemplate
  <1>6. CASE Record
    <2>1. UNCHANGED chat /\ work.step = "record"
        BY <1>6 DEF Record
    <2>2. \/ row' = work.made /\ loose' = loose \cup ({row} \ {NoCard, work.made})
          \/ row' = row /\ loose' = loose \cup {work.made}
        BY <1>6 DEF Record
    <2> QED BY <2>1, <2>2, <1>o DEF Generating, OnlyTemplate
  <1>7. CASE ClearRow
    <2>1. UNCHANGED <<chat, s>> /\ work.step = "clear"
        BY <1>7 DEF ClearRow
    <2>2. \/ row' = NoCard /\ loose' = loose \cup ({row} \ {NoCard, s.handle, work.made})
          \/ row' = row /\ loose' = loose
        BY <1>7 DEF ClearRow
    <2>3. Generating(h) /\ (h = s.handle \/ h = work.made) => OnlyTemplate(h)
        BY <2>1 DEF Closing, Generating, Open
    <2> QED BY <2>1, <2>2, <2>3, <1>o DEF Generating, OnlyTemplate
  <1>8. CASE Crash
    <2>1. UNCHANGED <<chat, row>>
            /\ loose' = IF work.step = "record" THEN loose \cup {work.made} ELSE loose
        BY <1>8 DEF Crash
    <2> QED BY <2>1, <1>o DEF Generating, OnlyTemplate
  <1>9. CASE SweepVoid
    <2>1. /\ UNCHANGED <<chat, work>>
          /\ \/ UNCHANGED <<row, loose>>
             \/ row' = NoCard /\ loose' = loose \cup {row}
        BY <1>9 DEF SweepVoid
    <2> QED BY <2>1, <1>o DEF Generating, OnlyTemplate
  <1>10. CASE SweepPatch
    <2>1. /\ Redrew(row, Interrupted) \/ UNCHANGED chat
          /\ UNCHANGED <<row, loose, work, gone, count>> /\ row \in Card
        BY <1>10, SweepPatchEffect
    <2>2. CASE UNCHANGED chat
        BY <2>1, <2>2, <1>o DEF Generating, OnlyTemplate
    <2>3. CASE Redrew(row, Interrupted)
        BY <2>1, <2>3, <1>o DEF Redrew, Generating, OnlyTemplate
    <2> QED BY <2>1, <2>2, <2>3
  <1>11. CASE SweepClear
    <2>1. UNCHANGED <<chat, work, loose>> /\ (row' = NoCard \/ row' = row) /\ consumer = "swept"
        BY <1>11 DEF SweepClear
    <2>2. ~Generating(row)
        BY <2>1 DEF Closing, Generating
    <2> QED BY <2>1, <2>2, <1>o DEF Generating, OnlyTemplate
  <1>12. CASE \E k \in Card : DeleteCard(k)
    <2>1. UNCHANGED <<card, count, row, loose, work>> /\ gone \subseteq gone'
        BY <1>12 DEF DeleteCard
    <2> QED BY <2>1, <1>o DEF Generating, OnlyTemplate
  <1>13. CASE StartRound
    <2>1. UNCHANGED <<chat, row, loose>> /\ (work' = work \/ work.step # "record")
        BY <1>13 DEF StartRound
    <2> QED BY <2>1, <1>o DEF Generating, OnlyTemplate
  <1>14. CASE Touch
    <2>1. UNCHANGED <<chat, row, loose>> /\ (work' = work \/ work.step # "record")
        BY <1>14 DEF Touch
    <2> QED BY <2>1, <1>o DEF Generating, OnlyTemplate
  <1>15. CASE CollectAck
    <2>1. UNCHANGED <<chat, row, loose>> /\ (work' = work \/ work.step # "record")
        BY <1>15 DEF CollectAck
    <2> QED BY <2>1, <1>o DEF Generating, OnlyTemplate
  <1>16. CASE SendText
    <2>1. UNCHANGED <<chat, row, loose>> /\ (work' = work \/ work.step # "record")
        BY <1>16 DEF SendText
    <2> QED BY <2>1, <1>o DEF Generating, OnlyTemplate
  <1>17. CASE Abandon
    <2>1. UNCHANGED <<chat, row, loose>> /\ (work' = work \/ work.step # "record")
        BY <1>17 DEF Abandon
    <2> QED BY <2>1, <1>o DEF Generating, OnlyTemplate
  <1>18. CASE Decide
    <2>1. UNCHANGED <<chat, row, loose>> /\ (work' = work \/ work.step # "record")
        BY <1>18 DEF Decide
    <2> QED BY <2>1, <1>o DEF Generating, OnlyTemplate
  <1>19. CASE Rouse
    <2>1. UNCHANGED <<chat, row, loose>> /\ (work' = work \/ work.step # "record")
        BY <1>19 DEF Rouse
    <2> QED BY <2>1, <1>o DEF Generating, OnlyTemplate
  <1>20. CASE Tail
    <2>1. UNCHANGED <<chat, row, loose>> /\ (work' = work \/ work.step # "record")
        BY <1>20 DEF Tail, Leave
    <2> QED BY <2>1, <1>o DEF Generating, OnlyTemplate
  <1>21. CASE Snapshot
    <2>1. UNCHANGED <<chat, row, loose>> /\ (work' = work \/ work.step # "record")
        BY <1>21 DEF Snapshot
    <2> QED BY <2>1, <1>o DEF Generating, OnlyTemplate
  <1>22. CASE Commit
    <2>1. UNCHANGED <<chat, row, loose>> /\ work.step # "record"
        BY <1>22, CommitEffect DEF Commit
    <2> QED BY <2>1, <1>o DEF Generating, OnlyTemplate
  <1>23. CASE \E k \in {"empty", "short", "long"} : Finalize(k)
    <2>1. UNCHANGED <<chat, row, loose>> /\ (work' = work \/ work.step # "record")
        BY <1>23 DEF Finalize
    <2> QED BY <2>1, <1>o DEF Generating, OnlyTemplate
  <1>24. CASE \E k \in Platform : Restart(k)
    <2>1. UNCHANGED <<chat, row, loose>> /\ (work' = work \/ work.step # "record")
        BY <1>24 DEF Restart
    <2> QED BY <2>1, <1>o DEF Generating, OnlyTemplate
  <1>26. CASE SendUnnamed
    <2>1. Drew /\ loose' = loose \cup {count + 1} /\ work.step = "call" /\ row' = row
        BY <1>26, SendUnnamedEffect
    <2> QED BY <2>1, <1>o DEF Drew, Generating, OnlyTemplate, Types, CountOK, Handle
  <1>25. CASE UNCHANGED vars
      BY <1>25, <1>o DEF vars, Generating, OnlyTemplate
  <1> QED BY <1>1, <1>2, <1>3, <1>4, <1>5, <1>6, <1>7, <1>8, <1>9, <1>10, <1>11, <1>12,
             <1>13, <1>14, <1>15, <1>16, <1>17, <1>18, <1>19, <1>20, <1>21, <1>22, <1>23,
             <1>24, <1>25, <1>26
          DEF Next, Patcher

-----------------------------------------------------------------------------
(* Conclusions *)

OfThisRound ==
    /\ s.handle # NoCard => card[s.handle].round = round
    /\ work.made # NoCard => card[work.made].round = round
Had == \A h \in Card : card[h].shown = Conclusion => card[h].had

LEMMA OfThisRoundInit == Init => OfThisRound /\ Had
  BY Bounds, OffEffect DEF Init, OfThisRound, Had, NoFrame

LEMMA OfThisRoundStep == Types /\ Counts /\ Ending /\ Open /\ OfThisRound /\ [Next]_vars => OfThisRound'
  <1> SUFFICES ASSUME Types, Counts, Ending, Open, OfThisRound, [Next]_vars PROVE OfThisRound'
      OBVIOUS
  <1> USE Bounds DEF Types, SessionOK, WorkOK, Session, Work, OfThisRound
  <1>1. CASE StartRound
    <2>1. work'.made = 0 /\ s'.handle = 0
        BY <1>1, OffTyped, OffEffect DEF StartRound, Fresh, Work
    <2> QED BY <2>1
  <1>2. CASE Touch
      BY <1>2 DEF Touch
  <1>3. CASE CollectAck
      BY <1>3 DEF CollectAck, NeedsText
  <1>4. CASE SendText
      BY <1>4 DEF SendText, Fault
  <1>5. CASE Abandon
      BY <1>5 DEF Abandon
  <1>6. CASE Decide
      BY <1>6 DEF Decide, Goto, Dirty
  <1>7. CASE Rouse
      BY <1>7 DEF Rouse, Goto
  <1>8. CASE Tail
    <2>1. CASE Leave
      <3>1. s'.handle = 0 /\ work'.made = 0
          BY <2>1, LeaveEffect
      <3> QED BY <3>1
    <2>2. CASE ~Leave
        BY <2>2, <1>8 DEF Tail, TailDue
    <2> QED BY <2>1, <2>2
  <1>9. CASE Snapshot
      BY <1>9 DEF Snapshot
  <1>10. CASE SendCard
    <2>1. Drew /\ s' = s /\ s.handle = 0 /\ work'.made = count + 1 /\ round' = round
        BY <1>10, SendCardEffect
    <2> QED BY <2>1 DEF Drew
  <1>11. CASE SendFails
    <2>1. s' = s /\ s.handle = 0 /\ work'.made = work.made /\ work.made = 0
        BY <1>11, SendFailsEffect DEF Ending
    <2> QED BY <2>1
  <1>12. CASE UpdateCard
    <2>1. (UNCHANGED chat \/ Redrew(s.handle, work.frame)) /\ s' = s /\ work'.made = work.made /\ round' = round
        BY <1>12, UpdateCardEffect
    <2>2. work.made = 0
        BY <1>12 DEF UpdateCard, Ending
    <2> QED BY <2>1, <2>2 DEF Redrew
  <1>13. CASE UpdateFails
    <2>1. /\ UNCHANGED chat \/ Redrew(s.handle, work.frame) \/ (work.final /\ Redrew(s.handle, Minimal))
          /\ s' = s /\ work'.made = work.made /\ round' = round
        BY <1>13, UpdateFailsEffect
    <2>2. work.made = 0
        BY <1>13 DEF UpdateFails, Ending
    <2> QED BY <2>1, <2>2 DEF Redrew
  <1>14. CASE UpdateLost
      BY <1>14 DEF UpdateLost, Fault
  <1>15. CASE Record
      BY <1>15 DEF Record, Goto, AfterCall, Fault
  <1>16. CASE ClearRow
      BY <1>16 DEF ClearRow, Goto, Fault
  <1>17. CASE Commit
    <2>1. CASE Leave
      <3>1. s'.handle = 0 /\ work'.made = 0
          BY <2>1, LeaveEffect
      <3> QED BY <3>1
    <2>2. CASE ~Leave
        BY <1>17, <2>2, CommitEffect
    <2> QED BY <2>1, <2>2
  <1>18. CASE Crash
      BY <1>18, OffEffect DEF Crash
  <1>19. CASE SweepVoid
      BY <1>19 DEF SweepVoid, Fault
  <1>20. CASE SweepPatch
    <2>1. s' = s /\ work' = work /\ work.made = 0 /\ s.handle = 0
        BY <1>20, SweepPatchEffect DEF Ending
    <2> QED BY <2>1
  <1>21. CASE SweepClear
      BY <1>21 DEF SweepClear, Fault
  <1>22. ASSUME NEW length \in {"empty", "short", "long"}, Finalize(length) PROVE OfThisRound'
      BY <1>22 DEF Finalize, FinalWake
  <1>23. ASSUME NEW h \in Card, DeleteCard(h) PROVE OfThisRound'
      BY <1>23 DEF DeleteCard, Fault
  <1>24. ASSUME NEW p \in Platform, Restart(p) PROVE OfThisRound'
      BY <1>24 DEF Restart, Fault
  <1>26. CASE SendUnnamed
    <2>1. s' = s /\ s.handle = 0 /\ work'.made = work.made /\ work.made = 0
        BY <1>26, SendUnnamedEffect DEF Ending
    <2> QED BY <2>1
  <1>25. CASE UNCHANGED vars
      BY <1>25 DEF vars
  <1> QED BY <1>1, <1>2, <1>3, <1>4, <1>5, <1>6, <1>7, <1>8, <1>9, <1>10, <1>11, <1>12,
             <1>13, <1>14, <1>15, <1>16, <1>17, <1>18, <1>19, <1>20, <1>21, <1>22, <1>23,
             <1>24, <1>25, <1>26
          DEF Next, Patcher

LEMMA HadStep == Types /\ Had /\ [Next]_vars => Had'
  <1> SUFFICES ASSUME Types, Had, [Next]_vars PROVE Had'
      OBVIOUS
  <1>d. Drew => Had'
    <2> SUFFICES ASSUME Drew, NEW h \in Card, card'[h].shown = Conclusion PROVE card'[h].had
        BY DEF Had
    <2>1. CASE h # count + 1
        BY <2>1 DEF Drew, Had
    <2>2. CASE h = count + 1
      <3>1. Conclusion # 0 /\ IsEnd(Conclusion) = TRUE
          BY Bounds
      <3>2. card'[h].shown = work.frame /\ card'[h].had = IsEnd(work.frame)
          BY <2>2, <3>1 DEF Drew
      <3> HIDE DEF IsEnd, Conclusion
      <3> QED BY <3>1, <3>2
    <2> QED BY <2>1, <2>2
  <1>r. ASSUME NEW h \in Card, NEW f \in Frame, Redrew(h, f) PROVE Had'
    <2> SUFFICES ASSUME NEW k \in Card, card'[k].shown = Conclusion PROVE card'[k].had
        BY DEF Had
    <2>1. CASE k # h
        BY <2>1, <1>r DEF Redrew, Had
    <2>2. CASE k = h
        BY <2>2, <1>r DEF Redrew
    <2> QED BY <2>1, <2>2
  <1>f. work.frame \in Frame /\ Minimal \in Frame /\ Interrupted \in Frame
      BY Numbers, Bounds DEF Types, WorkOK, Work
  <1>1. CASE SendCard
      BY <1>1, <1>d, SendCardEffect
  <1>2. CASE SendFails
      BY <1>2, <1>d, SendFailsEffect DEF Had
  <1>3. CASE UpdateCard
    <2>1. s.handle \in Card /\ (UNCHANGED chat \/ Redrew(s.handle, work.frame))
        BY <1>3, UpdateCardEffect
    <2> QED BY <2>1, <1>r, <1>f DEF Had
  <1>4. CASE UpdateFails
    <2>1. s.handle \in Card
        BY <1>4, UpdateFailsEffect
    <2>2. UNCHANGED chat \/ Redrew(s.handle, work.frame) \/ Redrew(s.handle, Minimal)
        BY <1>4, UpdateFailsEffect
    <2> QED BY <2>1, <2>2, <1>r, <1>f DEF Had
  <1>5. CASE SweepPatch
    <2>1. row \in Card /\ (UNCHANGED card \/ Redrew(row, Interrupted))
        BY <1>5, SweepPatchEffect
    <2> QED BY <2>1, <1>r, <1>f DEF Had
  <1>6. CASE UNCHANGED <<card, count>>
      BY <1>6 DEF Had
  <1>7. CASE SendUnnamed
      BY <1>7, <1>d, SendUnnamedEffect
  <1> QED BY <1>1, <1>2, <1>3, <1>4, <1>5, <1>6, <1>7, CardsStay

\* The three marks that a conclusion leaves, the last two where the code loses it.
Marked(h) == \/ card[h].shown = Conclusion
             \/ OnlyTemplate(h)
             \/ card[h].had /\ card[h].shown = Interrupted
Concluded(r) == \E h \in Card : card[h].round = r /\ Marked(h)
Acked == work.ack = "ok" => Concluded(round)
Kept  == \A r \in Round : text[r] = "card" => Concluded(r)

LEMMA ConcludedStays ==
    ASSUME Types, Counts, Blank, Ending, Open, Had, [Next]_vars, NEW r, Concluded(r)
    PROVE  Concluded(r)'
  <1> USE Bounds
  <1>t. work \in Work /\ count \in Handle
      BY DEF Types, WorkOK, CountOK
  <1>h. PICK h \in Card : card[h].round = r /\ Marked(h)
      BY DEF Concluded
  <1>s. ASSUME card'[h] = card[h] PROVE Concluded(r)'
      BY <1>h, <1>s DEF Concluded, Marked, OnlyTemplate
  <1>d. Drew => Concluded(r)'
    <2>1. Drew => h # count + 1
        BY <1>t, <1>h DEF Blank, Drew, NoFrame, Marked, OnlyTemplate, Handle
    <2> QED BY <2>1, <1>s DEF Drew
  <1>u. ASSUME work.step = "call", s.handle # 0, NEW f, Redrew(s.handle, f) PROVE Concluded(r)'
    <2>1. Unended(s.handle) /\ s.handle \in Card
        BY <1>u DEF Open, Ending, Redrew
    <2>2. h # s.handle
        BY <1>h, <2>1, CardFields DEF Unended, Marked, OnlyTemplate
    <2> QED BY <2>2, <1>s, <1>u DEF Redrew
  <1>1. CASE SendCard
      BY <1>1, <1>d, SendCardEffect
  <1>2. CASE SendFails
      BY <1>2, <1>d, <1>s, SendFailsEffect
  <1>3. CASE UpdateCard
    <2>1. /\ s.handle \in Card /\ work.step = "call"
          /\ UNCHANGED chat \/ Redrew(s.handle, work.frame)
        BY <1>3, UpdateCardEffect
    <2> QED BY <2>1, <1>u, <1>s
  <1>4. CASE UpdateFails
    <2>1. s.handle \in Card /\ work.step = "call"
        BY <1>4, UpdateFailsEffect
    <2>2. UNCHANGED chat \/ Redrew(s.handle, work.frame) \/ Redrew(s.handle, Minimal)
        BY <1>4, UpdateFailsEffect
    <2> QED BY <2>1, <2>2, <1>u, <1>s
  <1>5. CASE SweepPatch
    <2>1. row \in Card /\ (UNCHANGED card \/ Redrew(row, Interrupted))
        BY <1>5, SweepPatchEffect
    <2>2. ASSUME Redrew(row, Interrupted), h = row PROVE Concluded(r)'
      <3>1. /\ card'[h].shown = Interrupted /\ card'[h].had = card[h].had
            /\ card'[h].round = card[h].round
            /\ card'[h].managed = card[h].managed /\ card'[h].first = card[h].first
          BY <2>2, CardFields DEF Redrew
      <3>2. card[h].shown = Conclusion => card[h].had
          BY DEF Had
      <3>3. Marked(h)'
          BY <3>1, <3>2, <1>h DEF Marked, OnlyTemplate
      <3> QED BY <3>1, <3>3, <1>h DEF Concluded
    <2> QED BY <2>1, <2>2, <1>s DEF Redrew
  <1>6. CASE UNCHANGED <<card, count>>
      BY <1>6, <1>s
  <1>7. CASE SendUnnamed
      BY <1>7, <1>d, SendUnnamedEffect
  <1> QED BY <1>1, <1>2, <1>3, <1>4, <1>5, <1>6, <1>7, CardsStay

LEMMA AckedStep ==
    Types /\ Counts /\ Blank /\ Ending /\ Open /\ Closing /\ OfThisRound /\ Had /\ Acked /\ [Next]_vars
        => Acked'
  <1> SUFFICES ASSUME Types, Counts, Blank, Ending, Open, Closing, OfThisRound, Had, Acked, [Next]_vars,
                      work'.ack = "ok"
               PROVE  Concluded(round)'
      BY DEF Acked
  <1>t. work \in Work
      BY DEF Types, WorkOK
  <1>s. ASSUME work'.ack = work.ack, round' = round PROVE Concluded(round)'
    <2>1. Concluded(round)
        BY <1>s DEF Acked
    <2> DEFINE r == round
    <2>2. Concluded(r)
        BY <2>1
    <2> HIDE DEF r
    <2>3. \E h \in Card : card'[h].round = r /\ Marked(h)'
        BY <2>2, ConcludedStays DEF Concluded
    <2> QED BY <2>3, <1>s DEF r, Concluded
  <1>1. CASE StartRound
    <2>1. work'.ack = "none"
        BY <1>1, OffTyped, OffEffect DEF StartRound, Work
    <2> QED BY <2>1
  <1>2. CASE Tail
    <2>1. round' = round /\ work'.ack = work.ack
        BY <1>2, <1>t, LeaveEffect DEF Tail, Work
    <2> QED BY <2>1, <1>s
  <1>3. CASE SendCard
      BY <1>3, <1>s, SendCardEffect DEF SameWork
  <1>4. CASE SendFails
      BY <1>4, <1>s, SendFailsEffect DEF SameWork
  <1>5. CASE UpdateCard
      BY <1>5, <1>s, UpdateCardEffect DEF SameWork
  <1>6. CASE UpdateFails
      BY <1>6, <1>s, UpdateFailsEffect DEF SameWork
  <1>7. CASE Commit
    <2>0. round' = round /\ card' = card /\ count' = count /\ work.step = "commit"
        BY <1>7, CommitEffect DEF Commit
    <2>1. CASE work.final
      <3>1. work.ok
          BY <1>7, <2>1, CommitEffect
      <3>2. CASE work.made # NoCard
        <4>1. work.made \in Card /\ card[work.made].round = round /\ Marked(work.made)
            BY <2>0, <2>1, <3>1, <3>2, <1>t, Bounds DEF Closing, OfThisRound, Marked, Work, Handle
        <4> QED BY <4>1, <2>0 DEF Concluded, Marked, OnlyTemplate
      <3>4. CASE s.handle = NoCard /\ \E h \in Card : card[h].round = round /\ card[h].shown = Conclusion
          BY <2>0, <3>4 DEF Concluded, Marked
      <3>3. CASE work.made = NoCard /\ s.handle # NoCard
        <4>1. s.handle \in Card /\ card[s.handle].round = round /\ Marked(s.handle)
            BY <2>0, <2>1, <3>1, <3>3, Bounds DEF Closing, OfThisRound, Marked, Types, SessionOK, Session, Handle
        <4> QED BY <4>1, <2>0 DEF Concluded, Marked, OnlyTemplate
      <3> QED BY <2>0, <2>1, <3>1, <3>2, <3>3, <3>4 DEF Closing
    <2>2. CASE ~work.final
      <3>1. work'.ack = work.ack
          BY <1>7, <2>2, CommitEffect, LeaveEffect
      <3> QED BY <2>0, <3>1, <1>s
    <2> QED BY <2>1, <2>2
  <1>8. CASE Crash
      BY <1>8, OffEffect DEF Crash
  <1>9. CASE SweepPatch
      BY <1>9, <1>s, SweepPatchEffect
  <1>10. CASE Touch
    <2>1. round' = round /\ work'.ack = work.ack
        BY <1>10, <1>t DEF Touch, Goto, Work
    <2> QED BY <2>1, <1>s
  <1>11. CASE CollectAck
    <2>1. round' = round /\ work'.ack = work.ack
        BY <1>11, <1>t DEF CollectAck, Goto, Work
    <2> QED BY <2>1, <1>s
  <1>12. CASE SendText
    <2>1. round' = round /\ work'.ack = work.ack
        BY <1>12, <1>t DEF SendText, Goto, Work
    <2> QED BY <2>1, <1>s
  <1>13. CASE Abandon
    <2>1. round' = round /\ work'.ack = work.ack
        BY <1>13, <1>t DEF Abandon, Goto, Work
    <2> QED BY <2>1, <1>s
  <1>14. CASE Decide
    <2>1. round' = round /\ work'.ack = work.ack
        BY <1>14, <1>t DEF Decide, Goto, Work
    <2> QED BY <2>1, <1>s
  <1>15. CASE Rouse
    <2>1. round' = round /\ work'.ack = work.ack
        BY <1>15, <1>t DEF Rouse, Goto, Work
    <2> QED BY <2>1, <1>s
  <1>16. CASE Snapshot
    <2>1. round' = round /\ work'.ack = work.ack
        BY <1>16, <1>t DEF Snapshot, Goto, Work
    <2> QED BY <2>1, <1>s
  <1>17. CASE UpdateLost
    <2>1. round' = round /\ work'.ack = work.ack
        BY <1>17, <1>t DEF UpdateLost, Goto, Work
    <2> QED BY <2>1, <1>s
  <1>18. CASE Record
    <2>1. round' = round /\ work'.ack = work.ack
        BY <1>18, <1>t DEF Record, Goto, Work
    <2> QED BY <2>1, <1>s
  <1>19. CASE ClearRow
    <2>1. round' = round /\ work'.ack = work.ack
        BY <1>19, <1>t DEF ClearRow, Goto, Work
    <2> QED BY <2>1, <1>s
  <1>20. CASE SweepVoid
    <2>1. round' = round /\ work'.ack = work.ack
        BY <1>20, <1>t DEF SweepVoid, Goto, Work
    <2> QED BY <2>1, <1>s
  <1>21. CASE SweepClear
    <2>1. round' = round /\ work'.ack = work.ack
        BY <1>21, <1>t DEF SweepClear, Goto, Work
    <2> QED BY <2>1, <1>s
  <1>22. CASE \E k \in {"empty", "short", "long"} : Finalize(k)
    <2>1. round' = round /\ work'.ack = work.ack
        BY <1>22, <1>t DEF Finalize, Goto, Work
    <2> QED BY <2>1, <1>s
  <1>23. CASE \E k \in Card : DeleteCard(k)
    <2>1. round' = round /\ work'.ack = work.ack
        BY <1>23, <1>t DEF DeleteCard, Goto, Work
    <2> QED BY <2>1, <1>s
  <1>24. CASE \E k \in Platform : Restart(k)
    <2>1. round' = round /\ work'.ack = work.ack
        BY <1>24, <1>t DEF Restart, Goto, Work
    <2> QED BY <2>1, <1>s
  <1>26. CASE SendUnnamed
      BY <1>26, <1>s, SendUnnamedEffect DEF SameWork
  <1>25. CASE UNCHANGED vars
      BY <1>25, <1>s DEF vars
  <1> QED BY <1>1, <1>2, <1>3, <1>4, <1>5, <1>6, <1>7, <1>8, <1>9, <1>10, <1>11, <1>12,
             <1>13, <1>14, <1>15, <1>16, <1>17, <1>18, <1>19, <1>20, <1>21, <1>22, <1>23,
             <1>24, <1>25, <1>26
          DEF Next, Patcher

LEMMA KeptStep ==
    Types /\ Counts /\ Blank /\ Ending /\ Open /\ Had /\ Acked /\ Kept /\ [Next]_vars => Kept'
  <1> SUFFICES ASSUME Types, Counts, Blank, Ending, Open, Had, Acked, Kept, [Next]_vars,
                      NEW r \in Round, text'[r] = "card"
               PROVE  Concluded(r)'
      BY DEF Kept
  <1>1. Concluded(r) => Concluded(r)'
      BY ConcludedStays
  <1>2. CASE text' = text
      BY <1>1, <1>2 DEF Kept
  <1>t. text \in [Round -> {"open", "none", "card", "sent", "failed"}]
          /\ said \in {"nothing", "empty", "short", "long"} /\ work.ack \in {"none", "ok", "failed"}
      BY AckTyped DEF Types, PlainOK
  <1>3. CASE CollectAck
    <2>1. CASE r = round
      <3>1. text'[r] = "card" => text' = text \/ work.ack = "ok"
          BY <1>3, <1>t, <2>1 DEF CollectAck, NeedsText
      <3> QED BY <3>1, <1>1, <1>2, <2>1 DEF Acked
    <2>2. CASE r # round
      <3>1. text'[r] = text[r]
          BY <1>3, <1>t, <2>2 DEF CollectAck
      <3> QED BY <3>1, <1>1 DEF Kept
    <2> QED BY <2>1, <2>2
  <1>4. CASE SendText
    <2>1. text'[r] = text[r]
        BY <1>4, <1>t DEF SendText
    <2> QED BY <2>1, <1>1 DEF Kept
  <1>5. text' = text \/ CollectAck \/ SendText
    <2>1. CASE StartRound
        BY <2>1 DEF StartRound
    <2>2. CASE Touch
        BY <2>2 DEF Touch
    <2>3. CASE Abandon
        BY <2>3 DEF Abandon
    <2>4. CASE Decide
        BY <2>4 DEF Decide
    <2>5. CASE Rouse
        BY <2>5 DEF Rouse
    <2>6. CASE Tail
        BY <2>6 DEF Tail
    <2>7. CASE Snapshot
        BY <2>7 DEF Snapshot
    <2>8. CASE SendCard
        BY <2>8 DEF SendCard
    <2>9. CASE SendFails
        BY <2>9 DEF SendFails
    <2>10. CASE UpdateCard
        BY <2>10 DEF UpdateCard
    <2>11. CASE UpdateFails
        BY <2>11 DEF UpdateFails
    <2>12. CASE UpdateLost
        BY <2>12 DEF UpdateLost
    <2>13. CASE Record
        BY <2>13 DEF Record
    <2>14. CASE ClearRow
        BY <2>14 DEF ClearRow
    <2>15. CASE Commit
        BY <2>15, CommitEffect DEF Commit
    <2>16. CASE Crash
        BY <2>16 DEF Crash
    <2>17. CASE SweepVoid
        BY <2>17 DEF SweepVoid
    <2>18. CASE SweepPatch
        BY <2>18 DEF SweepPatch
    <2>19. CASE SweepClear
        BY <2>19 DEF SweepClear
    <2>20. CASE \E k \in {"empty", "short", "long"} : Finalize(k)
        BY <2>20 DEF Finalize
    <2>21. CASE \E k \in Card : DeleteCard(k)
        BY <2>21 DEF DeleteCard
    <2>22. CASE \E k \in Platform : Restart(k)
        BY <2>22 DEF Restart
    <2>23. CASE UNCHANGED vars
        BY <2>23 DEF vars
    <2>24. CASE SendUnnamed
        BY <2>24 DEF SendUnnamed
    <2> QED BY <2>1, <2>2, <2>3, <2>4, <2>5, <2>6, <2>7, <2>8, <2>9, <2>10, <2>11, <2>12,
               <2>13, <2>14, <2>15, <2>16, <2>17, <2>18, <2>19, <2>20, <2>21, <2>22, <2>23,
               <2>24
            DEF Next, Patcher
  <1> QED BY <1>2, <1>3, <1>4, <1>5

-----------------------------------------------------------------------------
(* The latest event *)

Shows(h, f) == \/ card[h].shown = f
               \/ card[h].managed /\ card[h].first = f /\ card[h].shown = Template
               \/ card[h].managed /\ dropped = f
Running(steps) == work.step \in steps /\ ~work.final /\ ~work.last
\* A running frame in the hands of the patcher is for an event that is not yet
\* flushed, and shows this or a later one.
Latest ==
    /\ Running({"snapshot", "call", "record", "commit"}) => s.flushed < work.snap /\ work.snap <= s.gen
    /\ Running({"call", "record", "commit"}) => work.snap <= work.frame /\ work.frame <= s.gen
    /\ Running({"record", "commit"}) /\ work.ok =>
          IF work.made # NoCard THEN Shows(work.made, work.frame)
          ELSE s.handle # NoCard => Shows(s.handle, work.frame)
    /\ work.step \in {"decide", "idle"} /\ ~Dirty /\ work.ok /\ s.handle # NoCard =>
          Shows(s.handle, s.gen)
    /\ work.last => ~work.final /\ work.step \in {"snapshot", "call", "record", "commit"}

LEMMA LatestInit == Init => Latest
  BY OffEffect DEF Init, Latest, Running

LEMMA LatestStep == Types /\ Counts /\ Ending /\ Open /\ Closing /\ Latest /\ [Next]_vars => Latest'
  <1> SUFFICES ASSUME Types, Counts, Ending, Open, Closing, Latest, [Next]_vars PROVE Latest'
      OBVIOUS
  <1> USE Bounds DEF Types, SessionOK, WorkOK, Session, Work, Latest, Running, Shows, Dirty
  <1>1. CASE StartRound
    <2>1. work'.step = "decide" /\ s'.handle = 0 /\ work'.last = FALSE
        BY <1>1, OffTyped, OffEffect DEF StartRound, Fresh, Work
    <2> QED BY <2>1
  <1>2. CASE Touch
    <2>1. s'.gen = s.gen + 1 /\ s'.flushed = s.flushed /\ s'.handle = s.handle
            /\ UNCHANGED <<work, card, dropped>>
        BY <1>2 DEF Touch
    <2> QED BY <2>1 DEF Counts
  <1>3. CASE CollectAck
      BY <1>3 DEF CollectAck, NeedsText
  <1>4. CASE SendText
      BY <1>4 DEF SendText, Fault
  <1>5. CASE Abandon
      BY <1>5 DEF Abandon
  <1>6. CASE Decide
    <2>1. card' = card /\ work'.last = work.last /\ work'.ok = work.ok /\ s'.gen = s.gen
            /\ s'.flushed = s.flushed /\ s'.handle = s.handle /\ dropped' = dropped
        BY <1>6 DEF Decide, Goto
    <2>2. \/ work'.step = "snapshot" /\ work'.final = TRUE
          \/ work'.step = "snapshot" /\ Dirty /\ work'.snap = s.gen
          \/ work'.step = "idle"
        BY <1>6 DEF Decide, Goto
    <2>3. work.step = "decide" /\ ~work.last
        BY <1>6 DEF Decide
    <2>4. s.flushed <= s.gen
        BY DEF Counts
    <2> QED BY <2>1, <2>2, <2>3, <2>4
  <1>7. CASE Rouse
      BY <1>7 DEF Rouse, Goto
  <1>8. CASE Tail
    <2>1. CASE Leave
      <3>1. work'.step = "off" /\ work'.last = FALSE
          BY <2>1, LeaveEffect
      <3> QED BY <3>1
    <2>2. CASE ~Leave
        BY <2>2, <1>8 DEF Tail, TailDue
    <2> QED BY <2>1, <2>2
  <1>9. CASE Snapshot
      BY <1>9 DEF Snapshot
  <1>10. CASE SendCard
    <2>1. /\ Drew /\ SameWork /\ s' = s /\ work'.made = count + 1 /\ work'.step = "record"
          /\ work.step = "call"
        BY <1>10, SendCardEffect
    <2> QED BY <2>1 DEF Drew, SameWork
  <1>11. CASE SendFails
    <2>1. SameWork /\ s' = s /\ work'.step = "commit" /\ work'.ok = FALSE /\ work.step = "call"
        BY <1>11, SendFailsEffect
    <2> QED BY <2>1 DEF SameWork
  <1>12. CASE UpdateCard
    <2>1. /\ \/ Redrew(s.handle, work.frame)
             \/ ~work.final /\ UNCHANGED chat /\ dropped' = work.frame /\ card[s.handle].managed
          /\ s.handle \in Card /\ SameWork /\ s' = s /\ work'.made = work.made
          /\ work'.step = (IF work.final THEN "clear" ELSE "commit") /\ work.step = "call"
        BY <1>12, UpdateCardEffect
    <2>2. work.made = 0
        BY <2>1 DEF Ending
    <2> QED BY <2>1, <2>2 DEF Redrew, SameWork
  <1>13. CASE UpdateFails
    <2>1. SameWork /\ s' = s /\ work'.step = "commit" /\ work'.ok = FALSE /\ work.step = "call"
        BY <1>13, UpdateFailsEffect
    <2> QED BY <2>1 DEF SameWork
  <1>14. CASE UpdateLost
      BY <1>14 DEF UpdateLost, Fault
  <1>15. CASE Record
      BY <1>15 DEF Record, Goto, AfterCall, Fault
  <1>16. CASE ClearRow
    <2>1. work.final /\ ~work.last
        BY <1>16 DEF ClearRow, Closing
    <2>2. work'.final = work.final /\ work'.last = work.last /\ work'.step = "commit"
        BY <1>16 DEF ClearRow, Goto
    <2> QED BY <2>1, <2>2
  <1>17. CASE Commit
    <2>1. CASE Leave
      <3>1. work'.step = "off" /\ work'.last = FALSE
          BY <2>1, LeaveEffect
      <3> QED BY <3>1
    <2>2. CASE work.final
      <3>1. work'.step = "tail" /\ work'.last = FALSE
          BY <1>17, <2>2, CommitEffect
      <3> QED BY <3>1
    <2>3. CASE ~Leave /\ ~work.final
      <3>1. /\ ~work.last /\ work'.step = "decide" /\ work'.last = FALSE
            /\ s'.gen = s.gen /\ work'.ok = work.ok
            /\ s'.handle = (IF work.made = 0 THEN s.handle ELSE work.made)
            /\ s'.flushed = (IF s.gen = work.snap THEN s.gen ELSE s.flushed)
          BY <1>17, <2>3, CommitEffect
      <3>2. card' = card /\ dropped' = dropped /\ work.step = "commit"
          BY <1>17 DEF Commit
      <3>3. s.flushed < work.snap /\ work.snap <= work.frame /\ work.frame <= s.gen
          BY <2>3, <3>1, <3>2
      <3>4. CASE s.gen = work.snap
        <4>1. work.frame = s.gen
            BY <3>3, <3>4
        <4>2. work'.ok /\ s'.handle # 0 => Shows(s'.handle, s.gen)
            BY <2>3, <3>1, <3>2, <4>1
        <4> QED BY <3>1, <3>2, <4>2
      <3>5. CASE s.gen # work.snap
          BY <3>1, <3>2, <3>3, <3>5 DEF Dirty
      <3> QED BY <3>4, <3>5
    <2> QED BY <2>1, <2>2, <2>3
  <1>18. CASE Crash
      BY <1>18, OffEffect DEF Crash
  <1>19. CASE SweepVoid
      BY <1>19 DEF SweepVoid, Fault
  <1>20. CASE SweepPatch
    <2>1. s' = s /\ work' = work /\ work.step = "off"
        BY <1>20, SweepPatchEffect DEF Ending
    <2> QED BY <2>1
  <1>21. CASE SweepClear
      BY <1>21 DEF SweepClear, Fault
  <1>22. ASSUME NEW length \in {"empty", "short", "long"}, Finalize(length) PROVE Latest'
      BY <1>22 DEF Finalize, FinalWake
  <1>23. ASSUME NEW h \in Card, DeleteCard(h) PROVE Latest'
      BY <1>23 DEF DeleteCard, Fault
  <1>24. ASSUME NEW p \in Platform, Restart(p) PROVE Latest'
      BY <1>24 DEF Restart, Fault
  <1>26. CASE SendUnnamed
    <2>1. /\ SameWork /\ s' = s /\ s.handle = 0 /\ work'.made = work.made /\ work.step = "call"
          /\ work'.step = (IF work.final THEN "clear" ELSE "commit")
        BY <1>26, SendUnnamedEffect
    <2>2. work.made = 0
        BY <2>1 DEF Ending
    <2> QED BY <2>1, <2>2 DEF SameWork
  <1>25. CASE UNCHANGED vars
      BY <1>25 DEF vars
  <1> QED BY <1>1, <1>2, <1>3, <1>4, <1>5, <1>6, <1>7, <1>8, <1>9, <1>10, <1>11, <1>12,
             <1>13, <1>14, <1>15, <1>16, <1>17, <1>18, <1>19, <1>20, <1>21, <1>22, <1>23,
             <1>24, <1>25, <1>26
          DEF Next, Patcher

-----------------------------------------------------------------------------
(* Theorems *)

IInv == /\ Types /\ Counts /\ Blank /\ Ending /\ Open /\ Closing
        /\ OfThisRound /\ Had /\ Acked /\ Latest

LEMMA IInvInit == Init => IInv
  <1>1. Init => Acked
      BY OffEffect DEF Init, Acked
  <1> QED BY <1>1, TypeInit, BlankInit, EndingInit, OpenInit, ClosingInit, OfThisRoundInit, LatestInit DEF IInv

LEMMA IInvStep == IInv /\ [Next]_vars => IInv'
  BY TypesStep, CountsStep, BlankStep, EndingStep, OpenStep, ClosingStep, OfThisRoundStep, HadStep,
     AckedStep, LatestStep DEF IInv

\* The inductive invariant: types, what the patcher has in its hands, and what
\* the cards it knows of show.
THEOREM CardInvariantHolds == Spec => []IInv
  BY IInvInit, IInvStep, PTL DEF Spec

\* Type correctness, with the bounds on the handles.
THEOREM CardTypeCorrect == Spec => []TypeOK
  <1>1. IInv => TypeOK
    <2> SUFFICES ASSUME IInv PROVE TypeOK
        OBVIOUS
    <2> USE Bounds DEF IInv, Types, Counts
    <2>7. dropped \in 0 .. Conclusion
        BY DEF DroppedOK, Framed
    <2>1. /\ count \in 0 .. MaxRounds + MaxFaults /\ row \in 0 .. count /\ gone \subseteq 1 .. count
          /\ loose \subseteq 0 .. count
        BY DEF CountOK, NamesOK, Handle
    <2>2. /\ s.handle \in 0 .. count /\ s.flushed <= s.gen
        BY DEF SessionOK, Session, CountOK, Handle
    <2>3. work.made \in 0 .. count
        BY DEF WorkOK, Work, CountOK, Handle
    <2>4. s \in [gen : 0 .. MaxGen, flushed : 0 .. MaxGen, final : BOOLEAN, finished : BOOLEAN,
                 handle : 0 .. count]
      <3> DEFINE G == 0 .. MaxGen  H == 0 .. count
      <3>1. s \in [gen : G, flushed : G, final : BOOLEAN, finished : BOOLEAN, handle : Handle]
          BY DEF SessionOK, Session
      <3>2. s.handle \in H
          BY <2>2
      <3> HIDE DEF G, H
      <3>3. s \in [gen : G, flushed : G, final : BOOLEAN, finished : BOOLEAN, handle : H]
          BY <3>1, <3>2
      <3> QED BY <3>3 DEF G, H
    <2>5. work \in [step : Steps, final : BOOLEAN, last : BOOLEAN, snap : 0 .. MaxGen,
                    frame : 0 .. Conclusion, ok : BOOLEAN, made : 0 .. count,
                    ack : {"none", "ok", "failed"}]
      <3> DEFINE G == 0 .. MaxGen  H == 0 .. count  F == 0 .. Conclusion
      <3>1. work \in [step : Steps, final : BOOLEAN, last : BOOLEAN, snap : G, frame : F, ok : BOOLEAN,
                      made : Handle, ack : {"none", "ok", "failed"}]
          BY DEF WorkOK, Work
      <3>2. work.made \in H
          BY <2>3
      <3> HIDE DEF G, H, F
      <3>3. work \in [step : Steps, final : BOOLEAN, last : BOOLEAN, snap : G, frame : F, ok : BOOLEAN,
                      made : H, ack : {"none", "ok", "failed"}]
          BY <3>1, <3>2
      <3> QED BY <3>3 DEF G, H, F
    <2>6. card \in [Card -> [round : 0 .. MaxRounds, platform : Platform, managed : BOOLEAN,
                             first : Frame, shown : Frame, had : BOOLEAN]]
        BY DEF CardsOK, Drawn
    <2> HIDE DEF Conclusion, Frame, Types, Counts, IInv
    <2>8. PlainOK
        BY DEF IInv, Types
    <2> QED BY <2>1, <2>2, <2>4, <2>5, <2>6, <2>7, <2>8 DEF TypeOK, PlainOK
  <1> QED BY <1>1, CardInvariantHolds, PTL

\* No update is lost: a patcher that sleeps with everything flushed has shown
\* the latest event.
THEOREM LastFrameShownHolds == Spec => []LastFrameShown
  <1>1. IInv => LastFrameShown
      BY DEF IInv, Latest, LastFrameShown, Shows
  <1> QED BY <1>1, CardInvariantHolds, PTL

\* A card that still says it is generating is registered for the sweep, or its
\* registration failed or was given up.
THEOREM OrphanIsRegisteredHolds == Spec => []OrphanIsRegistered
  <1>1. Init => OrphanIsRegistered
      BY Bounds DEF Init, OrphanIsRegistered, Generating
  <1>2. OrphanIsRegistered /\ IInv /\ [Next]_vars => OrphanIsRegistered'
      BY OrphanStep DEF IInv
  <1> QED BY <1>1, <1>2, CardInvariantHolds, PTL DEF Spec

\* A round that ended on its card left its conclusion there, except in the two
\* ways in which the code loses it.
THEOREM ConclusionIsKeptHolds == Spec => []ConclusionIsKept
  <1>1. Init => Kept
      BY DEF Init, Kept
  <1>2. Kept /\ IInv /\ [Next]_vars => Kept'
      BY KeptStep DEF IInv
  <1>3. Kept => ConclusionIsKept
      BY DEF Kept, ConclusionIsKept, Concluded, Marked, OnCard
  <1> QED BY <1>1, <1>2, <1>3, CardInvariantHolds, PTL DEF Spec

\* No late running frame is written over a terminal one.
THEOREM ClosedStaysClosedHolds == Spec => ClosedStaysClosed
  <1>1. IInv /\ [Next]_vars =>
            [\A h \in Card : IsEnd(card[h].shown) => IsEnd(card'[h].shown)]_vars
      BY ClosedStep DEF IInv
  <1> QED BY <1>1, CardInvariantHolds, PTL DEF Spec, ClosedStaysClosed

-----------------------------------------------------------------------------
(* The acknowledgement comes: no wake is lost, and each step of the patcher   *)
(* brings a waiting round closer to it.                                       *)

Active  == {"decide", "idle", "snapshot", "call", "record", "clear", "commit"}
Waiting == consumer = "waiting" /\ work.ack = "none"

\* A round that runs or waits has a patcher in its loop; one that waits has its
\* terminal frame on order or in the patcher's hands; and a patcher with
\* something to do does not sleep without a message in its wake channel.
Awaited ==
    /\ consumer = "running" =>
          work.step \in Active /\ ~work.final /\ ~work.last /\ work.ack = "none" /\ ~s.final
    /\ Waiting =>
          /\ work.step \in Active /\ ~work.last
          /\ IF work.final THEN work.step \notin {"decide", "idle"} ELSE s.final
    /\ work.step = "idle" /\ (s.final \/ Dirty) => wake

LEMMA AwaitedInit == Init => Awaited
  BY OffEffect DEF Init, Awaited, Waiting

LEMMA AwaitedStep == Types /\ Ending /\ Latest /\ Awaited /\ [Next]_vars => Awaited'
  <1> SUFFICES ASSUME Types, Ending, Latest, Awaited, [Next]_vars PROVE Awaited'
      OBVIOUS
  <1> USE DEF Types, SessionOK, WorkOK, PlainOK, Session, Work, Ending, Latest, Awaited, Waiting, Active, Dirty
  <1>1. CASE StartRound
    <2>1. /\ work'.step = "decide" /\ work'.final = FALSE /\ work'.last = FALSE /\ work'.ack = "none"
          /\ consumer' = "running" /\ s'.final = FALSE
        BY <1>1, OffTyped, OffEffect DEF StartRound, Fresh, Work
    <2> QED BY <2>1
  <1>2. CASE Touch
      BY <1>2 DEF Touch
  <1>3. CASE CollectAck
      BY <1>3 DEF CollectAck, NeedsText
  <1>4. CASE SendText
      BY <1>4 DEF SendText, Fault
  <1>5. CASE Abandon
      BY <1>5 DEF Abandon
  <1>6. CASE Decide
    <2>1. /\ consumer' = consumer /\ wake' = wake /\ work.step = "decide" /\ work'.ack = work.ack
          /\ work'.last = work.last
        BY <1>6 DEF Decide, Goto
    <2>2. \/ s.final /\ work'.step = "snapshot" /\ work'.final = TRUE /\ s'.final = FALSE
          \/ ~s.final /\ s' = s /\ work'.final = work.final
             /\ (work'.step = "snapshot" \/ (work'.step = "idle" /\ ~Dirty))
        BY <1>6 DEF Decide, Goto
    <2> QED BY <2>1, <2>2
  <1>7. CASE Rouse
      BY <1>7 DEF Rouse, Goto
  <1>8. CASE Tail
    <2>1. work.step = "tail" /\ consumer' = consumer
        BY <1>8 DEF Tail
    <2>2. work'.ack = work.ack /\ work'.step \in {"off", "snapshot"}
      <3>1. CASE Leave
          BY <3>1, LeaveEffect
      <3>2. CASE ~Leave
          BY <3>2, <1>8 DEF Tail
      <3> QED BY <3>1, <3>2
    <2> QED BY <2>1, <2>2
  <1>9. CASE Snapshot
      BY <1>9 DEF Snapshot
  <1>10. CASE SendCard
      BY <1>10 DEF SendCard
  <1>11. CASE SendFails
      BY <1>11 DEF SendFails, Fault
  <1>12. CASE UpdateCard
      BY <1>12 DEF UpdateCard, AfterCall
  <1>13. CASE UpdateFails
      BY <1>13 DEF UpdateFails, AfterCall, Fault
  <1>14. CASE UpdateLost
      BY <1>14 DEF UpdateLost, Fault
  <1>15. CASE Record
      BY <1>15 DEF Record, Goto, AfterCall, Fault
  <1>16. CASE ClearRow
      BY <1>16 DEF ClearRow, Goto, Fault
  <1>17. CASE Commit
    <2>1. consumer' = consumer /\ wake' = wake /\ work.step = "commit"
        BY <1>17, CommitEffect DEF Commit
    <2>2. CASE work.final
      <3>1. work'.step = "tail" /\ work'.ack # "none"
          BY <1>17, <2>2, CommitEffect
      <3> QED BY <2>1, <2>2, <3>1
    <2>3. CASE ~work.final /\ work.last
        BY <1>17, <2>1, <2>3, CommitEffect, LeaveEffect
    <2>4. CASE ~work.final /\ ~work.last
      <3>1. /\ work'.step = "decide" /\ work'.final = FALSE /\ work'.last = FALSE /\ work'.ack = work.ack
          BY <1>17, <2>4, CommitEffect
      <3>2. s'.final = s.final
        <4>1. ~Leave
            BY <3>1, LeaveEffect
        <4> QED BY <1>17, <4>1, CommitEffect
      <3> QED BY <2>1, <2>4, <3>1, <3>2
    <2> QED BY <2>2, <2>3, <2>4
  <1>18. CASE Crash
      BY <1>18, OffEffect DEF Crash
  <1>19. CASE SweepVoid
      BY <1>19 DEF SweepVoid, Fault
  <1>20. CASE SweepPatch
      BY <1>20 DEF SweepPatch, Fault
  <1>21. CASE SweepClear
      BY <1>21 DEF SweepClear, Fault
  <1>22. ASSUME NEW length \in {"empty", "short", "long"}, Finalize(length) PROVE Awaited'
      BY <1>22 DEF Finalize, FinalWake
  <1>23. ASSUME NEW h \in Card, DeleteCard(h) PROVE Awaited'
      BY <1>23 DEF DeleteCard, Fault
  <1>24. ASSUME NEW p \in Platform, Restart(p) PROVE Awaited'
      BY <1>24 DEF Restart, Fault
  <1>26. CASE SendUnnamed
      BY <1>26 DEF SendUnnamed, AfterCall, Fault
  <1>25. CASE UNCHANGED vars
      BY <1>25 DEF vars
  <1> QED BY <1>1, <1>2, <1>3, <1>4, <1>5, <1>6, <1>7, <1>8, <1>9, <1>10, <1>11, <1>12,
             <1>13, <1>14, <1>15, <1>16, <1>17, <1>18, <1>19, <1>20, <1>21, <1>22, <1>23,
             <1>24, <1>25, <1>26
          DEF Next, Patcher

\* How many steps the patcher has left, at most, before a waiting round has its
\* acknowledgement: a running frame it holds, then the terminal one.
Left ==
    IF work.final
    THEN CASE work.step = "snapshot" -> 6
           [] work.step = "call"     -> IF s.handle = NoCard THEN 4 ELSE 5
           [] work.step = "record"   -> 3
           [] work.step = "clear"    -> 2
           [] work.step = "commit"   -> 1
    ELSE CASE work.step = "snapshot" -> 13
           [] work.step = "call"     -> IF s.handle = NoCard THEN 11 ELSE 12
           [] work.step = "record"   -> 10
           [] work.step = "commit"   -> 9
           [] work.step = "idle"     -> 8
           [] work.step = "decide"   -> 7

\* While a round waits, what another actor does leaves the patcher alone.
Closer ==
    Waiting /\ Waiting' =>
        \/ Patcher /\ Left' < Left
        \/ UNCHANGED <<s, wake, work>>

LEMMA LeftInRange == Types /\ Closing /\ Awaited => (Waiting => Left \in 1 .. 13)
  BY DEF Types, WorkOK, Work, Closing, Awaited, Waiting, Active, Left

LEMMA CloserStep == Types /\ Ending /\ Closing /\ Awaited /\ [Next]_vars => Closer
  <1> SUFFICES ASSUME Types, Ending, Closing, Awaited, [Next]_vars, Waiting, Waiting'
               PROVE  (Patcher /\ Left' < Left) \/ UNCHANGED <<s, wake, work>>
      BY DEF Closer
  <1> USE DEF Types, SessionOK, WorkOK, PlainOK, Session, Work, Ending, Closing, Awaited, Waiting, Active, Left,
             Patcher
  <1>1. CASE StartRound
      BY <1>1 DEF StartRound
  <1>2. CASE Touch
      BY <1>2 DEF Touch
  <1>3. CASE CollectAck
      BY <1>3 DEF CollectAck, NeedsText
  <1>4. CASE SendText
      BY <1>4 DEF SendText, Fault
  <1>5. CASE Abandon
      BY <1>5 DEF Abandon
  <1>6. CASE Decide
    <2>1. work.step = "decide" /\ ~work.final /\ s.final
        BY <1>6 DEF Decide
    <2>2. work'.step = "snapshot" /\ work'.final = TRUE
        BY <1>6, <2>1 DEF Decide
    <2> QED BY <1>6, <2>1, <2>2
  <1>7. CASE Rouse
    <2>1. work.step = "idle" /\ ~work.final
        BY <1>7 DEF Rouse
    <2>2. work'.step = "decide" /\ work'.final = work.final
        BY <1>7 DEF Rouse, Goto
    <2> QED BY <1>7, <2>1, <2>2
  <1>8. CASE Tail
      BY <1>8 DEF Tail
  <1>9. CASE Snapshot
      BY <1>9 DEF Snapshot
  <1>10. CASE SendCard
      BY <1>10 DEF SendCard
  <1>11. CASE SendFails
      BY <1>11 DEF SendFails, Fault
  <1>12. CASE UpdateCard
      BY <1>12 DEF UpdateCard, AfterCall
  <1>13. CASE UpdateFails
      BY <1>13 DEF UpdateFails, AfterCall, Fault
  <1>14. CASE UpdateLost
      BY <1>14 DEF UpdateLost, Fault
  <1>15. CASE Record
      BY <1>15 DEF Record, Goto, AfterCall, Fault
  <1>16. CASE ClearRow
      BY <1>16 DEF ClearRow, Goto, Fault
  <1>17. CASE Commit
    <2>1. work.step = "commit"
        BY <1>17 DEF Commit
    <2>2. CASE work.final
      <3>1. work'.ack # "none"
          BY <1>17, <2>2, CommitEffect
      <3> QED BY <3>1
    <2>3. CASE ~work.final
      <3>1. work'.step = "decide" /\ work'.final = FALSE
          BY <1>17, <2>3, CommitEffect
      <3> QED BY <1>17, <2>1, <2>3, <3>1
    <2> QED BY <2>2, <2>3
  <1>18. CASE Crash
      BY <1>18 DEF Crash
  <1>19. CASE SweepVoid
      BY <1>19 DEF SweepVoid, Fault
  <1>20. CASE SweepPatch
      BY <1>20 DEF SweepPatch, Fault
  <1>21. CASE SweepClear
      BY <1>21 DEF SweepClear, Fault
  <1>22. ASSUME NEW length \in {"empty", "short", "long"}, Finalize(length) PROVE UNCHANGED <<s, wake, work>>
      BY <1>22 DEF Finalize, FinalWake
  <1>23. ASSUME NEW h \in Card, DeleteCard(h) PROVE UNCHANGED <<s, wake, work>>
      BY <1>23 DEF DeleteCard, Fault
  <1>24. ASSUME NEW p \in Platform, Restart(p) PROVE UNCHANGED <<s, wake, work>>
      BY <1>24 DEF Restart, Fault
  <1>26. CASE SendUnnamed
    <2>1. /\ work.step = "call" /\ s.handle = NoCard /\ s' = s /\ work'.final = work.final
          /\ work'.step = (IF work.final THEN "clear" ELSE "commit")
        BY <1>26, SendUnnamedEffect DEF SameWork
    <2> QED BY <1>26, <2>1
  <1>25. CASE UNCHANGED vars
      BY <1>25 DEF vars
  <1> QED BY <1>1, <1>2, <1>3, <1>4, <1>5, <1>6, <1>7, <1>8, <1>9, <1>10, <1>11, <1>12,
             <1>13, <1>14, <1>15, <1>16, <1>17, <1>18, <1>19, <1>20, <1>21, <1>22, <1>23,
             <1>24, <1>25, <1>26
          DEF Next, Patcher

\* No wake is lost: a patcher that has an event to show or the end of the round
\* to mark is not asleep without a message in its wake channel, and a round in
\* finalize has its acknowledgement or a terminal frame on the way.
THEOREM NoWakeIsLost == Spec => []Awaited
  <1>1. Awaited /\ IInv /\ [Next]_vars => Awaited'
      BY AwaitedStep DEF IInv
  <1> QED BY <1>1, AwaitedInit, CardInvariantHolds, PTL DEF Spec

\* The acknowledgement is at most thirteen steps of the patcher away, each of
\* them brings it closer, and nothing else moves it: with the fairness of the
\* patcher this is why finalize returns, however calls fail or cards go.
THEOREM AckComesCloser == Spec => [](Waiting => Left \in 1 .. 13) /\ [][Closer]_vars
  <1>1. IInv /\ Awaited /\ [Next]_vars => [Closer]_vars
      BY CloserStep DEF IInv
  <1>2. IInv /\ Awaited => (Waiting => Left \in 1 .. 13)
      BY LeftInRange DEF IInv
  <1> QED BY <1>1, <1>2, NoWakeIsLost, CardInvariantHolds, PTL DEF Spec

=============================================================================
