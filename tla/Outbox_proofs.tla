---------------------------- MODULE Outbox_proofs ----------------------------
(* Theorems about Outbox: what was reported as sent went out or is kept,      *)
(* unless the channel of a client lost it, a chunk has no more copies than    *)
(* there are reasons for, and no row overtakes an older one on its first      *)
(* attempt.                                                                   *)
EXTENDS Outbox, FiniteSetTheorems, WellFoundedInduction, TLAPS

USE DEF live, past, process

LEMMA OutboxConstants ==
    /\ IsFiniteSet(Msg) /\ Nobody \notin Msg /\ Direct \subseteq Kind
    /\ \A m \in Msg : KindOf[m] \in Kind /\ Chunks[m] \in Nat /\ Chunks[m] >= 1
    /\ \A m \in Msg : KindOf[m] \in Direct => Chunks[m] = 1
    /\ \A kinds \in Config : kinds \subseteq Kind
    /\ MaxAttempts \in Nat /\ MaxAttempts >= 1 /\ Batch \in Nat /\ Batch >= 1
    /\ Hour \in Nat /\ MaxBackoff \in Nat /\ MaxBackoff >= 1 /\ Hour >= 1
    /\ MaxClock \in Nat /\ MaxFaults \in Nat
  BY OutboxAssumption

LEMMA LeastNumber == ASSUME NEW T, T \subseteq Nat, T # {} PROVE \E x \in T : \A y \in T : x <= y
  <1> DEFINE R == OpToRel(<, Nat)
  <1>1. IsWellFoundedOn(R, Nat)
      BY NatLessThanWellFounded
  <1>2. \A x, y \in Nat : x < y => <<x, y>> \in R
      BY DEF OpToRel
  <1> HIDE DEF R
  <1>3. PICK x \in T : \A y \in T : ~ (<<y, x>> \in R)
      BY <1>1, WFMin
  <1>4. \A y \in T : ~ (y < x)
      BY <1>2, <1>3
  <1> QED BY <1>4

-----------------------------------------------------------------------------
(* Types *)

Phases   == {"sleep", "next", "deliver", "sent", "failed"}
Pump     == [step : Phases, todo : SUBSET Msg, now : 0 .. MaxClock, row : Msg \cup {Nobody}, at : Nat]
RowSet   == [id : Nat, from : Nat \ {0}, tries : 0 .. MaxAttempts - 1, due : 0 .. MaxClock]
LiveOK ==
    /\ pc \in [Msg -> {"new", "send", "keep", "done"}] /\ told \in [Msg -> {"nothing", "ok", "error"}]
    /\ at \in [Msg -> Nat] /\ \A m \in Msg : at[m] \in 1 .. Chunks[m]
CarriedOK == out \in [Piece -> Nat] /\ queued \in [Piece -> Nat] /\ lost \subseteq Piece
StoreOK == row \in [Msg -> RowSet]
PumpOK  == pump \in [Kind -> Pump]
PlainOK ==
    /\ driven \subseteq Kind /\ open \subseteq Kind /\ up \in BOOLEAN
    /\ clock \in 0 .. MaxClock /\ faults \in 0 .. MaxFaults
    /\ attempted \subseteq Rows /\ spent \subseteq Msg /\ seen \subseteq Msg /\ doubts \in [Msg -> Nat]

\* Drivers work on rows of their own kind, and only while the process runs.
Busy(k) == pump[k].step \in {"deliver", "sent", "failed"}
Own(k) ==
    /\ pump[k].step # "sleep" => up /\ k \in driven
    /\ pump[k].step = "sleep" => pump[k].todo = {}
    /\ \A m \in pump[k].todo : m \in Rows /\ KindOf[m] = k
    /\ pump[k].now <= clock
    /\ Busy(k) => /\ pump[k].row \in Rows /\ pump[k].row \notin pump[k].todo
                  /\ KindOf[pump[k].row] = k
                  /\ row[pump[k].row].from <= pump[k].at
                  /\ pump[k].at <= Chunks[pump[k].row]
PumpsOwn == \A k \in Kind : Own(k)
RowsDone == \A m \in Rows : pc[m] = "done" /\ row[m].from <= Chunks[m]
Types == LiveOK /\ CarriedOK /\ StoreOK /\ PumpOK /\ PlainOK /\ PumpsOwn /\ RowsDone

LEMMA PieceOf ==
    /\ \A m \in Msg : \A i \in 1 .. Chunks[m] : <<m, i>> \in Piece /\ <<m, i>>[1] = m /\ <<m, i>>[2] = i
    /\ \A c \in Piece : c[1] \in Msg /\ c[2] \in 1 .. Chunks[c[1]] /\ c = <<c[1], c[2]>>
  BY DEF Piece

\* How often a chunk went out or is about to, and the chunks that went out or
\* got at least into a channel.
Copies == [c \in Piece |-> out[c] + queued[c]]
Gone   == {c \in Piece : out[c] > 0 \/ (~IsDirect(c[1]) /\ (queued[c] > 0 \/ c \in lost))}

LEMMA HandEffect ==
    ASSUME CarriedOK, NEW c \in Piece, Hand(c)
    PROVE  /\ CarriedOK' /\ c \in Gone' /\ Gone \subseteq Gone'
           /\ Copies'[c] = Copies[c] + 1 /\ \A d \in Piece : d # c => Copies'[d] = Copies[d]
  <1>1. CASE IsDirect(c[1])
    <2>1. out' = [out EXCEPT ![c] = @ + 1] /\ queued' = queued /\ lost' = lost
        BY <1>1 DEF Hand
    <2>2. out' \in [Piece -> Nat] /\ \A d \in Piece : out'[d] = IF d = c THEN out[c] + 1 ELSE out[d]
        BY <2>1 DEF CarriedOK
    <2>3. \A d \in Piece : out[d] \in Nat /\ queued[d] \in Nat
        BY DEF CarriedOK
    <2> QED BY <2>1, <2>2, <2>3 DEF CarriedOK, Gone, Copies, IsDirect
  <1>2. CASE ~IsDirect(c[1])
    <2>1. queued' = [queued EXCEPT ![c] = @ + 1] /\ out' = out /\ lost' = lost
        BY <1>2 DEF Hand
    <2>2. queued' \in [Piece -> Nat] /\ \A d \in Piece : queued'[d] = IF d = c THEN queued[c] + 1 ELSE queued[d]
        BY <2>1 DEF CarriedOK
    <2>3. \A d \in Piece : out[d] \in Nat /\ queued[d] \in Nat
        BY DEF CarriedOK
    <2> QED BY <1>2, <2>1, <2>2, <2>3 DEF CarriedOK, Gone, Copies, IsDirect
  <1> QED BY <1>1, <1>2

\* A client writes or loses a chunk of its channel.
LEMMA UnqueueEffect ==
    ASSUME CarriedOK, NEW c \in Piece, ClientSends(c) \/ ClientLoses(c)
    PROVE  CarriedOK' /\ Gone \subseteq Gone' /\ \A d \in Piece : Copies'[d] <= Copies[d]
  <1>1. queued[c] > 0 /\ queued' = [queued EXCEPT ![c] = @ - 1]
      BY DEF ClientSends, ClientLoses, Unqueued
  <1>2. \A d \in Piece : out[d] \in Nat /\ queued[d] \in Nat
      BY DEF CarriedOK
  <1>3. queued' \in [Piece -> Nat] /\ \A d \in Piece : queued'[d] = IF d = c THEN queued[c] - 1 ELSE queued[d]
      BY <1>1, <1>2 DEF CarriedOK
  <1>4. CASE out' = [out EXCEPT ![c] = @ + 1] /\ lost' = lost
    <2>1. out' \in [Piece -> Nat] /\ \A d \in Piece : out'[d] = IF d = c THEN out[c] + 1 ELSE out[d]
        BY <1>4 DEF CarriedOK
    <2> QED BY <1>1, <1>2, <1>3, <1>4, <2>1 DEF CarriedOK, Gone, Copies, IsDirect
  <1>5. CASE out' = out /\ lost' = lost \cup {c}
      BY <1>1, <1>2, <1>3, <1>5 DEF CarriedOK, Gone, Copies, IsDirect
  <1> QED BY <1>4, <1>5 DEF ClientSends, ClientLoses

LEMMA DropEffect ==
    ASSUME CarriedOK, NEW ms, Drop(ms)
    PROVE  CarriedOK' /\ Gone \subseteq Gone' /\ seen' = seen /\ \A d \in Piece : Copies'[d] <= Copies[d]
  <1>1. /\ queued' = [c \in Piece |-> IF c[1] \in ms THEN 0 ELSE queued[c]]
        /\ lost' = lost \cup {c \in Piece : c[1] \in ms /\ queued[c] > 0}
        /\ out' = out /\ seen' = seen
      BY DEF Drop
  <1>2. \A d \in Piece : out[d] \in Nat /\ queued[d] \in Nat
      BY DEF CarriedOK
  <1> QED BY <1>1, <1>2 DEF CarriedOK, Gone, Copies, IsDirect

LEMMA StillEffect ==
    ASSUME CarriedOK, UNCHANGED <<out, queued, lost>>
    PROVE  CarriedOK' /\ Gone' = Gone /\ Copies' = Copies
  BY DEF CarriedOK, Gone, Copies, IsDirect

LEMMA DoubtEffect ==
    ASSUME doubts \in [Msg -> Nat], NEW ms
    PROVE  Doubt(ms) \in [Msg -> Nat] /\ \A m \in Msg : Doubt(ms)[m] = IF m \in ms THEN doubts[m] + 1 ELSE doubts[m]
  BY DEF Doubt

\* Steps of the clients and of the platform leave the process alone.
Elsewhere == (\E m \in Msg : KeyExpires(m)) \/ \E c \in Piece : ClientSends(c) \/ ClientLoses(c)
LEMMA ElsewhereQuiet ==
    Elsewhere => UNCHANGED <<pc, at, told, row, pump, driven, open, up, clock, attempted, spent>>
  BY DEF Elsewhere, KeyExpires, ClientSends, ClientLoses

LEMMA RemoveEffect ==
    ASSUME StoreOK, NEW m \in Msg, Remove(m)
    PROVE  /\ StoreOK' /\ Rows' = Rows \ {m} /\ attempted' = attempted \ {m}
           /\ \A n \in Msg : n # m => row'[n] = row[n]
  <1>1. NoRow \in RowSet /\ NoRow.id = 0
      BY OutboxConstants DEF NoRow, RowSet
  <1>2. row' = [row EXCEPT ![m] = NoRow] /\ attempted' = attempted \ {m}
      BY DEF Remove
  <1>3. \A n \in Msg : row'[n] = IF n = m THEN NoRow ELSE row[n]
      BY <1>2 DEF StoreOK
  <1>4. StoreOK'
      BY <1>1, <1>2 DEF StoreOK
  <1> QED BY <1>1, <1>2, <1>3, <1>4 DEF Rows

LEMMA FailedEffect ==
    ASSUME StoreOK, NEW m \in Rows, NEW due \in 0 .. MaxClock, Failed(m, due)
    PROVE  /\ StoreOK' /\ \A n \in Msg : n # m => row'[n] = row[n]
           /\ \/ Rows' = Rows \ {m} /\ attempted' = attempted \ {m} /\ spent' = spent \cup {m}
              \/ /\ Rows' = Rows /\ attempted' = attempted \cup {m} /\ spent' = spent
                 /\ row'[m].id = row[m].id /\ row'[m].from = row[m].from
  <1>0. m \in Msg /\ row[m] \in RowSet
      BY DEF Rows, StoreOK
  <1>1. CASE Exhausted(row[m].tries + 1)
      BY <1>0, <1>1, RemoveEffect DEF Failed
  <1>2. CASE ~Exhausted(row[m].tries + 1)
    <2> DEFINE new == [row[m] EXCEPT !.tries = @ + 1, !.due = due]
    <2>1. row[m].tries + 1 \in 0 .. MaxAttempts - 1
        BY <1>0, <1>2, OutboxConstants DEF Exhausted, RowSet
    <2>2. new \in RowSet /\ new.id = row[m].id /\ new.from = row[m].from
        BY <1>0, <2>1 DEF RowSet
    <2>3. row' = [row EXCEPT ![m] = new] /\ attempted' = attempted \cup {m} /\ spent' = spent
        BY <1>2 DEF Failed
    <2> HIDE DEF new
    <2>4. \A n \in Msg : row'[n] = IF n = m THEN new ELSE row[n]
        BY <2>3 DEF StoreOK
    <2>5. StoreOK'
        BY <2>2, <2>3 DEF StoreOK
    <2> QED BY <1>0, <2>2, <2>3, <2>4, <2>5 DEF Rows
  <1> QED BY <1>1, <1>2

-----------------------------------------------------------------------------
(* Ids *)

Done == {m \in Msg : pc[m] = "done"}
Ids ==
    /\ \A a, b \in Rows : row[a].id = row[b].id => a = b
    /\ \A a \in Rows : row[a].id <= Cardinality(Done)

\* The id of a new row is larger than all others.
LEMMA NextIdFresh ==
    ASSUME StoreOK, Ids
    PROVE  /\ NextId \in Nat /\ NextId > 0 /\ \A b \in Rows : row[b].id < NextId
           /\ NextId <= Cardinality(Done) + 1
  <1> DEFINE N == Cardinality(Msg)  C == Cardinality(Done)
             S == {i \in 1 .. N : \E b \in Rows : row[b].id >= i}
  <1>1. IsFiniteSet(Msg) /\ N \in Nat
      BY OutboxConstants, FS_CardinalityType
  <1>2. C \in Nat /\ C <= N
      BY <1>1, FS_Subset, FS_CardinalityType DEF Done
  <1>3. IsFiniteSet(S) /\ Cardinality(S) \in Nat
    <2>1. IsFiniteSet(1 .. N) /\ S \subseteq 1 .. N
        BY <1>1, FS_Interval
    <2> QED BY <2>1, FS_Subset, FS_CardinalityType
  <1>4. \A b \in Rows : row[b].id \in Nat /\ row[b].id <= C
      BY DEF Ids, StoreOK, Rows, RowSet
  <1>5. Cardinality(S) <= C
    <2>1. S \subseteq 1 .. C
        BY <1>2, <1>4
    <2>2. IsFiniteSet(1 .. C) /\ Cardinality(1 .. C) = IF 1 > C THEN 0 ELSE C
        BY <1>2, FS_Interval
    <2>3. Cardinality(1 .. C) = C
        BY <1>2, <2>2
    <2> HIDE DEF S, C
    <2> QED BY <2>1, <2>2, <2>3, FS_Subset
  <1>6. ASSUME NEW b \in Rows PROVE row[b].id <= Cardinality(S)
    <2> DEFINE i == row[b].id
    <2>a. i \in Nat /\ i <= C
        BY <1>4, <1>6
    <2>b. i > 0
        BY <1>6 DEF Rows
    <2>1. i \in Nat /\ i <= N /\ i > 0
      <3> HIDE DEF i, C, N
      <3> QED BY <1>1, <1>2, <2>a, <2>b
    <2>2. 1 .. i \subseteq S
        BY <2>1, <1>1
    <2>3. Cardinality(1 .. i) = i
      <3>1. Cardinality(1 .. i) = IF 1 > i THEN 0 ELSE i - 1 + 1
          BY <2>1, FS_Interval
      <3> QED BY <2>1, <3>1
    <2> HIDE DEF S, i
    <2>4. Cardinality(1 .. i) <= Cardinality(S)
        BY <1>3, <2>2, FS_Subset
    <2> QED BY <2>3, <2>4 DEF i
  <1>7. NextId = 1 + Cardinality(S)
      BY DEF NextId
  <1> HIDE DEF S, C
  <1> QED BY <1>2, <1>3, <1>4, <1>5, <1>6, <1>7 DEF C

\* Rows with different ids are ordered, so a set of them has a first one.
LEMMA FirstOfLeast ==
    ASSUME StoreOK, Ids, NEW s \in SUBSET Rows, s # {}
    PROVE  FirstOf(s) \in s /\ \A b \in s \ {FirstOf(s)} : Earlier(FirstOf(s), b)
  <1>1. \A m \in s : m \in Rows /\ row[m].due \in Nat /\ row[m].id \in Nat
      BY OutboxConstants DEF StoreOK, Rows, RowSet
  <1> DEFINE D == {row[m].due : m \in s}
  <1>2. D \subseteq Nat /\ D # {}
      BY <1>1
  <1>3. PICK d \in D : \A e \in D : d <= e
      BY <1>2, LeastNumber
  <1> DEFINE I == {row[m].id : m \in {n \in s : row[n].due = d}}
  <1>4. I \subseteq Nat /\ I # {}
      BY <1>1, <1>3
  <1>5. PICK i \in I : \A j \in I : i <= j
      BY <1>4, LeastNumber
  <1>6. PICK m \in s : row[m].due = d /\ row[m].id = i
      BY <1>5
  <1>7. ASSUME NEW b \in s \ {m} PROVE Earlier(m, b)
    <2>1. d <= row[b].due
        BY <1>3
    <2>2. row[b].due = d => i <= row[b].id
        BY <1>5
    <2>3. row[b].id # i
        BY <1>6, <1>1 DEF Ids
    <2> QED BY <1>1, <1>3, <1>6, <2>1, <2>2, <2>3 DEF Earlier
  <1> QED BY <1>7 DEF FirstOf

-----------------------------------------------------------------------------
(* Types, one group of variables after the other *)

LEMMA LiveStep == LiveOK /\ [Next]_vars => LiveOK'
  <1> SUFFICES ASSUME LiveOK, [Next]_vars PROVE LiveOK'
      OBVIOUS
  <1> USE DEF LiveOK
  <1>1. ASSUME NEW m \in Msg, StartSend(m) PROVE LiveOK'
    <2>1. pc' \in [Msg -> {"new", "send", "keep", "done"}] /\ told' \in [Msg -> {"nothing", "ok", "error"}]
        BY <1>1 DEF StartSend, Goto
    <2>2. at' \in [Msg -> Nat] /\ \A n \in Msg : at'[n] \in 1 .. Chunks[n]
        BY <1>1, OutboxConstants DEF StartSend, Goto
    <2> QED BY <2>1, <2>2
  <1>2. ASSUME NEW m \in Msg, SendChunk(m) PROVE LiveOK'
    <2>1. pc' \in [Msg -> {"new", "send", "keep", "done"}] /\ told' \in [Msg -> {"nothing", "ok", "error"}]
        BY <1>2 DEF SendChunk, Tell, Goto
    <2>2. at' \in [Msg -> Nat] /\ \A n \in Msg : at'[n] \in 1 .. Chunks[n]
        BY <1>2, OutboxConstants DEF SendChunk, Tell, Goto
    <2> QED BY <2>1, <2>2
  <1>3. ASSUME NEW m \in Msg, SendUnclear(m) PROVE LiveOK'
    <2>1. pc' \in [Msg -> {"new", "send", "keep", "done"}] /\ told' \in [Msg -> {"nothing", "ok", "error"}]
        BY <1>3 DEF SendUnclear, Tell, Goto
    <2>2. at' \in [Msg -> Nat] /\ \A n \in Msg : at'[n] \in 1 .. Chunks[n]
        BY <1>3, OutboxConstants DEF SendUnclear, Tell, Goto
    <2> QED BY <2>1, <2>2
  <1>4. ASSUME NEW m \in Msg, SendRefused(m) PROVE LiveOK'
    <2>1. pc' \in [Msg -> {"new", "send", "keep", "done"}] /\ told' \in [Msg -> {"nothing", "ok", "error"}]
        BY <1>4 DEF SendRefused, Goto
    <2>2. at' \in [Msg -> Nat] /\ \A n \in Msg : at'[n] \in 1 .. Chunks[n]
        BY <1>4, OutboxConstants DEF SendRefused, Goto
    <2> QED BY <2>1, <2>2
  <1>5. ASSUME NEW m \in Msg, Keep(m) PROVE LiveOK'
    <2>1. pc' \in [Msg -> {"new", "send", "keep", "done"}] /\ told' \in [Msg -> {"nothing", "ok", "error"}]
        BY <1>5 DEF Keep, Tell, Goto
    <2>2. at' \in [Msg -> Nat] /\ \A n \in Msg : at'[n] \in 1 .. Chunks[n]
        BY <1>5, OutboxConstants DEF Keep, Tell, Goto
    <2> QED BY <2>1, <2>2
  <1>6. CASE Crash
    <2>1. pc' \in [Msg -> {"new", "send", "keep", "done"}] /\ told' \in [Msg -> {"nothing", "ok", "error"}]
        BY <1>6 DEF Crash
    <2>2. at' \in [Msg -> Nat] /\ \A n \in Msg : at'[n] \in 1 .. Chunks[n]
        BY <1>6, OutboxConstants DEF Crash
    <2> QED BY <2>1, <2>2
  <1>7. ASSUME NEW k \in Kind, Fetch(k) PROVE LiveOK'
      BY <1>7 DEF Fetch
  <1>8. ASSUME NEW k \in Kind, Take(k) PROVE LiveOK'
      BY <1>8 DEF Take
  <1>9. ASSUME NEW k \in Kind, DeliverChunk(k) PROVE LiveOK'
      BY <1>9 DEF DeliverChunk
  <1>10. ASSUME NEW k \in Kind, DeliverFails(k) PROVE LiveOK'
      BY <1>10 DEF DeliverFails
  <1>11. ASSUME NEW k \in Kind, MarkSent(k) PROVE LiveOK'
      BY <1>11 DEF MarkSent
  <1>12. ASSUME NEW k \in Kind, MarkFailed(k) PROVE LiveOK'
      BY <1>12 DEF MarkFailed
  <1>13. ASSUME NEW k \in Kind, ClientExits(k) PROVE LiveOK'
      BY <1>13 DEF ClientExits
  <1>14. CASE SweepRow
      BY <1>14 DEF SweepRow
  <1>15. CASE Tick
      BY <1>15 DEF Tick
  <1>16. ASSUME NEW kinds \in Config, Restart(kinds) PROVE LiveOK'
      BY <1>16 DEF Restart
  <1>17. CASE UNCHANGED vars
      BY <1>17 DEF vars
  <1>18. CASE Elsewhere
      BY <1>18, ElsewhereQuiet
  <1> QED BY <1>1, <1>2, <1>3, <1>4, <1>5, <1>6, <1>7, <1>8, <1>9, <1>10, <1>11, <1>12,
             <1>13, <1>14, <1>15, <1>16, <1>17, <1>18
          DEF Next, Driver, Elsewhere

LEMMA CarriedStep == LiveOK /\ CarriedOK /\ StoreOK /\ PumpOK /\ PumpsOwn /\ [Next]_vars => CarriedOK'
  <1> SUFFICES ASSUME LiveOK, CarriedOK, StoreOK, PumpOK, PumpsOwn, [Next]_vars PROVE CarriedOK'
      OBVIOUS
  <1>q. ASSUME UNCHANGED carried PROVE CarriedOK'
      BY <1>q DEF CarriedOK, carried
  <1>1. ASSUME NEW m \in Msg, StartSend(m) PROVE CarriedOK'
      BY <1>1, <1>q DEF StartSend
  <1>2. ASSUME NEW m \in Msg, SendChunk(m) PROVE CarriedOK'
    <2>1. <<m, at[m]>> \in Piece
        BY PieceOf DEF LiveOK
    <2>2. UNCHANGED <<out, queued, lost>> \/ Hand(<<m, at[m]>>)
        BY <1>2 DEF SendChunk
    <2> QED BY <2>1, <2>2, HandEffect, StillEffect
  <1>3. ASSUME NEW m \in Msg, SendUnclear(m) PROVE CarriedOK'
    <2>1. <<m, at[m]>> \in Piece
        BY PieceOf DEF LiveOK
    <2>2. UNCHANGED <<out, queued, lost>> \/ Hand(<<m, at[m]>>)
        BY <1>3 DEF SendUnclear
    <2> QED BY <2>1, <2>2, HandEffect, StillEffect
  <1>4. ASSUME NEW m \in Msg, SendRefused(m) PROVE CarriedOK'
      BY <1>4, <1>q DEF SendRefused
  <1>5. ASSUME NEW m \in Msg, Keep(m) PROVE CarriedOK'
      BY <1>5, <1>q DEF Keep
  <1>6. ASSUME NEW k \in Kind, Fetch(k) PROVE CarriedOK'
      BY <1>6, <1>q DEF Fetch
  <1>7. ASSUME NEW k \in Kind, Take(k) PROVE CarriedOK'
      BY <1>7, <1>q DEF Take
  <1>8. ASSUME NEW k \in Kind, DeliverChunk(k) PROVE CarriedOK'
    <2> DEFINE m == pump[k].row
    <2>1. Busy(k) /\ m \in Msg /\ pump[k].at \in 1 .. Chunks[m]
        BY <1>8, OutboxConstants DEF DeliverChunk, Busy, PumpsOwn, Own, PumpOK, Pump, StoreOK, RowSet, Rows
    <2>2. UNCHANGED <<out, queued, lost>> \/ Hand(<<m, pump[k].at>>)
        BY <1>8 DEF DeliverChunk, HandRow, carried
    <2>3. <<m, pump[k].at>> \in Piece
        BY <2>1, PieceOf
    <2> QED BY <2>2, <2>3, HandEffect, StillEffect
  <1>9. ASSUME NEW k \in Kind, DeliverFails(k) PROVE CarriedOK'
    <2> DEFINE m == pump[k].row
    <2>1. Busy(k) /\ m \in Msg /\ pump[k].at \in 1 .. Chunks[m]
        BY <1>9, OutboxConstants DEF DeliverFails, Busy, PumpsOwn, Own, PumpOK, Pump, StoreOK, RowSet, Rows
    <2>2. UNCHANGED <<out, queued, lost>> \/ Hand(<<m, pump[k].at>>)
        BY <1>9 DEF DeliverFails, HandRow, carried
    <2>3. <<m, pump[k].at>> \in Piece
        BY <2>1, PieceOf
    <2> QED BY <2>2, <2>3, HandEffect, StillEffect
  <1>10. ASSUME NEW k \in Kind, MarkSent(k) PROVE CarriedOK'
      BY <1>10, <1>q DEF MarkSent
  <1>11. ASSUME NEW k \in Kind, MarkFailed(k) PROVE CarriedOK'
      BY <1>11, <1>q DEF MarkFailed
  <1>12. ASSUME NEW k \in Kind, ClientExits(k) PROVE CarriedOK'
      BY <1>12, DropEffect DEF ClientExits
  <1>13. CASE SweepRow
      BY <1>13, <1>q DEF SweepRow
  <1>14. CASE Tick
      BY <1>14, <1>q DEF Tick
  <1>15. CASE Crash
      BY <1>15, DropEffect DEF Crash
  <1>16. ASSUME NEW kinds \in Config, Restart(kinds) PROVE CarriedOK'
      BY <1>16, <1>q DEF Restart
  <1>17. CASE UNCHANGED vars
      BY <1>17, <1>q DEF vars
  <1>18. CASE Elsewhere
    <2>1. CASE \E m \in Msg : KeyExpires(m)
        BY <2>1 DEF KeyExpires, CarriedOK
    <2> QED BY <1>18, <2>1, UnqueueEffect DEF Elsewhere
  <1> QED BY <1>1, <1>2, <1>3, <1>4, <1>5, <1>6, <1>7, <1>8, <1>9, <1>10, <1>11, <1>12,
             <1>13, <1>14, <1>15, <1>16, <1>17, <1>18
          DEF Next, Driver, Elsewhere

LEMMA FaultTyped == ASSUME faults \in 0 .. MaxFaults, Fault PROVE faults' \in 0 .. MaxFaults
  BY OutboxConstants DEF Fault

LEMMA BackoffTyped == \A tries \in Nat, now \in Nat : Later(Backoff(tries), now) \in 0 .. MaxClock
  <1>1. ASSUME NEW tries \in Nat PROVE Backoff(tries) \in Nat
    <2>1. 1 + Least(tries, 8) \in 1 .. 9
        BY DEF Least
    <2>2. \A i \in 1 .. 9 : Doubled[i] \in Nat
        BY DEF Doubled
    <2>3. Doubled[1 + Least(tries, 8)] \in Nat
        BY <2>1, <2>2
    <2> QED BY <2>3, OutboxConstants DEF Backoff, Least
  <1>2. ASSUME NEW b \in Nat, NEW now \in Nat PROVE Later(b, now) \in 0 .. MaxClock
      BY OutboxConstants DEF Later, Least
  <1> QED BY <1>1, <1>2

LEMMA MarkFailedEffect ==
    ASSUME StoreOK, PumpOK, PumpsOwn, PlainOK, NEW k \in Kind, MarkFailed(k)
    PROVE  /\ pump[k].row \in Rows /\ pump[k].row \in Msg
           /\ UNCHANGED <<row, attempted, spent>>
                \/ \E due \in 0 .. MaxClock : Failed(pump[k].row, due)
  <1>1. pump[k].row \in Rows /\ pump[k].row \in Msg /\ pump[k].now \in Nat
      BY OutboxConstants DEF MarkFailed, PumpsOwn, Own, Busy, PumpOK, Pump, Rows
  <1>2. row[pump[k].row].tries \in Nat
      BY <1>1, OutboxConstants DEF StoreOK, RowSet
  <1> QED BY <1>1, <1>2, BackoffTyped DEF MarkFailed

LEMMA SweepEffect ==
    ASSUME StoreOK, Ids, PlainOK, SweepRow
    PROVE  /\ FirstOf(Strays) \in Strays /\ \A b \in Strays \ {FirstOf(Strays)} : Earlier(FirstOf(Strays), b)
           /\ \E due \in 0 .. MaxClock : Failed(FirstOf(Strays), due)
  <1>1. Strays \in SUBSET Rows /\ Strays # {}
      BY DEF Strays, SweepRow
  <1>2. Later(Hour, clock) \in 0 .. MaxClock
      BY OutboxConstants DEF PlainOK, Later, Least
  <1> QED BY <1>1, <1>2, FirstOfLeast DEF SweepRow

LEMMA KeepEffect ==
    ASSUME LiveOK, StoreOK, Ids, PlainOK, NEW m \in Msg, Keep(m)
    PROVE  /\ StoreOK'
           /\ \A n \in Msg : n # m => row'[n] = row[n]
           /\ \/ /\ row'[m].id = NextId /\ row'[m].from = at[m] /\ row'[m].due = clock
                 /\ row'[m].tries = 0 /\ Rows' = Rows \cup {m} /\ told'[m] = "ok"
              \/ UNCHANGED row /\ told'[m] = "error"
           /\ pc' = [pc EXCEPT ![m] = "done"] /\ \A n \in Msg : n # m => told'[n] = told[n]
  <1>0. NextId \in Nat /\ NextId > 0 /\ at[m] \in Nat \ {0} /\ clock \in 0 .. MaxClock /\ 0 \in 0 .. MaxAttempts - 1
      BY NextIdFresh, OutboxConstants DEF LiveOK, PlainOK
  <1> DEFINE new == [id |-> NextId, from |-> at[m], tries |-> 0, due |-> clock]
  <1>1. new \in RowSet /\ new.id = NextId /\ new.from = at[m] /\ new.due = clock /\ new.tries = 0
      BY <1>0 DEF RowSet
  <1>2. \/ row' = [row EXCEPT ![m] = new] /\ Tell(m, "ok")
        \/ Tell(m, "error") /\ UNCHANGED row
      BY DEF Keep, FirstKept
  <1>3. /\ pc' = [pc EXCEPT ![m] = "done"] /\ \A n \in Msg : n # m => told'[n] = told[n]
        /\ Tell(m, "ok") => told'[m] = "ok"
        /\ Tell(m, "error") => told'[m] = "error"
      BY <1>2 DEF Tell, Goto, LiveOK
  <1> HIDE DEF new
  <1>4. CASE row' = [row EXCEPT ![m] = new] /\ Tell(m, "ok")
    <2>1. StoreOK' /\ \A n \in Msg : row'[n] = IF n = m THEN new ELSE row[n]
        BY <1>1, <1>4 DEF StoreOK
    <2>2. Rows' = Rows \cup {m}
        BY <1>0, <1>1, <2>1 DEF Rows
    <2> QED BY <1>1, <1>3, <1>4, <2>1, <2>2
  <1>5. CASE Tell(m, "error") /\ UNCHANGED row
      BY <1>3, <1>5 DEF StoreOK
  <1> QED BY <1>2, <1>4, <1>5

LEMMA StoreStep == LiveOK /\ StoreOK /\ Ids /\ PumpOK /\ PumpsOwn /\ PlainOK /\ [Next]_vars => StoreOK'
  <1> SUFFICES ASSUME LiveOK, StoreOK, Ids, PumpOK, PumpsOwn, PlainOK, [Next]_vars PROVE StoreOK'
      OBVIOUS
  <1>1. ASSUME NEW m \in Msg, StartSend(m) PROVE StoreOK'
      BY <1>1 DEF StoreOK, StartSend
  <1>2. ASSUME NEW m \in Msg, SendChunk(m) PROVE StoreOK'
      BY <1>2 DEF StoreOK, SendChunk
  <1>3. ASSUME NEW m \in Msg, SendUnclear(m) PROVE StoreOK'
      BY <1>3 DEF StoreOK, SendUnclear
  <1>4. ASSUME NEW m \in Msg, SendRefused(m) PROVE StoreOK'
      BY <1>4 DEF StoreOK, SendRefused
  <1>5. ASSUME NEW m \in Msg, Keep(m) PROVE StoreOK'
      BY <1>5, KeepEffect
  <1>6. ASSUME NEW k \in Kind, Fetch(k) PROVE StoreOK'
      BY <1>6 DEF StoreOK, Fetch
  <1>7. ASSUME NEW k \in Kind, Take(k) PROVE StoreOK'
      BY <1>7 DEF StoreOK, Take
  <1>8. ASSUME NEW k \in Kind, DeliverChunk(k) PROVE StoreOK'
      BY <1>8 DEF StoreOK, DeliverChunk
  <1>9. ASSUME NEW k \in Kind, DeliverFails(k) PROVE StoreOK'
      BY <1>9 DEF StoreOK, DeliverFails
  <1>10. ASSUME NEW k \in Kind, MarkSent(k) PROVE StoreOK'
    <2>1. pump[k].row \in Msg
        BY <1>10 DEF MarkSent, PumpsOwn, Own, Busy, Rows
    <2> QED BY <1>10, <2>1, RemoveEffect DEF MarkSent, StoreOK
  <1>11. ASSUME NEW k \in Kind, MarkFailed(k) PROVE StoreOK'
      BY <1>11, MarkFailedEffect, FailedEffect DEF StoreOK
  <1>12. ASSUME NEW k \in Kind, ClientExits(k) PROVE StoreOK'
      BY <1>12 DEF StoreOK, ClientExits
  <1>13. CASE SweepRow
    <2>1. FirstOf(Strays) \in Rows
        BY <1>13, SweepEffect DEF Strays
    <2> QED BY <1>13, <2>1, SweepEffect, FailedEffect
  <1>14. CASE Tick
      BY <1>14 DEF StoreOK, Tick
  <1>15. CASE Crash
      BY <1>15 DEF StoreOK, Crash
  <1>16. ASSUME NEW kinds \in Config, Restart(kinds) PROVE StoreOK'
      BY <1>16 DEF StoreOK, Restart
  <1>17. CASE UNCHANGED vars
      BY <1>17 DEF vars, StoreOK
  <1>18. CASE Elsewhere
      BY <1>18, ElsewhereQuiet DEF StoreOK
  <1> QED BY <1>1, <1>2, <1>3, <1>4, <1>5, <1>6, <1>7, <1>8, <1>9, <1>10, <1>11, <1>12,
             <1>13, <1>14, <1>15, <1>16, <1>17, <1>18
          DEF Next, Driver, Elsewhere

LEMMA TakeEffect ==
    ASSUME StoreOK, Ids, PumpOK, PumpsOwn, NEW k \in Kind, Take(k)
    PROVE  /\ up /\ pump[k].step = "next"
           /\ \/ /\ pump[k].todo = {} /\ pump' = [pump EXCEPT ![k] = Asleep] /\ attempted' = attempted
              \/ LET m == FirstOf(pump[k].todo)
                 IN  /\ m \in pump[k].todo /\ m \in Rows /\ KindOf[m] = k
                     /\ \A b \in pump[k].todo \ {m} : Earlier(m, b)
                     /\ attempted' = attempted \cup {m}
                     /\ pump' = [pump EXCEPT ![k] = [pump[k] EXCEPT !.step = "deliver", !.todo = @ \ {m},
                                                              !.row = m, !.at = row[m].from]]
  <1>1. pump[k].todo \in SUBSET Rows /\ \A m \in pump[k].todo : KindOf[m] = k
      BY DEF PumpsOwn, Own
  <1>2. CASE pump[k].todo = {}
      BY <1>2 DEF Take
  <1>3. CASE pump[k].todo # {}
    <2> DEFINE m == FirstOf(pump[k].todo)
    <2>1. m \in pump[k].todo /\ \A b \in pump[k].todo \ {m} : Earlier(m, b)
        BY <1>1, <1>3, FirstOfLeast
    <2> QED BY <1>1, <1>3, <2>1 DEF Take
  <1> QED BY <1>2, <1>3

LEMMA AsleepTyped ==
    /\ Asleep \in Pump /\ Asleep.step = "sleep" /\ Asleep.todo = {} /\ Asleep.now = 0
    /\ \A todo \in SUBSET Msg, now \in 0 .. MaxClock :
          [Asleep EXCEPT !.step = "next", !.todo = todo, !.now = now] \in Pump
  <1>1. Asleep \in Pump /\ Asleep.step = "sleep" /\ Asleep.todo = {} /\ Asleep.now = 0
      BY OutboxConstants DEF Asleep, Pump, Phases
  <1> QED BY <1>1 DEF Pump, Phases

\* The drivers of other kinds are not disturbed.
Others(k) == \A j \in Kind : j # k => pump'[j] = pump[j]

LEMMA StepEffect ==
    ASSUME PumpOK, NEW k \in Kind, NEW p \in Phases, Step(k, p)
    PROVE  /\ PumpOK' /\ Others(k) /\ pump'[k].step = p /\ pump'[k].todo = pump[k].todo
           /\ pump'[k].now = pump[k].now /\ pump'[k].row = pump[k].row /\ pump'[k].at = pump[k].at
  <1> DEFINE new == [pump[k] EXCEPT !.step = p]
  <1>1. pump[k] \in Pump
      BY DEF PumpOK
  <1>2. new \in Pump /\ new.step = p /\ new.todo = pump[k].todo /\ new.now = pump[k].now
          /\ new.row = pump[k].row /\ new.at = pump[k].at
      BY <1>1 DEF Pump
  <1>3. pump' = [pump EXCEPT ![k] = new]
      BY DEF Step
  <1> HIDE DEF new
  <1> QED BY <1>2, <1>3 DEF PumpOK, Others

LEMMA SetTaken ==
    ASSUME PumpOK, NEW k \in Kind, NEW m \in Msg, NEW from \in Nat,
           pump' = [pump EXCEPT ![k] = [pump[k] EXCEPT !.step = "deliver", !.todo = @ \ {m}, !.row = m, !.at = from]]
    PROVE  /\ PumpOK' /\ Others(k) /\ pump'[k].step = "deliver" /\ pump'[k].todo = pump[k].todo \ {m}
           /\ pump'[k].row = m /\ pump'[k].at = from /\ pump'[k].now = pump[k].now
  <1> DEFINE new == [pump[k] EXCEPT !.step = "deliver", !.todo = @ \ {m}, !.row = m, !.at = from]
  <1>1. pump[k] \in Pump
      BY DEF PumpOK
  <1>2. /\ new \in Pump /\ new.step = "deliver" /\ new.todo = pump[k].todo \ {m}
        /\ new.row = m /\ new.at = from /\ new.now = pump[k].now
      BY <1>1 DEF Pump, Phases
  <1>3. pump' = [pump EXCEPT ![k] = new]
      OBVIOUS
  <1> HIDE DEF new
  <1> QED BY <1>2, <1>3 DEF PumpOK, Others

LEMMA TakenEffect ==
    ASSUME StoreOK, Ids, PumpOK, PumpsOwn, NEW k \in Kind, Take(k)
    PROVE  /\ PumpOK' /\ Others(k)
           /\ \/ pump[k].todo = {} /\ pump'[k] = Asleep /\ attempted' = attempted
              \/ LET m == FirstOf(pump[k].todo)
                 IN  /\ m \in pump[k].todo /\ m \in Rows /\ m \in Msg /\ KindOf[m] = k
                     /\ \A b \in pump[k].todo \ {m} : Earlier(m, b)
                     /\ attempted' = attempted \cup {m}
                     /\ pump'[k].step = "deliver" /\ pump'[k].todo = pump[k].todo \ {m}
                     /\ pump'[k].row = m /\ pump'[k].at = row[m].from /\ pump'[k].now = pump[k].now
  <1>1. CASE pump[k].todo = {}
    <2>1. pump' = [pump EXCEPT ![k] = Asleep] /\ attempted' = attempted
        BY <1>1 DEF Take
    <2> QED BY <1>1, <2>1, AsleepTyped DEF PumpOK, Others
  <1>2. CASE pump[k].todo # {}
    <2> DEFINE m == FirstOf(pump[k].todo)
    <2>1. /\ m \in pump[k].todo /\ m \in Rows /\ KindOf[m] = k
          /\ \A b \in pump[k].todo \ {m} : Earlier(m, b)
          /\ attempted' = attempted \cup {m}
        BY <1>2, TakeEffect
    <2>2. m \in Msg /\ row[m].from \in Nat
        BY <2>1 DEF Rows, StoreOK, RowSet
    <2>3. pump' = [pump EXCEPT ![k] = [pump[k] EXCEPT !.step = "deliver", !.todo = @ \ {m},
                                                !.row = m, !.at = row[m].from]]
        BY <1>2, TakeEffect
    <2> HIDE DEF m
    <2>4. /\ PumpOK' /\ Others(k) /\ pump'[k].step = "deliver" /\ pump'[k].todo = pump[k].todo \ {m}
          /\ pump'[k].row = m /\ pump'[k].at = row[m].from /\ pump'[k].now = pump[k].now
        BY <2>2, <2>3, SetTaken
    <2> QED BY <2>1, <2>2, <2>4 DEF m
  <1> QED BY <1>1, <1>2

LEMMA FetchEffect ==
    ASSUME PumpOK, PlainOK, NEW k \in Kind, Fetch(k)
    PROVE  /\ PumpOK' /\ Others(k) /\ up /\ k \in driven /\ UNCHANGED <<row, attempted, clock>>
           /\ pump'[k].step = "next" /\ pump'[k].todo = InBatch(k) /\ pump'[k].now = clock
  <1> DEFINE todo == InBatch(k)  now == clock
             new == [Asleep EXCEPT !.step = "next", !.todo = todo, !.now = now]
  <1>1. InBatch(k) \in SUBSET Msg /\ clock \in 0 .. MaxClock
      BY DEF InBatch, Due, Rows, PlainOK
  <1>2. pump' = [pump EXCEPT ![k] = new] /\ UNCHANGED <<row, attempted, clock>> /\ up /\ k \in driven
      BY DEF Fetch
  <1> HIDE DEF todo, now
  <1>3. todo \in SUBSET Msg /\ now \in 0 .. MaxClock
      BY <1>1 DEF todo, now
  <1>4. new \in Pump /\ new.step = "next" /\ new.todo = todo /\ new.now = now
      BY <1>3, AsleepTyped DEF Pump
  <1> HIDE DEF new
  <1>5. PumpOK' /\ Others(k) /\ pump'[k] = new
      BY <1>2, <1>4 DEF PumpOK, Others
  <1> QED BY <1>2, <1>4, <1>5 DEF todo, now

\* A chunk that is not the last: the driver goes on with the next one.
LEMMA NextChunkEffect ==
    ASSUME PumpOK, NEW k \in Kind, pump' = [pump EXCEPT ![k].at = @ + 1]
    PROVE  /\ PumpOK' /\ Others(k) /\ pump'[k].step = pump[k].step /\ pump'[k].todo = pump[k].todo
           /\ pump'[k].now = pump[k].now /\ pump'[k].row = pump[k].row /\ pump'[k].at = pump[k].at + 1
  <1> DEFINE new == [pump[k] EXCEPT !.at = @ + 1]
  <1>1. pump[k] \in Pump
      BY DEF PumpOK
  <1>2. new \in Pump /\ new.step = pump[k].step /\ new.todo = pump[k].todo /\ new.now = pump[k].now
          /\ new.row = pump[k].row /\ new.at = pump[k].at + 1
      BY <1>1 DEF Pump
  <1>3. pump' = [pump EXCEPT ![k] = new]
      OBVIOUS
  <1> HIDE DEF new
  <1> QED BY <1>2, <1>3 DEF PumpOK, Others

LEMMA PumpStep == StoreOK /\ Ids /\ PumpOK /\ PumpsOwn /\ PlainOK /\ [Next]_vars => PumpOK'
  <1> SUFFICES ASSUME StoreOK, Ids, PumpOK, PumpsOwn, PlainOK, [Next]_vars PROVE PumpOK'
      OBVIOUS
  <1>1. ASSUME NEW m \in Msg, StartSend(m) PROVE PumpOK'
      BY <1>1 DEF PumpOK, StartSend
  <1>2. ASSUME NEW m \in Msg, SendChunk(m) PROVE PumpOK'
      BY <1>2 DEF PumpOK, SendChunk
  <1>3. ASSUME NEW m \in Msg, SendUnclear(m) PROVE PumpOK'
      BY <1>3 DEF PumpOK, SendUnclear
  <1>4. ASSUME NEW m \in Msg, SendRefused(m) PROVE PumpOK'
      BY <1>4 DEF PumpOK, SendRefused
  <1>5. ASSUME NEW m \in Msg, Keep(m) PROVE PumpOK'
      BY <1>5 DEF PumpOK, Keep
  <1>6. ASSUME NEW k \in Kind, Fetch(k) PROVE PumpOK'
      BY <1>6, FetchEffect
  <1>7. ASSUME NEW k \in Kind, Take(k) PROVE PumpOK'
      BY <1>7, TakenEffect
  <1>8. ASSUME NEW k \in Kind, DeliverChunk(k) PROVE PumpOK'
      BY <1>8, StepEffect, NextChunkEffect DEF DeliverChunk, Phases
  <1>9. ASSUME NEW k \in Kind, DeliverFails(k) PROVE PumpOK'
      BY <1>9, StepEffect DEF DeliverFails, Phases
  <1>10. ASSUME NEW k \in Kind, MarkSent(k) PROVE PumpOK'
      BY <1>10, StepEffect DEF MarkSent, Phases
  <1>11. ASSUME NEW k \in Kind, MarkFailed(k) PROVE PumpOK'
      BY <1>11, StepEffect DEF MarkFailed, Phases
  <1>12. ASSUME NEW k \in Kind, ClientExits(k) PROVE PumpOK'
      BY <1>12 DEF PumpOK, ClientExits
  <1>13. CASE SweepRow
      BY <1>13 DEF PumpOK, SweepRow
  <1>14. CASE Tick
      BY <1>14 DEF PumpOK, Tick
  <1>15. CASE Crash
      BY <1>15, AsleepTyped DEF Crash, PumpOK
  <1>16. ASSUME NEW kinds \in Config, Restart(kinds) PROVE PumpOK'
      BY <1>16 DEF PumpOK, Restart
  <1>17. CASE UNCHANGED vars
      BY <1>17 DEF vars, PumpOK
  <1>18. CASE Elsewhere
      BY <1>18, ElsewhereQuiet DEF PumpOK
  <1> QED BY <1>1, <1>2, <1>3, <1>4, <1>5, <1>6, <1>7, <1>8, <1>9, <1>10, <1>11, <1>12,
             <1>13, <1>14, <1>15, <1>16, <1>17, <1>18
          DEF Next, Driver, Elsewhere

LEMMA PlainStep == LiveOK /\ StoreOK /\ Ids /\ PumpOK /\ PumpsOwn /\ PlainOK /\ [Next]_vars => PlainOK'
  <1> SUFFICES ASSUME LiveOK, StoreOK, Ids, PumpOK, PumpsOwn, PlainOK, [Next]_vars PROVE PlainOK'
      OBVIOUS
  <1> USE DEF PlainOK, carried
  <1>1. ASSUME NEW m \in Msg, StartSend(m) PROVE PlainOK'
      BY <1>1 DEF StartSend, Rows
  <1>2. ASSUME NEW m \in Msg, SendChunk(m) PROVE PlainOK'
      BY <1>2 DEF SendChunk, Rows
  <1>3. ASSUME NEW m \in Msg, SendUnclear(m) PROVE PlainOK'
    <2>f. faults' \in 0 .. MaxFaults
        BY <1>3, FaultTyped DEF SendUnclear
    <2>1. seen' = seen /\ doubts' \in [Msg -> Nat]
        BY <1>3, DoubtEffect DEF SendUnclear
    <2> QED BY <1>3, <2>1, <2>f DEF SendUnclear, Rows
  <1>4. ASSUME NEW m \in Msg, SendRefused(m) PROVE PlainOK'
      BY <1>4 DEF SendRefused, Rows
  <1>5. ASSUME NEW m \in Msg, Keep(m) PROVE PlainOK'
    <2>1. Rows \subseteq Rows'
        BY <1>5, KeepEffect DEF Rows
    <2>f. faults' \in 0 .. MaxFaults
        BY <1>5, FaultTyped DEF Keep
    <2>2. attempted' = attempted
        BY <1>5 DEF Keep
    <2> QED BY <1>5, <2>1, <2>2, <2>f DEF Keep
  <1>6. ASSUME NEW k \in Kind, Fetch(k) PROVE PlainOK'
      BY <1>6 DEF Fetch, Rows
  <1>7. ASSUME NEW k \in Kind, Take(k) PROVE PlainOK'
    <2>1. UNCHANGED <<row, driven, open, up, clock, faults, spent, seen, doubts>>
        BY <1>7 DEF Take
    <2>2. attempted' \subseteq Rows
        BY <1>7, TakenEffect DEF Take
    <2> QED BY <2>1, <2>2 DEF Rows
  <1>8. ASSUME NEW k \in Kind, DeliverChunk(k) PROVE PlainOK'
    <2>1. pump[k].row \in Msg
        BY <1>8 DEF DeliverChunk, PumpsOwn, Own, Busy, Rows
    <2>2. seen' \subseteq Msg
        BY <1>8, <2>1 DEF DeliverChunk, HandRow, KeyOf, carried
    <2> QED BY <1>8, <2>2 DEF DeliverChunk, Rows
  <1>9. ASSUME NEW k \in Kind, DeliverFails(k) PROVE PlainOK'
    <2>1. pump[k].row \in Msg
        BY <1>9 DEF DeliverFails, PumpsOwn, Own, Busy, Rows
    <2>2. seen' \subseteq Msg
        BY <1>9, <2>1 DEF DeliverFails, HandRow, KeyOf, carried
    <2>3. doubts' \in [Msg -> Nat]
        BY <1>9, DoubtEffect DEF DeliverFails
    <2> QED BY <1>9, <2>2, <2>3 DEF DeliverFails, Rows
  <1>10. ASSUME NEW k \in Kind, MarkSent(k) PROVE PlainOK'
    <2>1. pump[k].row \in Msg
        BY <1>10 DEF MarkSent, PumpsOwn, Own, Busy, Rows
    <2>2. Remove(pump[k].row) \/ UNCHANGED <<row, attempted>>
        BY <1>10 DEF MarkSent
    <2>3. attempted' \subseteq Rows'
        BY <2>1, <2>2, RemoveEffect DEF Rows
    <2>4. doubts' \in [Msg -> Nat]
        BY <1>10, DoubtEffect DEF MarkSent
    <2>f. faults' \in 0 .. MaxFaults
        BY <1>10, FaultTyped DEF MarkSent
    <2> QED BY <1>10, <2>3, <2>4, <2>f DEF MarkSent
  <1>11. ASSUME NEW k \in Kind, MarkFailed(k) PROVE PlainOK'
    <2>1. attempted' \subseteq Rows' /\ spent' \subseteq Msg
        BY <1>11, MarkFailedEffect, FailedEffect DEF Rows
    <2>f. faults' \in 0 .. MaxFaults
        BY <1>11, FaultTyped DEF MarkFailed
    <2> QED BY <1>11, <2>1, <2>f DEF MarkFailed
  <1>12. ASSUME NEW k \in Kind, ClientExits(k) PROVE PlainOK'
      BY <1>12 DEF ClientExits, Drop, Rows
  <1>13. CASE SweepRow
    <2>1. FirstOf(Strays) \in Rows
        BY <1>13, SweepEffect DEF Strays
    <2>2. attempted' \subseteq Rows' /\ spent' \subseteq Msg
        BY <1>13, <2>1, SweepEffect, FailedEffect DEF Rows
    <2> QED BY <1>13, <2>2 DEF SweepRow
  <1>14. CASE Tick
      BY <1>14, OutboxConstants DEF Tick, Rows
  <1>15. CASE Crash
    <2>1. doubts' \in [Msg -> Nat] /\ seen' = seen
        BY <1>15, DoubtEffect DEF Crash, Drop
    <2>f. faults' \in 0 .. MaxFaults
        BY <1>15, FaultTyped DEF Crash
    <2> QED BY <1>15, <2>1, <2>f DEF Crash, Rows
  <1>16. ASSUME NEW kinds \in Config, Restart(kinds) PROVE PlainOK'
      BY <1>16, OutboxConstants DEF Restart, Rows
  <1>17. CASE UNCHANGED vars
      BY <1>17 DEF vars, Rows
  <1>18. CASE Elsewhere
    <2>1. ASSUME NEW m \in Msg, KeyExpires(m) PROVE PlainOK'
        BY <2>1, DoubtEffect DEF KeyExpires, Rows
    <2>2. ASSUME NEW c \in Piece, ClientSends(c) PROVE PlainOK'
        BY <2>2 DEF ClientSends, Rows
    <2>3. ASSUME NEW c \in Piece, ClientLoses(c) PROVE PlainOK'
      <3>f. faults' \in 0 .. MaxFaults
          BY <2>3, FaultTyped DEF ClientLoses
      <3> QED BY <2>3, <3>f DEF ClientLoses, Rows
    <2> QED BY <1>18, <2>1, <2>2, <2>3 DEF Elsewhere
  <1> QED BY <1>1, <1>2, <1>3, <1>4, <1>5, <1>6, <1>7, <1>8, <1>9, <1>10, <1>11, <1>12,
             <1>13, <1>14, <1>15, <1>16, <1>17, <1>18
          DEF Next, Driver, Elsewhere

LEMMA RowsDoneStep == LiveOK /\ StoreOK /\ Ids /\ PumpOK /\ PumpsOwn /\ PlainOK /\ RowsDone /\ [Next]_vars => RowsDone'
  <1> SUFFICES ASSUME LiveOK, StoreOK, Ids, PumpOK, PumpsOwn, PlainOK, RowsDone, [Next]_vars PROVE RowsDone'
      OBVIOUS
  <1>1. ASSUME NEW m \in Msg, StartSend(m) PROVE RowsDone'
    <2>1. UNCHANGED row /\ pc[m] # "done" /\ \A n \in Msg : n # m => pc'[n] = pc[n]
        BY <1>1 DEF StartSend, Goto, LiveOK
    <2> QED BY <2>1 DEF RowsDone, Rows
  <1>2. ASSUME NEW m \in Msg, SendChunk(m) PROVE RowsDone'
    <2>1. UNCHANGED row /\ pc[m] # "done" /\ \A n \in Msg : n # m => pc'[n] = pc[n]
        BY <1>2 DEF SendChunk, Tell, Goto, LiveOK
    <2> QED BY <2>1 DEF RowsDone, Rows
  <1>3. ASSUME NEW m \in Msg, SendUnclear(m) PROVE RowsDone'
    <2>1. UNCHANGED row /\ pc[m] # "done" /\ \A n \in Msg : n # m => pc'[n] = pc[n]
        BY <1>3 DEF SendUnclear, Tell, Goto, LiveOK
    <2> QED BY <2>1 DEF RowsDone, Rows
  <1>4. ASSUME NEW m \in Msg, SendRefused(m) PROVE RowsDone'
    <2>1. UNCHANGED row /\ pc[m] # "done" /\ \A n \in Msg : n # m => pc'[n] = pc[n]
        BY <1>4 DEF SendRefused, Goto, LiveOK
    <2> QED BY <2>1 DEF RowsDone, Rows
  <1>5. ASSUME NEW m \in Msg, Keep(m) PROVE RowsDone'
    <2>1. Rows' = Rows \/ Rows' = Rows \cup {m}
        BY <1>5, KeepEffect DEF Rows
    <2>2. \A n \in Msg : pc'[n] = IF n = m THEN "done" ELSE pc[n]
        BY <1>5, KeepEffect DEF LiveOK
    <2>3. ASSUME NEW n \in Rows' PROVE pc'[n] = "done" /\ row'[n].from <= Chunks[n]
      <3>1. CASE n = m
        <4>1. n \notin Rows
            BY <3>1, <1>5 DEF RowsDone, Keep
        <4> QED BY <1>5, <2>1, <2>2, <2>3, <3>1, <4>1, KeepEffect DEF LiveOK, Rows
      <3>2. CASE n # m
          BY <1>5, <2>1, <2>2, <2>3, <3>2, KeepEffect DEF RowsDone, Rows
      <3> QED BY <3>1, <3>2
    <2> QED BY <2>3 DEF RowsDone
  <1>6. ASSUME NEW k \in Kind, Fetch(k) PROVE RowsDone'
      BY <1>6 DEF RowsDone, Rows, Fetch
  <1>7. ASSUME NEW k \in Kind, Take(k) PROVE RowsDone'
      BY <1>7 DEF RowsDone, Rows, Take
  <1>8. ASSUME NEW k \in Kind, DeliverChunk(k) PROVE RowsDone'
      BY <1>8 DEF RowsDone, Rows, DeliverChunk
  <1>9. ASSUME NEW k \in Kind, DeliverFails(k) PROVE RowsDone'
      BY <1>9 DEF RowsDone, Rows, DeliverFails
  <1>10. ASSUME NEW k \in Kind, MarkSent(k) PROVE RowsDone'
    <2>1. pump[k].row \in Msg
        BY <1>10 DEF MarkSent, PumpsOwn, Own, Busy, Rows
    <2>2. (Remove(pump[k].row) \/ UNCHANGED row) /\ UNCHANGED pc
        BY <1>10 DEF MarkSent
    <2> QED BY <2>1, <2>2, RemoveEffect DEF RowsDone, Rows
  <1>11. ASSUME NEW k \in Kind, MarkFailed(k) PROVE RowsDone'
    <2>1. UNCHANGED pc
        BY <1>11 DEF MarkFailed
    <2> QED BY <1>11, <2>1, MarkFailedEffect, FailedEffect DEF RowsDone, Rows
  <1>12. ASSUME NEW k \in Kind, ClientExits(k) PROVE RowsDone'
      BY <1>12 DEF RowsDone, Rows, ClientExits
  <1>13. CASE SweepRow
    <2>1. FirstOf(Strays) \in Rows /\ UNCHANGED pc
        BY <1>13, SweepEffect DEF Strays, SweepRow
    <2> QED BY <1>13, <2>1, SweepEffect, FailedEffect DEF RowsDone, Rows
  <1>14. CASE Tick
      BY <1>14 DEF RowsDone, Rows, Tick
  <1>15. CASE Crash
      BY <1>15 DEF Crash, RowsDone, Rows
  <1>16. ASSUME NEW kinds \in Config, Restart(kinds) PROVE RowsDone'
      BY <1>16 DEF RowsDone, Rows, Restart
  <1>17. CASE UNCHANGED vars
      BY <1>17 DEF vars, RowsDone, Rows
  <1>18. CASE Elsewhere
      BY <1>18, ElsewhereQuiet DEF RowsDone, Rows
  <1> QED BY <1>1, <1>2, <1>3, <1>4, <1>5, <1>6, <1>7, <1>8, <1>9, <1>10, <1>11, <1>12,
             <1>13, <1>14, <1>15, <1>16, <1>17, <1>18
          DEF Next, Driver, Elsewhere

LEMMA IdsStep == LiveOK /\ StoreOK /\ Ids /\ PumpOK /\ PumpsOwn /\ PlainOK /\ RowsDone /\ [Next]_vars => Ids'
  <1> SUFFICES ASSUME LiveOK, StoreOK, Ids, PumpOK, PumpsOwn, PlainOK, RowsDone, [Next]_vars PROVE Ids'
      OBVIOUS
  <1>1. ASSUME NEW m \in Msg, StartSend(m) PROVE Ids'
    <2>1. Done \subseteq Done' /\ Done' \subseteq Msg /\ UNCHANGED row
        BY <1>1 DEF StartSend, Goto, LiveOK, Done
    <2>2. Cardinality(Done) <= Cardinality(Done') /\ Cardinality(Done) \in Nat /\ Cardinality(Done') \in Nat
        BY <2>1, OutboxConstants, FS_Subset, FS_CardinalityType
    <2>3. \A n \in Rows : row[n].id \in Nat
        BY DEF Rows, StoreOK, RowSet
    <2> QED BY <2>1, <2>2, <2>3 DEF Ids, Rows
  <1>2. ASSUME NEW m \in Msg, SendChunk(m) PROVE Ids'
    <2>1. Done \subseteq Done' /\ Done' \subseteq Msg /\ UNCHANGED row
        BY <1>2 DEF SendChunk, Tell, Goto, LiveOK, Done
    <2>2. Cardinality(Done) <= Cardinality(Done') /\ Cardinality(Done) \in Nat /\ Cardinality(Done') \in Nat
        BY <2>1, OutboxConstants, FS_Subset, FS_CardinalityType
    <2>3. \A n \in Rows : row[n].id \in Nat
        BY DEF Rows, StoreOK, RowSet
    <2> QED BY <2>1, <2>2, <2>3 DEF Ids, Rows
  <1>3. ASSUME NEW m \in Msg, SendUnclear(m) PROVE Ids'
    <2>1. Done \subseteq Done' /\ Done' \subseteq Msg /\ UNCHANGED row
        BY <1>3 DEF SendUnclear, Tell, Goto, LiveOK, Done
    <2>2. Cardinality(Done) <= Cardinality(Done') /\ Cardinality(Done) \in Nat /\ Cardinality(Done') \in Nat
        BY <2>1, OutboxConstants, FS_Subset, FS_CardinalityType
    <2>3. \A n \in Rows : row[n].id \in Nat
        BY DEF Rows, StoreOK, RowSet
    <2> QED BY <2>1, <2>2, <2>3 DEF Ids, Rows
  <1>4. ASSUME NEW m \in Msg, SendRefused(m) PROVE Ids'
    <2>1. Done \subseteq Done' /\ Done' \subseteq Msg /\ UNCHANGED row
        BY <1>4 DEF SendRefused, Goto, LiveOK, Done
    <2>2. Cardinality(Done) <= Cardinality(Done') /\ Cardinality(Done) \in Nat /\ Cardinality(Done') \in Nat
        BY <2>1, OutboxConstants, FS_Subset, FS_CardinalityType
    <2>3. \A n \in Rows : row[n].id \in Nat
        BY DEF Rows, StoreOK, RowSet
    <2> QED BY <2>1, <2>2, <2>3 DEF Ids, Rows
  <1>5. ASSUME NEW m \in Msg, Keep(m) PROVE Ids'
    <2>1. Done' = Done \cup {m} /\ m \notin Done /\ m \notin Rows
        BY <1>5, KeepEffect DEF LiveOK, Done, Keep, RowsDone
    <2>2. IsFiniteSet(Done) /\ Cardinality(Done) \in Nat /\ Cardinality(Done') = Cardinality(Done) + 1
        BY <2>1, OutboxConstants, FS_Subset, FS_CardinalityType, FS_AddElement DEF Done
    <2>3. /\ NextId \in Nat /\ \A b \in Rows : row[b].id < NextId
          /\ NextId <= Cardinality(Done) + 1
        BY NextIdFresh
    <2>4. \A n \in Rows : row'[n] = row[n] /\ row[n].id \in Nat /\ row[n].id <= Cardinality(Done)
        BY <1>5, <2>1, KeepEffect DEF Rows, StoreOK, RowSet, Ids
    <2>5. Rows' = Rows \/ (Rows' = Rows \cup {m} /\ row'[m].id = NextId)
        BY <1>5, KeepEffect DEF Rows
    <2> QED BY <2>2, <2>3, <2>4, <2>5 DEF Ids
  <1>6. ASSUME NEW k \in Kind, Fetch(k) PROVE Ids'
      BY <1>6 DEF Ids, Rows, Done, Fetch
  <1>7. ASSUME NEW k \in Kind, Take(k) PROVE Ids'
      BY <1>7 DEF Ids, Rows, Done, Take
  <1>8. ASSUME NEW k \in Kind, DeliverChunk(k) PROVE Ids'
      BY <1>8 DEF Ids, Rows, Done, DeliverChunk
  <1>9. ASSUME NEW k \in Kind, DeliverFails(k) PROVE Ids'
      BY <1>9 DEF Ids, Rows, Done, DeliverFails
  <1>10. ASSUME NEW k \in Kind, MarkSent(k) PROVE Ids'
    <2>1. pump[k].row \in Msg
        BY <1>10 DEF MarkSent, PumpsOwn, Own, Busy, Rows
    <2>2. (Remove(pump[k].row) \/ UNCHANGED row) /\ UNCHANGED pc
        BY <1>10 DEF MarkSent
    <2> QED BY <2>1, <2>2, RemoveEffect DEF Ids, Rows, Done
  <1>11. ASSUME NEW k \in Kind, MarkFailed(k) PROVE Ids'
    <2>1. UNCHANGED pc
        BY <1>11 DEF MarkFailed
    <2> QED BY <1>11, <2>1, MarkFailedEffect, FailedEffect DEF Ids, Rows, Done
  <1>12. ASSUME NEW k \in Kind, ClientExits(k) PROVE Ids'
      BY <1>12 DEF Ids, Rows, Done, ClientExits
  <1>13. CASE SweepRow
    <2>1. FirstOf(Strays) \in Rows /\ UNCHANGED pc
        BY <1>13, SweepEffect DEF Strays, SweepRow
    <2> QED BY <1>13, <2>1, SweepEffect, FailedEffect DEF Ids, Rows, Done
  <1>14. CASE Tick
      BY <1>14 DEF Ids, Rows, Done, Tick
  <1>15. CASE Crash
    <2>1. Done \subseteq Done' /\ Done' \subseteq Msg /\ UNCHANGED row
        BY <1>15 DEF Crash, Done
    <2>2. Cardinality(Done) <= Cardinality(Done') /\ Cardinality(Done) \in Nat /\ Cardinality(Done') \in Nat
        BY <2>1, OutboxConstants, FS_Subset, FS_CardinalityType
    <2>3. \A n \in Rows : row[n].id \in Nat
        BY DEF Rows, StoreOK, RowSet
    <2> QED BY <2>1, <2>2, <2>3 DEF Ids, Rows
  <1>16. ASSUME NEW kinds \in Config, Restart(kinds) PROVE Ids'
      BY <1>16 DEF Ids, Rows, Done, Restart
  <1>17. CASE UNCHANGED vars
      BY <1>17 DEF vars, Ids, Rows, Done
  <1>18. CASE Elsewhere
      BY <1>18, ElsewhereQuiet DEF Ids, Rows, Done
  <1> QED BY <1>1, <1>2, <1>3, <1>4, <1>5, <1>6, <1>7, <1>8, <1>9, <1>10, <1>11, <1>12,
             <1>13, <1>14, <1>15, <1>16, <1>17, <1>18
          DEF Next, Driver, Elsewhere

\* What a step that leaves a driver alone must keep for it.
LEMMA OwnKept ==
    ASSUME PumpOK, StoreOK, PlainOK, NEW k \in Kind, Own(k), pump'[k] = pump[k], clock' = clock \/ clock' = clock + 1,
           pump[k].step # "sleep" => up' = up /\ driven' = driven,
           \A m \in Rows : KindOf[m] = k /\ pump[k].step # "sleep" => m \in Rows' /\ row'[m].from = row[m].from
    PROVE  Own(k)'
  <1>1. pump[k].now \in Nat /\ clock \in Nat
      BY OutboxConstants DEF PumpOK, Pump, PlainOK
  <1>2. pump'[k].now <= clock'
      BY <1>1 DEF Own
  <1>3. pump'[k].step # "sleep" => up' /\ k \in driven'
      BY DEF Own
  <1>4. \A m \in pump'[k].todo : m \in Rows' /\ KindOf[m] = k
      BY DEF Own
  <1>5. Busy(k) => pump[k].step # "sleep" /\ pump[k].row \in Rows /\ KindOf[pump[k].row] = k
      BY DEF Own, Busy
  <1> QED BY <1>2, <1>3, <1>4, <1>5 DEF Own, Busy

LEMMA PumpsOwnStep == LiveOK /\ StoreOK /\ Ids /\ PumpOK /\ PumpsOwn /\ PlainOK /\ RowsDone /\ [Next]_vars => PumpsOwn'
  <1> SUFFICES ASSUME LiveOK, StoreOK, Ids, PumpOK, PumpsOwn, PlainOK, RowsDone, [Next]_vars PROVE PumpsOwn'
      OBVIOUS
  <1>1. ASSUME NEW m \in Msg, StartSend(m) PROVE PumpsOwn'
    <2> SUFFICES ASSUME NEW j \in Kind PROVE Own(j)'
        BY DEF PumpsOwn, Own
    <2>1. /\ pump' = pump /\ row' = row /\ up' = up /\ driven' = driven
          /\ clock' = clock \/ clock' = clock + 1
        BY <1>1 DEF StartSend
    <2> QED BY <2>1, OwnKept DEF PumpsOwn, Own, Rows
  <1>2. ASSUME NEW m \in Msg, SendChunk(m) PROVE PumpsOwn'
    <2> SUFFICES ASSUME NEW j \in Kind PROVE Own(j)'
        BY DEF PumpsOwn, Own
    <2>1. /\ pump' = pump /\ row' = row /\ up' = up /\ driven' = driven
          /\ clock' = clock \/ clock' = clock + 1
        BY <1>2 DEF SendChunk
    <2> QED BY <2>1, OwnKept DEF PumpsOwn, Own, Rows
  <1>3. ASSUME NEW m \in Msg, SendUnclear(m) PROVE PumpsOwn'
    <2> SUFFICES ASSUME NEW j \in Kind PROVE Own(j)'
        BY DEF PumpsOwn, Own
    <2>1. /\ pump' = pump /\ row' = row /\ up' = up /\ driven' = driven
          /\ clock' = clock \/ clock' = clock + 1
        BY <1>3 DEF SendUnclear
    <2> QED BY <2>1, OwnKept DEF PumpsOwn, Own, Rows
  <1>4. ASSUME NEW m \in Msg, SendRefused(m) PROVE PumpsOwn'
    <2> SUFFICES ASSUME NEW j \in Kind PROVE Own(j)'
        BY DEF PumpsOwn, Own
    <2>1. /\ pump' = pump /\ row' = row /\ up' = up /\ driven' = driven
          /\ clock' = clock \/ clock' = clock + 1
        BY <1>4 DEF SendRefused
    <2> QED BY <2>1, OwnKept DEF PumpsOwn, Own, Rows
  <1>5. ASSUME NEW m \in Msg, Keep(m) PROVE PumpsOwn'
    <2> SUFFICES ASSUME NEW j \in Kind PROVE Own(j)'
        BY DEF PumpsOwn, Own
    <2>1. pump' = pump /\ up' = up /\ driven' = driven /\ clock' = clock
        BY <1>5 DEF Keep
    <2>2. m \notin Rows
        BY <1>5 DEF Keep, RowsDone
    <2>3. \A n \in Rows : n \in Rows' /\ row'[n] = row[n]
        BY <1>5, <2>2, KeepEffect DEF Rows
    <2> QED BY <2>1, <2>3, OwnKept DEF PumpsOwn, Own
  <1>6. ASSUME NEW k \in Kind, Fetch(k) PROVE PumpsOwn'
    <2> SUFFICES ASSUME NEW j \in Kind PROVE Own(j)'
        BY DEF PumpsOwn, Own
    <2>1. /\ Others(k) /\ row' = row /\ up' = up /\ driven' = driven /\ clock' = clock
        BY <1>6, FetchEffect DEF Fetch, Phases
    <2>2. CASE j # k
        BY <2>1, <2>2, OwnKept DEF PumpsOwn, Own, Rows, Others
    <2>3. CASE j = k
      <3>1. up /\ k \in driven /\ pump'[k].step = "next" /\ pump'[k].todo = InBatch(k) /\ pump'[k].now = clock
          BY <1>6, FetchEffect
      <3>2. \A m \in InBatch(k) : m \in Rows /\ KindOf[m] = k
          BY DEF InBatch, Due
      <3>3. clock <= clock
          BY OutboxConstants DEF PlainOK
      <3> QED BY <2>1, <2>3, <3>1, <3>2, <3>3 DEF Own, Busy, Rows
    <2> QED BY <2>2, <2>3
  <1>7. ASSUME NEW k \in Kind, Take(k) PROVE PumpsOwn'
    <2> SUFFICES ASSUME NEW j \in Kind PROVE Own(j)'
        BY DEF PumpsOwn, Own
    <2>1. /\ Others(k) /\ row' = row /\ up' = up /\ driven' = driven /\ clock' = clock
        BY <1>7, TakenEffect DEF Take, Phases
    <2>2. CASE j # k
        BY <2>1, <2>2, OwnKept DEF PumpsOwn, Own, Rows, Others
    <2>3. CASE j = k
      <3>1. Own(k) /\ pump[k].step = "next"
          BY <1>7 DEF PumpsOwn, Own, Take
      <3>2. CASE pump[k].todo = {} /\ pump'[k] = Asleep
        <4>1. 0 <= clock
            BY OutboxConstants DEF PlainOK
        <4> QED BY <2>1, <2>3, <3>2, <4>1, AsleepTyped DEF Own, Busy
      <3>3. CASE ~(pump[k].todo = {} /\ pump'[k] = Asleep)
        <4> DEFINE m == FirstOf(pump[k].todo)
        <4>1. /\ m \in pump[k].todo /\ m \in Rows /\ m \in Msg /\ KindOf[m] = k
              /\ pump'[k].step = "deliver" /\ pump'[k].todo = pump[k].todo \ {m}
              /\ pump'[k].row = m /\ pump'[k].at = row[m].from /\ pump'[k].now = pump[k].now
            BY <1>7, <3>3, TakenEffect
        <4> HIDE DEF m
        <4>2. row[m].from <= row[m].from /\ row[m].from <= Chunks[m]
            BY <4>1 DEF RowsDone, StoreOK, RowSet
        <4> QED BY <2>1, <2>3, <3>1, <4>1, <4>2 DEF Own, Busy, Rows
      <3> QED BY <3>2, <3>3
    <2> QED BY <2>2, <2>3
  <1>8. ASSUME NEW k \in Kind, DeliverChunk(k) PROVE PumpsOwn'
    <2> SUFFICES ASSUME NEW j \in Kind PROVE Own(j)'
        BY DEF PumpsOwn, Own
    <2>1. /\ Others(k) /\ row' = row /\ up' = up /\ driven' = driven /\ clock' = clock
        BY <1>8, StepEffect, NextChunkEffect DEF DeliverChunk, Phases
    <2>2. CASE j # k
        BY <2>1, <2>2, OwnKept DEF PumpsOwn, Own, Rows, Others
    <2>3. CASE j = k
      <3>1. Own(k) /\ pump[k].step = "deliver" /\ Busy(k)
          BY <1>8 DEF PumpsOwn, Own, DeliverChunk, Busy
      <3>2. \/ Step(k, "sent")
            \/ pump' = [pump EXCEPT ![k].at = @ + 1] /\ pump[k].at # Chunks[pump[k].row]
          BY <1>8 DEF DeliverChunk
      <3>3. CASE Step(k, "sent")
        <4>1. /\ pump'[k].step = "sent" /\ pump'[k].todo = pump[k].todo
              /\ pump'[k].now = pump[k].now /\ pump'[k].row = pump[k].row /\ pump'[k].at = pump[k].at
            BY <3>3, StepEffect DEF Phases
        <4> QED BY <2>1, <2>3, <3>1, <4>1 DEF Own, Busy, Rows
      <3>4. CASE pump' = [pump EXCEPT ![k].at = @ + 1] /\ pump[k].at # Chunks[pump[k].row]
        <4>1. /\ pump'[k].step = pump[k].step /\ pump'[k].todo = pump[k].todo
              /\ pump'[k].now = pump[k].now /\ pump'[k].row = pump[k].row /\ pump'[k].at = pump[k].at + 1
            BY <3>4, NextChunkEffect
        <4>2. /\ pump[k].at \in Nat /\ Chunks[pump[k].row] \in Nat /\ row[pump[k].row].from \in Nat
              /\ row[pump[k].row].from <= pump[k].at /\ pump[k].at <= Chunks[pump[k].row]
            BY <3>1, OutboxConstants DEF Own, PumpOK, Pump, StoreOK, RowSet, Rows
        <4>3. row[pump[k].row].from <= pump'[k].at /\ pump'[k].at <= Chunks[pump[k].row]
            BY <3>4, <4>1, <4>2
        <4> QED BY <2>1, <2>3, <3>1, <4>1, <4>3 DEF Own, Busy, Rows
      <3> QED BY <3>2, <3>3, <3>4
    <2> QED BY <2>2, <2>3
  <1>9. ASSUME NEW k \in Kind, DeliverFails(k) PROVE PumpsOwn'
    <2> SUFFICES ASSUME NEW j \in Kind PROVE Own(j)'
        BY DEF PumpsOwn, Own
    <2>1. /\ Others(k) /\ row' = row /\ up' = up /\ driven' = driven /\ clock' = clock
        BY <1>9, StepEffect DEF DeliverFails, Phases
    <2>2. CASE j # k
        BY <2>1, <2>2, OwnKept DEF PumpsOwn, Own, Rows, Others
    <2>3. CASE j = k
      <3>1. Own(k) /\ Busy(k)
          BY <1>9 DEF PumpsOwn, Own, DeliverFails, Busy
      <3>2. /\ pump'[k].step = "failed" /\ pump'[k].todo = pump[k].todo
            /\ pump'[k].now = pump[k].now /\ pump'[k].row = pump[k].row /\ pump'[k].at = pump[k].at
          BY <1>9, StepEffect DEF DeliverFails, Phases
      <3> QED BY <2>1, <2>3, <3>1, <3>2 DEF Own, Busy, Rows
    <2> QED BY <2>2, <2>3
  <1>10. ASSUME NEW k \in Kind, MarkSent(k) PROVE PumpsOwn'
    <2> SUFFICES ASSUME NEW j \in Kind PROVE Own(j)'
        BY DEF PumpsOwn, Own
    <2>1. Own(k) /\ Own(j) /\ Busy(k)
        BY <1>10 DEF PumpsOwn, Own, MarkSent, Busy
    <2>2. pump[k].row \in Msg /\ (UNCHANGED row \/ Remove(pump[k].row))
        BY <1>10, <2>1 DEF MarkSent, Own, Rows
    <2>3. \A m \in Rows : m # pump[k].row => m \in Rows' /\ row'[m] = row[m]
        BY <2>2, RemoveEffect DEF Rows
    <2>4. /\ Others(k) /\ up' = up /\ driven' = driven /\ clock' = clock
          /\ pump'[k].step = "next" /\ pump'[k].todo = pump[k].todo /\ pump'[k].now = pump[k].now
        BY <1>10, StepEffect DEF MarkSent, Phases
    <2>5. KindOf[pump[k].row] = k /\ pump[k].row \notin pump[k].todo
        BY <2>1 DEF Own
    <2>6. CASE j # k
        BY <2>1, <2>3, <2>4, <2>5, <2>6, OwnKept DEF Others
    <2>7. CASE j = k
      <3>1. \A m \in pump'[k].todo : m \in Rows' /\ KindOf[m] = k
          BY <2>1, <2>3, <2>4, <2>5 DEF Own
      <3> QED BY <2>1, <2>4, <2>7, <3>1 DEF Own, Busy
    <2> QED BY <2>6, <2>7
  <1>11. ASSUME NEW k \in Kind, MarkFailed(k) PROVE PumpsOwn'
    <2> SUFFICES ASSUME NEW j \in Kind PROVE Own(j)'
        BY DEF PumpsOwn, Own
    <2>1. Own(k) /\ Own(j) /\ Busy(k)
        BY <1>11 DEF PumpsOwn, Own, MarkFailed, Busy
    <2>3. \A m \in Rows : m # pump[k].row => m \in Rows' /\ row'[m] = row[m]
        BY <1>11, MarkFailedEffect, FailedEffect DEF Rows
    <2>4. /\ Others(k) /\ up' = up /\ driven' = driven /\ clock' = clock
          /\ pump'[k].step = "next" /\ pump'[k].todo = pump[k].todo /\ pump'[k].now = pump[k].now
        BY <1>11, StepEffect DEF MarkFailed, Phases
    <2>5. KindOf[pump[k].row] = k /\ pump[k].row \notin pump[k].todo
        BY <2>1 DEF Own
    <2>6. CASE j # k
        BY <2>1, <2>3, <2>4, <2>5, <2>6, OwnKept DEF Others
    <2>7. CASE j = k
      <3>1. \A m \in pump'[k].todo : m \in Rows' /\ KindOf[m] = k
          BY <2>1, <2>3, <2>4, <2>5 DEF Own
      <3> QED BY <2>1, <2>4, <2>7, <3>1 DEF Own, Busy
    <2> QED BY <2>6, <2>7
  <1>12. ASSUME NEW k \in Kind, ClientExits(k) PROVE PumpsOwn'
    <2> SUFFICES ASSUME NEW j \in Kind PROVE Own(j)'
        BY DEF PumpsOwn, Own
    <2>1. /\ pump' = pump /\ row' = row /\ up' = up /\ driven' = driven
          /\ clock' = clock \/ clock' = clock + 1
        BY <1>12 DEF ClientExits
    <2> QED BY <2>1, OwnKept DEF PumpsOwn, Own, Rows
  <1>13. CASE SweepRow
    <2> SUFFICES ASSUME NEW j \in Kind PROVE Own(j)'
        BY DEF PumpsOwn, Own
    <2> DEFINE m == FirstOf(Strays)
    <2>1. m \in Rows /\ KindOf[m] \notin driven
        BY <1>13, SweepEffect DEF Strays, NotDriven
    <2>2. \A n \in Rows : n # m => n \in Rows' /\ row'[n] = row[n]
        BY <1>13, <2>1, SweepEffect, FailedEffect DEF Rows
    <2>3. pump' = pump /\ up' = up /\ driven' = driven /\ clock' = clock
        BY <1>13 DEF SweepRow
    <2> HIDE DEF m
    <2>4. Own(j) /\ (pump[j].step # "sleep" => j \in driven)
        BY DEF PumpsOwn, Own
    <2> QED BY <2>1, <2>2, <2>3, <2>4, OwnKept
  <1>14. CASE Tick
    <2> SUFFICES ASSUME NEW j \in Kind PROVE Own(j)'
        BY DEF PumpsOwn, Own
    <2>1. /\ pump' = pump /\ row' = row /\ up' = up /\ driven' = driven
          /\ clock' = clock \/ clock' = clock + 1
        BY <1>14 DEF Tick
    <2> QED BY <2>1, OwnKept DEF PumpsOwn, Own, Rows
  <1>15. CASE Crash
    <2>1. \A j \in Kind : pump'[j] = Asleep
        BY <1>15 DEF Crash
    <2>2. 0 <= clock' /\ clock' \in Nat
        BY <1>15, OutboxConstants DEF Crash, PlainOK
    <2> QED BY <2>1, <2>2, AsleepTyped DEF PumpsOwn, Own, Busy
  <1>16. ASSUME NEW kinds \in Config, Restart(kinds) PROVE PumpsOwn'
    <2> SUFFICES ASSUME NEW j \in Kind PROVE Own(j)'
        BY DEF PumpsOwn, Own
    <2>1. pump' = pump /\ row' = row /\ clock' = clock /\ ~up
        BY <1>16 DEF Restart
    <2>2. Own(j) /\ pump[j].step = "sleep"
        BY <2>1 DEF PumpsOwn, Own
    <2> QED BY <2>1, <2>2, OwnKept DEF Rows
  <1>17. CASE UNCHANGED vars
      BY <1>17 DEF vars, PumpsOwn, Own, Busy, Rows
  <1>18. CASE Elsewhere
      BY <1>18, ElsewhereQuiet DEF PumpsOwn, Own, Busy, Rows
  <1> QED BY <1>1, <1>2, <1>3, <1>4, <1>5, <1>6, <1>7, <1>8, <1>9, <1>10, <1>11, <1>12,
             <1>13, <1>14, <1>15, <1>16, <1>17, <1>18
          DEF Next, Driver, Elsewhere

LEMMA TypesInit == Init => Types /\ Ids
  <1> SUFFICES ASSUME Init PROVE Types /\ Ids
      OBVIOUS
  <1>1. LiveOK
      BY OutboxConstants DEF Init, LiveOK
  <1>2. CarriedOK
      BY DEF Init, CarriedOK
  <1>3. NoRow \in RowSet /\ NoRow.id = 0
      BY OutboxConstants DEF NoRow, RowSet
  <1>4. StoreOK /\ Rows = {}
      BY <1>3 DEF Init, StoreOK, Rows
  <1>5. PumpOK
      BY AsleepTyped DEF Init, PumpOK
  <1>6. PlainOK
      BY <1>4, OutboxConstants DEF Init, PlainOK
  <1>7. PumpsOwn
    <2>1. \A k \in Kind : pump[k] = Asleep /\ 0 <= clock
        BY DEF Init
    <2> QED BY <2>1, AsleepTyped DEF PumpsOwn, Own, Busy
  <1>8. RowsDone /\ Ids
      BY <1>4 DEF RowsDone, Ids
  <1> QED BY <1>1, <1>2, <1>4, <1>5, <1>6, <1>7, <1>8 DEF Types

LEMMA TypesStep == Types /\ Ids /\ [Next]_vars => (Types /\ Ids)'
  BY LiveStep, CarriedStep, StoreStep, PumpStep, PlainStep, PumpsOwnStep, RowsDoneStep, IdsStep DEF Types

\* The types, the rows a driver works on, and the ids that order the rows.
THEOREM OutboxTypeCorrect == Spec => []TypeOK
  <1>1. Spec => [](Types /\ Ids)
      BY TypesInit, TypesStep, PTL DEF Spec
  <1>2. Types /\ Ids => TypeOK
    <2> SUFFICES ASSUME Types, Ids PROVE TypeOK
        OBVIOUS
    <2>1. /\ pc \in [Msg -> {"new", "send", "keep", "done"}] /\ told \in [Msg -> {"nothing", "ok", "error"}]
          /\ \A m \in Msg : at[m] \in 1 .. Chunks[m]
          /\ out \in [Piece -> Nat] /\ queued \in [Piece -> Nat] /\ doubts \in [Msg -> Nat] /\ lost \subseteq Piece
        BY DEF Types, LiveOK, CarriedOK, PlainOK
    <2>2. /\ row \in [Msg -> [id : Nat, from : Nat \ {0}, tries : 0 .. MaxAttempts - 1, due : 0 .. MaxClock]]
          /\ \A m \in Rows : row[m].from <= Chunks[m]
          /\ \A a, b \in Rows : row[a].id = row[b].id => a = b
        BY DEF Types, StoreOK, RowSet, RowsDone, Ids
    <2>3. /\ driven \subseteq Kind /\ open \subseteq Kind /\ up \in BOOLEAN
          /\ clock \in 0 .. MaxClock /\ faults \in 0 .. MaxFaults
          /\ attempted \subseteq Msg /\ spent \subseteq Msg /\ seen \subseteq Msg
        BY DEF Types, PlainOK, Rows
    <2>4. ASSUME NEW k \in Kind
          PROVE  /\ pump[k].step \in {"sleep", "next", "deliver", "sent", "failed"}
                 /\ pump[k].todo \subseteq {m \in Rows : KindOf[m] = k}
                 /\ pump[k].now \in 0 .. clock
                 /\ pump[k].step \in {"deliver", "sent", "failed"} =>
                      /\ pump[k].row \in Rows \ pump[k].todo /\ KindOf[pump[k].row] = k
                      /\ pump[k].at \in row[pump[k].row].from .. Chunks[pump[k].row]
      <3>1. Own(k) /\ pump[k] \in Pump
          BY DEF Types, PumpsOwn, Own, PumpOK
      <3>2. pump[k].step \in Phases /\ pump[k].now \in Nat /\ clock \in Nat /\ pump[k].at \in Nat
          BY <3>1, OutboxConstants DEF Pump, Types, PlainOK
      <3>3. pump[k].now \in 0 .. clock /\ pump[k].todo \subseteq {m \in Rows : KindOf[m] = k}
          BY <3>1, <3>2 DEF Own
      <3>4. ASSUME Busy(k)
            PROVE  /\ pump[k].row \in Rows \ pump[k].todo /\ KindOf[pump[k].row] = k
                   /\ pump[k].at \in row[pump[k].row].from .. Chunks[pump[k].row]
        <4>1. row[pump[k].row].from \in Nat /\ Chunks[pump[k].row] \in Nat
            BY <3>1, <3>4, OutboxConstants DEF Own, Types, StoreOK, RowSet, Rows
        <4> QED BY <3>1, <3>2, <3>4, <4>1 DEF Own
      <3> QED BY <3>2, <3>3, <3>4 DEF Phases, Busy
    <2> QED BY <2>1, <2>2, <2>3, <2>4 DEF TypeOK
  <1> QED BY <1>1, <1>2, PTL

-----------------------------------------------------------------------------
(* What was reported as sent went out, is kept, or was lost with a channel *)

LEMMA Working ==
    ASSUME Types, NEW k \in Kind, Busy(k)
    PROVE  /\ pump[k].row \in Msg /\ pump[k].row \in Rows /\ pump[k].at \in 1 .. Chunks[pump[k].row]
           /\ KindOf[pump[k].row] = k /\ pc[pump[k].row] = "done"
           /\ row[pump[k].row].from \in Nat /\ row[pump[k].row].from >= 1
           /\ row[pump[k].row].from <= pump[k].at /\ pump[k].at \in Nat
  <1>1. pump[k].row \in Msg /\ pump[k].row \in Rows /\ KindOf[pump[k].row] = k /\ pc[pump[k].row] = "done"
      BY DEF Types, PumpsOwn, Own, Rows, RowsDone
  <1>2. /\ row[pump[k].row].from \in Nat /\ row[pump[k].row].from >= 1
        /\ row[pump[k].row].from <= pump[k].at /\ pump[k].at <= Chunks[pump[k].row]
        /\ pump[k].at \in Nat /\ Chunks[pump[k].row] \in Nat
      BY <1>1, OutboxConstants DEF Types, PumpsOwn, Own, PumpOK, Pump, StoreOK, RowSet
  <1> QED BY <1>1, <1>2

\* The chunk that a live send or a driver is at, and what becomes of it.
LEMMA LiveCarries ==
    ASSUME Types, NEW m \in Msg, SendChunk(m) \/ SendUnclear(m)
    PROVE  /\ pc[m] = "send" /\ at[m] \in 1 .. Chunks[m] /\ <<m, at[m]>> \in Piece /\ Chunks[m] \in Nat
           /\ UNCHANGED <<row, pump, seen>>
           /\ SendChunk(m) => Hand(<<m, at[m]>>)
           /\ Hand(<<m, at[m]>>) \/ UNCHANGED <<out, queued, lost>>
  <1>1. at[m] \in 1 .. Chunks[m] /\ <<m, at[m]>> \in Piece /\ Chunks[m] \in Nat
      BY PieceOf, OutboxConstants DEF Types, LiveOK
  <1> QED BY <1>1 DEF SendChunk, SendUnclear

LEMMA DriverCarries ==
    ASSUME Types, NEW k \in Kind, DeliverChunk(k) \/ DeliverFails(k)
    PROVE  /\ pump[k].step = "deliver" /\ Busy(k) /\ <<pump[k].row, pump[k].at>> \in Piece
           /\ UNCHANGED <<pc, at, told, row>>
           /\ DeliverChunk(k) => HandRow(pump[k].row, pump[k].at)
           /\ HandRow(pump[k].row, pump[k].at) \/ UNCHANGED carried
           /\ \/ Hand(<<pump[k].row, pump[k].at>>) /\ seen' = seen /\ ~HasKey(pump[k].row)
              \/ /\ Hand(<<pump[k].row, pump[k].at>>) /\ HasKey(pump[k].row)
                 /\ pump[k].row \notin seen /\ seen' = seen \cup {pump[k].row}
              \/ UNCHANGED carried /\ HasKey(pump[k].row) /\ pump[k].row \in seen
              \/ UNCHANGED carried /\ DeliverFails(k)
  <1>1. pump[k].step = "deliver" /\ Busy(k) /\ UNCHANGED <<pc, at, told, row>>
      BY DEF DeliverChunk, DeliverFails, Busy
  <1>2. <<pump[k].row, pump[k].at>> \in Piece
      BY <1>1, Working, PieceOf
  <1>3. /\ DeliverChunk(k) => HandRow(pump[k].row, pump[k].at)
        /\ HandRow(pump[k].row, pump[k].at) \/ (UNCHANGED carried /\ DeliverFails(k))
      BY DEF DeliverChunk, DeliverFails
  <1> QED BY <1>1, <1>2, <1>3 DEF HandRow, KeyOf

LEMMA DriverHands ==
    ASSUME Types, NEW k \in Kind, DeliverChunk(k) \/ DeliverFails(k)
    PROVE  /\ \/ /\ <<pump[k].row, pump[k].at>> \in Gone'
                 /\ seen' = seen \/ (HasKey(pump[k].row) /\ seen' = seen \cup {pump[k].row})
              \/ UNCHANGED carried
           /\ DeliverChunk(k) => \/ <<pump[k].row, pump[k].at>> \in Gone'
                                 \/ HasKey(pump[k].row) /\ pump[k].row \in seen
  <1>1. CASE Hand(<<pump[k].row, pump[k].at>>)
    <2>1. CarriedOK /\ <<pump[k].row, pump[k].at>> \in Piece
        BY DriverCarries DEF Types
    <2>2. <<pump[k].row, pump[k].at>> \in Gone'
        BY <1>1, <2>1, HandEffect
    <2>3. seen' = seen \/ (HasKey(pump[k].row) /\ seen' = seen \cup {pump[k].row})
        BY DriverCarries DEF carried
    <2> QED BY <2>2, <2>3
  <1>2. CASE ~Hand(<<pump[k].row, pump[k].at>>)
    <2>1. UNCHANGED carried
        BY <1>2, DriverCarries
    <2>2. DeliverChunk(k) => HasKey(pump[k].row) /\ pump[k].row \in seen
        BY <1>2, DriverCarries DEF HandRow, KeyOf
    <2> QED BY <2>1, <2>2
  <1> QED BY <1>1, <1>2

\* What went out or got into a channel stays so: a loss is remembered.
Grown == Gone \subseteq Gone'

LEMMA Grows == Types /\ [Next]_vars => Grown
  <1> SUFFICES ASSUME Types, [Next]_vars PROVE Grown
      OBVIOUS
  <1>c. CarriedOK
      BY DEF Types
  <1>q. ASSUME UNCHANGED carried PROVE Grown
      BY <1>c, <1>q, StillEffect DEF Grown, carried
  <1>1. ASSUME NEW m \in Msg, StartSend(m) PROVE Grown
      BY <1>1, <1>q DEF StartSend
  <1>2. ASSUME NEW m \in Msg, SendChunk(m) PROVE Grown
      BY <1>2, <1>c, LiveCarries, HandEffect, StillEffect DEF Grown
  <1>3. ASSUME NEW m \in Msg, SendUnclear(m) PROVE Grown
      BY <1>3, <1>c, LiveCarries, HandEffect, StillEffect DEF Grown
  <1>4. ASSUME NEW m \in Msg, SendRefused(m) PROVE Grown
      BY <1>4, <1>q DEF SendRefused
  <1>5. ASSUME NEW m \in Msg, Keep(m) PROVE Grown
      BY <1>5, <1>q DEF Keep
  <1>6. ASSUME NEW k \in Kind, Fetch(k) PROVE Grown
      BY <1>6, <1>q DEF Fetch
  <1>7. ASSUME NEW k \in Kind, Take(k) PROVE Grown
      BY <1>7, <1>q DEF Take
  <1>8. ASSUME NEW k \in Kind, DeliverChunk(k) PROVE Grown
      BY <1>8, <1>c, <1>q, DriverCarries, HandEffect DEF Grown
  <1>9. ASSUME NEW k \in Kind, DeliverFails(k) PROVE Grown
      BY <1>9, <1>c, <1>q, DriverCarries, HandEffect DEF Grown
  <1>10. ASSUME NEW k \in Kind, MarkSent(k) PROVE Grown
      BY <1>10, <1>q DEF MarkSent
  <1>11. ASSUME NEW k \in Kind, MarkFailed(k) PROVE Grown
      BY <1>11, <1>q DEF MarkFailed
  <1>12. ASSUME NEW k \in Kind, ClientExits(k) PROVE Grown
      BY <1>12, <1>c, DropEffect DEF ClientExits, Grown
  <1>13. CASE SweepRow
      BY <1>13, <1>q DEF SweepRow
  <1>14. CASE Tick
      BY <1>14, <1>q DEF Tick
  <1>15. CASE Crash
      BY <1>15, <1>c, DropEffect DEF Crash, Grown
  <1>16. ASSUME NEW kinds \in Config, Restart(kinds) PROVE Grown
      BY <1>16, <1>q DEF Restart
  <1>17. CASE UNCHANGED vars
      BY <1>17, <1>q DEF vars
  <1>18. CASE Elsewhere
    <2>1. ASSUME NEW m \in Msg, KeyExpires(m) PROVE Grown
        BY <1>c, <2>1, StillEffect DEF KeyExpires, Grown
    <2> QED BY <1>18, <1>c, <2>1, UnqueueEffect DEF Elsewhere, Grown
  <1> QED BY <1>1, <1>2, <1>3, <1>4, <1>5, <1>6, <1>7, <1>8, <1>9, <1>10, <1>11, <1>12,
             <1>13, <1>14, <1>15, <1>16, <1>17, <1>18
          DEF Next, Driver, Elsewhere

\* A message whose send is not finished: nothing is reported yet, and the chunks
\* before the current one went out or got into the channel.
LiveKept ==
    \A m \in Msg :
        /\ pc[m] # "done" => told[m] = "nothing"
        /\ pc[m] = "new" => at[m] = 1
        /\ pc[m] \in {"send", "keep"} => \A i \in 1 .. Chunks[m] : i < at[m] => <<m, i>> \in Gone

LEMMA LiveKeptStep == Types /\ Ids /\ LiveKept /\ [Next]_vars => LiveKept'
  <1> SUFFICES ASSUME Types, Ids, LiveKept, [Next]_vars PROVE LiveKept'
      OBVIOUS
  <1>g. Grown
      BY Grows
  <1>q. ASSUME pc' = pc, at' = at, told' = told PROVE LiveKept'
      BY <1>g, <1>q DEF LiveKept, Grown
  <1>1. ASSUME NEW m \in Msg, StartSend(m) PROVE LiveKept'
    <2>1. /\ pc' = [pc EXCEPT ![m] = "send"] /\ pc[m] = "new" /\ at' = at /\ told' = told
        BY <1>1 DEF StartSend, Goto
    <2>2. \A n \in Msg : pc'[n] = IF n = m THEN "send" ELSE pc[n]
        BY <2>1 DEF Types, LiveOK
    <2>3. \A i \in 1 .. Chunks[m] : ~(i < 1)
        BY OutboxConstants
    <2> QED BY <1>g, <2>1, <2>2, <2>3 DEF LiveKept, Grown
  <1>2. ASSUME NEW m \in Msg, SendChunk(m) PROVE LiveKept'
    <2>1. at[m] \in 1 .. Chunks[m] /\ pc[m] = "send"
        BY <1>2, LiveCarries
    <2>2. <<m, at[m]>> \in Gone'
        BY <1>2, LiveCarries, HandEffect DEF Types
    <2>3. \/ pc' = [pc EXCEPT ![m] = "done"] /\ at' = [at EXCEPT ![m] = 1] /\ told' = [told EXCEPT ![m] = "ok"]
          \/ at' = [at EXCEPT ![m] = @ + 1] /\ pc' = pc /\ told' = told
        BY <1>2 DEF SendChunk, Tell, Goto
    <2>4. ASSUME NEW n \in Msg, n # m
          PROVE  pc'[n] = pc[n] /\ at'[n] = at[n] /\ told'[n] = told[n]
        BY <2>3, <2>4 DEF Types, LiveOK
    <2>5. \/ pc'[m] = "done"
          \/ pc'[m] = "send" /\ at'[m] = at[m] + 1 /\ told'[m] = told[m]
        BY <2>1, <2>3 DEF Types, LiveOK
    <2>6. \A i \in 1 .. Chunks[m] : i < at[m] + 1 => <<m, i>> \in Gone'
      <3> SUFFICES ASSUME NEW i \in 1 .. Chunks[m], i < at[m] + 1 PROVE <<m, i>> \in Gone'
          OBVIOUS
      <3>1. i = at[m] \/ i < at[m]
          BY <2>1, OutboxConstants
      <3> QED BY <1>g, <2>1, <2>2, <3>1 DEF LiveKept, Grown
    <2> QED BY <1>g, <2>1, <2>4, <2>5, <2>6 DEF LiveKept, Grown
  <1>3. ASSUME NEW m \in Msg, SendUnclear(m) PROVE LiveKept'
    <2>1. pc[m] \in {"send", "keep"}
        BY <1>3 DEF SendUnclear
    <2>2. \A n \in Msg : n # m => pc'[n] = pc[n] /\ at'[n] = at[n] /\ told'[n] = told[n]
        BY <1>3 DEF SendUnclear, Tell, Goto, Types, LiveOK
    <2>3. pc'[m] = "done" \/ (pc'[m] = "keep" /\ at'[m] = at[m] /\ told'[m] = told[m])
        BY <1>3 DEF SendUnclear, Tell, Goto, Types, LiveOK
    <2> QED BY <1>g, <2>1, <2>2, <2>3 DEF LiveKept, Grown
  <1>4. ASSUME NEW m \in Msg, SendRefused(m) PROVE LiveKept'
    <2>1. pc[m] \in {"send", "keep"}
        BY <1>4 DEF SendRefused
    <2>2. \A n \in Msg : n # m => pc'[n] = pc[n] /\ at'[n] = at[n] /\ told'[n] = told[n]
        BY <1>4 DEF SendRefused, Tell, Goto, Types, LiveOK
    <2>3. pc'[m] = "done" \/ (pc'[m] = "keep" /\ at'[m] = at[m] /\ told'[m] = told[m])
        BY <1>4 DEF SendRefused, Tell, Goto, Types, LiveOK
    <2> QED BY <1>g, <2>1, <2>2, <2>3 DEF LiveKept, Grown
  <1>5. ASSUME NEW m \in Msg, Keep(m) PROVE LiveKept'
    <2>1. pc[m] \in {"send", "keep"}
        BY <1>5 DEF Keep
    <2>2. \A n \in Msg : n # m => pc'[n] = pc[n] /\ at'[n] = at[n] /\ told'[n] = told[n]
        BY <1>5 DEF Keep, Tell, Goto, Types, LiveOK
    <2>3. pc'[m] = "done" \/ (pc'[m] = "keep" /\ at'[m] = at[m] /\ told'[m] = told[m])
        BY <1>5 DEF Keep, Tell, Goto, Types, LiveOK
    <2> QED BY <1>g, <2>1, <2>2, <2>3 DEF LiveKept, Grown
  <1>6. ASSUME NEW k \in Kind, Fetch(k) PROVE LiveKept'
      BY <1>6, <1>q DEF Fetch
  <1>7. ASSUME NEW k \in Kind, Take(k) PROVE LiveKept'
      BY <1>7, <1>q DEF Take
  <1>8. ASSUME NEW k \in Kind, DeliverChunk(k) PROVE LiveKept'
      BY <1>8, <1>q DEF DeliverChunk
  <1>9. ASSUME NEW k \in Kind, DeliverFails(k) PROVE LiveKept'
      BY <1>9, <1>q DEF DeliverFails
  <1>10. ASSUME NEW k \in Kind, MarkSent(k) PROVE LiveKept'
      BY <1>10, <1>q DEF MarkSent
  <1>11. ASSUME NEW k \in Kind, MarkFailed(k) PROVE LiveKept'
      BY <1>11, <1>q DEF MarkFailed
  <1>12. ASSUME NEW k \in Kind, ClientExits(k) PROVE LiveKept'
      BY <1>12, <1>q DEF ClientExits
  <1>13. CASE SweepRow
      BY <1>13, <1>q DEF SweepRow
  <1>14. CASE Tick
      BY <1>14, <1>q DEF Tick
  <1>15. CASE Crash
    <2>1. \A n \in Msg : at'[n] = 1 /\ told'[n] = told[n] /\ (pc'[n] = "done" \/ (pc'[n] = "new" /\ pc[n] = "new"))
        BY <1>15 DEF Crash, Types, LiveOK
    <2> QED BY <2>1 DEF LiveKept
  <1>16. ASSUME NEW kinds \in Config, Restart(kinds) PROVE LiveKept'
      BY <1>16, <1>q DEF Restart
  <1>17. CASE UNCHANGED vars
      BY <1>17, <1>q DEF vars
  <1>18. CASE Elsewhere
      BY <1>18, <1>q, ElsewhereQuiet
  <1> QED BY <1>1, <1>2, <1>3, <1>4, <1>5, <1>6, <1>7, <1>8, <1>9, <1>10, <1>11, <1>12,
             <1>13, <1>14, <1>15, <1>16, <1>17, <1>18
          DEF Next, Driver, Elsewhere

\* A driver has handed over the chunks of its row up to its place; a key that the
\* platform remembers stands for its only chunk.
SentKept(k) ==
    Busy(k) => \A i \in 1 .. Chunks[pump[k].row] :
        row[pump[k].row].from <= i /\ (i < pump[k].at \/ pump[k].step = "sent") => <<pump[k].row, i>> \in Gone
SeenKept   == \A m \in seen : HasKey(m) /\ \A i \in 1 .. Chunks[m] : <<m, i>> \in Gone
DriverKept == SeenKept /\ \A k \in Kind : SentKept(k)

LEMMA SentStays ==
    ASSUME Types, Grown, NEW k \in Kind, SentKept(k), pump'[k] = pump[k],
           \A m \in Rows : KindOf[m] = k /\ Busy(k) => row'[m].from = row[m].from
    PROVE  SentKept(k)'
  <1>1. Busy(k) => pump[k].row \in Rows /\ pump[k].row \in Msg /\ KindOf[pump[k].row] = k
      BY Working
  <1> QED BY <1>1 DEF SentKept, Busy, Grown

LEMMA DriverKeptStep == Types /\ Ids /\ DriverKept /\ [Next]_vars => DriverKept'
  <1> SUFFICES ASSUME Types, Ids, DriverKept, [Next]_vars PROVE DriverKept'
      OBVIOUS
  <1>g. Grown
      BY Grows
  <1>s. SeenKept /\ \A k \in Kind : SentKept(k)
      BY DEF DriverKept
  <1>q. ASSUME pump' = pump, row' = row, seen' = seen PROVE DriverKept'
      BY <1>g, <1>s, <1>q, SentStays DEF SeenKept, Grown, DriverKept, HasKey, IsDirect
  <1>1. ASSUME NEW m \in Msg, StartSend(m) PROVE DriverKept'
      BY <1>1, <1>q DEF StartSend, carried
  <1>2. ASSUME NEW m \in Msg, SendChunk(m) PROVE DriverKept'
      BY <1>2, <1>q, LiveCarries
  <1>3. ASSUME NEW m \in Msg, SendUnclear(m) PROVE DriverKept'
      BY <1>3, <1>q, LiveCarries
  <1>4. ASSUME NEW m \in Msg, SendRefused(m) PROVE DriverKept'
      BY <1>4, <1>q DEF SendRefused, carried
  <1>5. ASSUME NEW m \in Msg, Keep(m) PROVE DriverKept'
    <2>s. SeenKept'
      <3>1. seen' = seen
          BY <1>5 DEF Keep, carried
      <3> QED BY <1>g, <1>s, <3>1 DEF SeenKept, Grown, HasKey, IsDirect
    <2>1. \A j \in Kind : pump'[j] = pump[j]
        BY <1>5 DEF Keep
    <2>2. \A n \in Rows : n # m /\ row'[n] = row[n]
        BY <1>5, KeepEffect DEF Keep, Types, RowsDone, Rows
    <2> QED BY <1>g, <1>s, <2>s, <2>1, <2>2, SentStays DEF DriverKept
  <1>6. ASSUME NEW k \in Kind, Fetch(k) PROVE DriverKept'
    <2>s. SeenKept'
      <3>1. seen' = seen
          BY <1>6 DEF Fetch, carried
      <3> QED BY <1>g, <1>s, <3>1 DEF SeenKept, Grown, HasKey, IsDirect
    <2>1. Others(k) /\ row' = row
        BY <1>6, FetchEffect DEF Fetch, Phases, Types
    <2>2. \A j \in Kind : j # k => SentKept(j)'
        BY <1>g, <1>s, <2>1, SentStays DEF Others
    <2>3. pump'[k].step = "next"
        BY <1>6, FetchEffect DEF Types
    <2> QED BY <2>s, <2>2, <2>3 DEF DriverKept, SentKept, Busy
  <1>7. ASSUME NEW k \in Kind, Take(k) PROVE DriverKept'
    <2>s. SeenKept'
      <3>1. seen' = seen
          BY <1>7 DEF Take, carried
      <3> QED BY <1>g, <1>s, <3>1 DEF SeenKept, Grown, HasKey, IsDirect
    <2>1. Others(k) /\ row' = row
        BY <1>7, TakenEffect DEF Take, Phases, Types
    <2>2. \A j \in Kind : j # k => SentKept(j)'
        BY <1>g, <1>s, <2>1, SentStays DEF Others
    <2>3. \/ pump'[k] = Asleep
          \/ pump'[k].step = "deliver" /\ pump'[k].row \in Rows /\ pump'[k].at = row[pump'[k].row].from
        BY <1>7, TakenEffect DEF Types
    <2>4. \A i \in Nat, n \in Rows : ~(row[n].from <= i /\ i < row[n].from)
        BY DEF Types, StoreOK, RowSet, Rows
    <2>5. \A n \in Rows : Chunks[n] \in Nat
        BY OutboxConstants DEF Rows
    <2>6. SentKept(k)'
      <3>1. CASE pump'[k] = Asleep
          BY <3>1, AsleepTyped DEF SentKept, Busy
      <3>2. CASE pump'[k].step = "deliver" /\ pump'[k].row \in Rows /\ pump'[k].at = row[pump'[k].row].from
          BY <2>1, <2>4, <2>5, <3>2 DEF SentKept, Busy
      <3> QED BY <2>3, <3>1, <3>2
    <2> QED BY <2>s, <2>2, <2>6 DEF DriverKept
  <1>8. ASSUME NEW k \in Kind, DeliverChunk(k) PROVE DriverKept'
    <2> DEFINE m == pump[k].row
    <2>0. Busy(k) /\ m \in Msg /\ m \in Rows /\ pump[k].at \in 1 .. Chunks[m]
          /\ pump[k].step = "deliver" /\ Chunks[m] \in Nat
        BY <1>8, Working, OutboxConstants DEF DeliverChunk, Busy, Types
    <2>1. Others(k) /\ row' = row
        BY <1>8, StepEffect, NextChunkEffect DEF DeliverChunk, Phases, Types
    <2>2. \A j \in Kind : j # k => SentKept(j)'
        BY <1>g, <1>s, <2>1, SentStays DEF Others
    <2>3. <<m, pump[k].at>> \in Gone' /\ (seen' = seen \/ (seen' = seen \cup {m} /\ HasKey(m)))
      <3>1. m \in seen /\ HasKey(m) => <<m, pump[k].at>> \in Gone'
          BY <1>g, <1>s, <2>0 DEF SeenKept, Grown
      <3> QED BY <1>8, <3>1, DriverHands DEF carried
    <2>4. SeenKept'
      <3>1. HasKey(m) => \A i \in 1 .. Chunks[m] : i = pump[k].at
          BY <2>0, OutboxConstants DEF HasKey, IsDirect
      <3> QED BY <1>g, <1>s, <2>0, <2>3, <3>1 DEF SeenKept, Grown, HasKey, IsDirect
    <2>5. \A i \in 1 .. Chunks[m] : row[m].from <= i /\ i <= pump[k].at => <<m, i>> \in Gone'
      <3> SUFFICES ASSUME NEW i \in 1 .. Chunks[m], row[m].from <= i, i <= pump[k].at PROVE <<m, i>> \in Gone'
          OBVIOUS
      <3>1. i = pump[k].at \/ i < pump[k].at
          BY <2>0
      <3> QED BY <1>g, <1>s, <2>0, <2>3, <3>1 DEF SentKept, Grown
    <2>6. \/ /\ pump'[k].row = m /\ pump'[k].at = pump[k].at /\ pump[k].at = Chunks[m]
          \/ pump'[k].row = m /\ pump'[k].at = pump[k].at + 1 /\ pump'[k].step = "deliver"
      <3>1. (pump[k].at = Chunks[m] /\ Step(k, "sent")) \/ pump' = [pump EXCEPT ![k].at = @ + 1]
          BY <1>8 DEF DeliverChunk
      <3> QED BY <2>0, <3>1, StepEffect, NextChunkEffect DEF Phases, Types
    <2> HIDE DEF m
    <2>7. SentKept(k)'
      <3> SUFFICES ASSUME NEW i \in 1 .. Chunks[m], row[m].from <= i, i < pump'[k].at \/ pump'[k].step = "sent"
                   PROVE  <<m, i>> \in Gone'
          BY <2>1, <2>6 DEF SentKept
      <3>1. i <= pump[k].at
          BY <2>0, <2>6
      <3> QED BY <2>5, <3>1
    <2> QED BY <2>2, <2>4, <2>7 DEF DriverKept
  <1>9. ASSUME NEW k \in Kind, DeliverFails(k) PROVE DriverKept'
    <2> DEFINE m == pump[k].row
    <2>0. Busy(k) /\ m \in Msg /\ m \in Rows /\ pump[k].at \in 1 .. Chunks[m]
          /\ pump[k].step = "deliver" /\ Chunks[m] \in Nat
        BY <1>9, Working, OutboxConstants DEF DeliverFails, Busy, Types
    <2>1. Others(k) /\ row' = row /\ pump'[k].row = m /\ pump'[k].at = pump[k].at /\ pump'[k].step = "failed"
        BY <1>9, StepEffect DEF DeliverFails, Phases, Types
    <2>2. \A j \in Kind : j # k => SentKept(j)'
        BY <1>g, <1>s, <2>1, SentStays DEF Others
    <2>3. seen' = seen \/ (seen' = seen \cup {m} /\ HasKey(m) /\ <<m, pump[k].at>> \in Gone')
        BY <1>9, DriverHands DEF carried
    <2>4. SeenKept'
      <3>1. HasKey(m) => \A i \in 1 .. Chunks[m] : i = pump[k].at
          BY <2>0, OutboxConstants DEF HasKey, IsDirect
      <3> QED BY <1>g, <1>s, <2>0, <2>3, <3>1 DEF SeenKept, Grown, HasKey, IsDirect
    <2> HIDE DEF m
    <2>5. SentKept(k)'
        BY <1>g, <1>s, <2>0, <2>1 DEF SentKept, Grown, m
    <2> QED BY <2>2, <2>4, <2>5 DEF DriverKept
  <1>10. ASSUME NEW k \in Kind, MarkSent(k) PROVE DriverKept'
    <2>s. SeenKept'
      <3>1. seen' = seen
          BY <1>10 DEF MarkSent, carried
      <3> QED BY <1>g, <1>s, <3>1 DEF SeenKept, Grown, HasKey, IsDirect
    <2>0. Busy(k) /\ pump[k].row \in Msg /\ pump[k].row \in Rows /\ KindOf[pump[k].row] = k
        BY <1>10, Working DEF MarkSent, Busy
    <2>1. Others(k) /\ pump'[k].step = "next"
        BY <1>10, StepEffect DEF MarkSent, Phases, Types
    <2>3. \A n \in Rows : n # pump[k].row => row'[n] = row[n]
        BY <1>10, <2>0, RemoveEffect DEF MarkSent, Types, Rows
    <2>4. \A j \in Kind : j # k => SentKept(j)'
        BY <1>g, <1>s, <2>0, <2>1, <2>3, SentStays DEF Others
    <2>5. SentKept(k)'
        BY <2>1 DEF SentKept, Busy
    <2> QED BY <2>s, <2>4, <2>5 DEF DriverKept
  <1>11. ASSUME NEW k \in Kind, MarkFailed(k) PROVE DriverKept'
    <2>s. SeenKept'
      <3>1. seen' = seen
          BY <1>11 DEF MarkFailed, carried
      <3> QED BY <1>g, <1>s, <3>1 DEF SeenKept, Grown, HasKey, IsDirect
    <2>0. Busy(k) /\ pump[k].row \in Msg /\ pump[k].row \in Rows /\ KindOf[pump[k].row] = k
        BY <1>11, Working DEF MarkFailed, Busy
    <2>1. Others(k) /\ pump'[k].step = "next"
        BY <1>11, StepEffect DEF MarkFailed, Phases, Types
    <2>3. \A n \in Rows : n # pump[k].row => row'[n] = row[n]
        BY <1>11, MarkFailedEffect, FailedEffect DEF Types, Rows
    <2>4. \A j \in Kind : j # k => SentKept(j)'
        BY <1>g, <1>s, <2>0, <2>1, <2>3, SentStays DEF Others
    <2>5. SentKept(k)'
        BY <2>1 DEF SentKept, Busy
    <2> QED BY <2>s, <2>4, <2>5 DEF DriverKept
  <1>12. ASSUME NEW k \in Kind, ClientExits(k) PROVE DriverKept'
      BY <1>12, <1>q DEF ClientExits, Drop
  <1>13. CASE SweepRow
    <2>s. SeenKept'
      <3>1. seen' = seen
          BY <1>13 DEF SweepRow, carried
      <3> QED BY <1>g, <1>s, <3>1 DEF SeenKept, Grown, HasKey, IsDirect
    <2>1. \A j \in Kind : pump'[j] = pump[j]
        BY <1>13 DEF SweepRow
    <2> DEFINE m == FirstOf(Strays)
    <2>2. m \in Rows /\ KindOf[m] \notin driven
        BY <1>13, SweepEffect DEF Types, Strays, NotDriven
    <2>3. \A n \in Rows : n # m => row'[n] = row[n]
        BY <1>13, <2>2, SweepEffect, FailedEffect DEF Types, Rows
    <2>4. \A j \in Kind : Busy(j) => j \in driven
        BY DEF Types, PumpsOwn, Own, Busy
    <2> HIDE DEF m
    <2> QED BY <1>g, <1>s, <2>s, <2>1, <2>2, <2>3, <2>4, SentStays DEF DriverKept
  <1>14. CASE Tick
      BY <1>14, <1>q DEF Tick, carried
  <1>15. CASE Crash
    <2>s. SeenKept'
      <3>1. seen' = seen
          BY <1>15 DEF Crash, Drop
      <3> QED BY <1>g, <1>s, <3>1 DEF SeenKept, Grown, HasKey, IsDirect
    <2>1. \A j \in Kind : pump'[j] = Asleep
        BY <1>15 DEF Crash
    <2> QED BY <2>s, <2>1, AsleepTyped DEF DriverKept, SentKept, Busy
  <1>16. ASSUME NEW kinds \in Config, Restart(kinds) PROVE DriverKept'
      BY <1>16, <1>q DEF Restart, carried
  <1>17. CASE UNCHANGED vars
      BY <1>17, <1>q DEF vars, carried
  <1>18. CASE Elsewhere
    <2>1. UNCHANGED <<row, pump>> /\ seen' \subseteq seen
        BY <1>18, ElsewhereQuiet DEF Elsewhere, KeyExpires, ClientSends, ClientLoses
    <2>2. SeenKept'
        BY <1>g, <1>s, <2>1 DEF SeenKept, Grown, HasKey, IsDirect
    <2> QED BY <1>g, <1>s, <2>1, <2>2, SentStays DEF DriverKept
  <1> QED BY <1>1, <1>2, <1>3, <1>4, <1>5, <1>6, <1>7, <1>8, <1>9, <1>10, <1>11, <1>12,
             <1>13, <1>14, <1>15, <1>16, <1>17, <1>18
          DEF Next, Driver, Elsewhere

\* OkMeansKept, with what went out or got into a channel as one set.
Safe ==
    \A m \in Msg : told[m] = "ok" => \A i \in 1 .. Chunks[m] :
        <<m, i>> \in Gone \/ (m \in Rows /\ i >= row[m].from) \/ m \in spent

LEMMA OkStep == Types /\ Ids /\ LiveKept /\ DriverKept /\ Safe /\ [Next]_vars => Safe'
  <1> SUFFICES ASSUME Types, Ids, LiveKept, DriverKept, Safe, [Next]_vars PROVE Safe'
      OBVIOUS
  <1>g. Grown
      BY Grows
  <1>q. ASSUME told' = told, spent' = spent, \A m \in Rows : m \in Rows' /\ row'[m].from = row[m].from
        PROVE  Safe'
      BY <1>g, <1>q DEF Safe, Grown
  <1>1. ASSUME NEW m \in Msg, StartSend(m) PROVE Safe'
      BY <1>1, <1>q DEF Rows, StartSend
  <1>2. ASSUME NEW m \in Msg, SendChunk(m) PROVE Safe'
    <2>1. at[m] \in 1 .. Chunks[m] /\ pc[m] = "send" /\ Chunks[m] \in Nat
        BY <1>2, LiveCarries
    <2>2. <<m, at[m]>> \in Gone'
        BY <1>2, LiveCarries, HandEffect DEF Types
    <2>3. row' = row /\ spent' = spent
        BY <1>2 DEF SendChunk
    <2>4. \A n \in Msg : n # m => told'[n] = told[n]
        BY <1>2 DEF SendChunk, Tell, Types, LiveOK
    <2>5. CASE at[m] = Chunks[m]
      <3>1. \A i \in 1 .. Chunks[m] : i < at[m] \/ i = at[m]
          BY <2>1, <2>5
      <3>2. \A i \in 1 .. Chunks[m] : <<m, i>> \in Gone'
          BY <1>g, <2>1, <2>2, <3>1 DEF LiveKept, Grown
      <3> QED BY <1>g, <2>3, <2>4, <3>2 DEF Safe, Grown, Rows
    <2>6. CASE at[m] # Chunks[m]
      <3>1. told' = told
          BY <1>2, <2>6 DEF SendChunk
      <3> QED BY <2>3, <3>1, <1>q DEF Rows
    <2> QED BY <2>5, <2>6
  <1>3. ASSUME NEW m \in Msg, SendUnclear(m) PROVE Safe'
    <2>1. \A n \in Msg : told'[n] = told[n] \/ told'[n] # "ok"
        BY <1>3 DEF SendUnclear, Tell, Types, LiveOK
    <2>2. row' = row /\ spent' = spent
        BY <1>3 DEF SendUnclear
    <2> QED BY <1>g, <2>1, <2>2 DEF Safe, Grown, Rows
  <1>4. ASSUME NEW m \in Msg, SendRefused(m) PROVE Safe'
      BY <1>4, <1>q DEF Rows, SendRefused
  <1>5. ASSUME NEW m \in Msg, Keep(m) PROVE Safe'
    <2>1. /\ \A n \in Msg : n # m => told'[n] = told[n] /\ row'[n] = row[n]
          /\ \/ row'[m].from = at[m] /\ Rows' = Rows \cup {m}
             \/ UNCHANGED row /\ told'[m] = "error"
        BY <1>5, KeepEffect DEF Types
    <2>2. \A n \in Rows : n # m /\ n \in Rows'
        BY <1>5, <2>1 DEF Keep, Types, RowsDone, Rows
    <2>3. spent' = spent /\ pc[m] = "keep"
        BY <1>5 DEF Keep
    <2>4. \A i \in 1 .. Chunks[m] : i < at[m] \/ i >= at[m]
        BY OutboxConstants DEF Types, LiveOK
    <2>5. \A n \in Msg : n # m => told'[n] = told[n] /\ (n \in Rows => n \in Rows' /\ row'[n].from = row[n].from)
        BY <2>1, <2>2
    <2>6. told'[m] = "ok" => \A i \in 1 .. Chunks[m] : <<m, i>> \in Gone' \/ (m \in Rows' /\ i >= row'[m].from)
        BY <1>g, <2>1, <2>3, <2>4 DEF LiveKept, Grown
    <2> QED BY <1>g, <2>3, <2>5, <2>6 DEF Safe, Grown
  <1>6. ASSUME NEW k \in Kind, Fetch(k) PROVE Safe'
      BY <1>6, <1>q DEF Rows, Fetch
  <1>7. ASSUME NEW k \in Kind, Take(k) PROVE Safe'
      BY <1>7, <1>q DEF Rows, Take
  <1>8. ASSUME NEW k \in Kind, DeliverChunk(k) PROVE Safe'
      BY <1>8, <1>q DEF Rows, DeliverChunk
  <1>9. ASSUME NEW k \in Kind, DeliverFails(k) PROVE Safe'
      BY <1>9, <1>q DEF Rows, DeliverFails
  <1>10. ASSUME NEW k \in Kind, MarkSent(k) PROVE Safe'
    <2> DEFINE m == pump[k].row
    <2>0. Busy(k) /\ m \in Msg /\ pump[k].step = "sent"
        BY <1>10, Working DEF MarkSent, Busy
    <2>1. told' = told /\ spent' = spent
        BY <1>10 DEF MarkSent
    <2>2. UNCHANGED row \/ Remove(m)
        BY <1>10 DEF MarkSent
    <2>3. \A i \in 1 .. Chunks[m] : i >= row[m].from => <<m, i>> \in Gone'
        BY <1>g, <2>0 DEF DriverKept, SentKept, Grown
    <2> HIDE DEF m
    <2>4. CASE UNCHANGED row
        BY <1>q, <2>1, <2>4 DEF Rows
    <2>5. CASE Remove(m)
      <3>1. \A n \in Rows : n # m => n \in Rows' /\ row'[n] = row[n]
          BY <2>0, <2>5, RemoveEffect DEF Types, Rows
      <3> QED BY <1>g, <2>0, <2>1, <2>3, <3>1 DEF Safe, Grown
    <2> QED BY <2>2, <2>4, <2>5
  <1>11. ASSUME NEW k \in Kind, MarkFailed(k) PROVE Safe'
    <2> DEFINE m == pump[k].row
    <2>0. m \in Rows /\ (UNCHANGED <<row, attempted, spent>> \/ \E due \in 0 .. MaxClock : Failed(m, due))
        BY <1>11, MarkFailedEffect DEF Types
    <2>1. told' = told
        BY <1>11 DEF MarkFailed
    <2> HIDE DEF m
    <2>2. CASE /\ Rows' = Rows /\ spent' = spent /\ row'[m].from = row[m].from
               /\ \A n \in Msg : n # m => row'[n] = row[n]
        BY <1>q, <2>1, <2>2 DEF Rows
    <2>3. CASE /\ Rows' = Rows \ {m} /\ spent' = spent \cup {m}
               /\ \A n \in Msg : n # m => row'[n] = row[n]
        BY <1>g, <2>1, <2>3 DEF Safe, Grown, Rows
    <2>4. CASE UNCHANGED <<row, attempted, spent>>
        BY <1>q, <2>1, <2>4 DEF Rows
    <2> QED BY <2>0, <2>2, <2>3, <2>4, FailedEffect DEF Types
  <1>12. ASSUME NEW k \in Kind, ClientExits(k) PROVE Safe'
      BY <1>12, <1>q DEF Rows, ClientExits
  <1>13. CASE SweepRow
    <2> DEFINE m == FirstOf(Strays)
    <2>0. m \in Rows /\ \E due \in 0 .. MaxClock : Failed(m, due)
        BY <1>13, SweepEffect DEF Types, Strays
    <2>1. told' = told
        BY <1>13 DEF SweepRow
    <2> HIDE DEF m
    <2>2. CASE /\ Rows' = Rows /\ spent' = spent /\ row'[m].from = row[m].from
               /\ \A n \in Msg : n # m => row'[n] = row[n]
        BY <1>q, <2>1, <2>2 DEF Rows
    <2>3. CASE /\ Rows' = Rows \ {m} /\ spent' = spent \cup {m}
               /\ \A n \in Msg : n # m => row'[n] = row[n]
        BY <1>g, <2>1, <2>3 DEF Safe, Grown, Rows
    <2> QED BY <2>0, <2>2, <2>3, FailedEffect DEF Types
  <1>14. CASE Tick
      BY <1>14, <1>q DEF Rows, Tick
  <1>15. CASE Crash
      BY <1>15, <1>q DEF Rows, Crash
  <1>16. ASSUME NEW kinds \in Config, Restart(kinds) PROVE Safe'
      BY <1>16, <1>q DEF Rows, Restart
  <1>17. CASE UNCHANGED vars
      BY <1>17, <1>q DEF Rows, vars
  <1>18. CASE Elsewhere
      BY <1>18, <1>q, ElsewhereQuiet DEF Rows
  <1> QED BY <1>1, <1>2, <1>3, <1>4, <1>5, <1>6, <1>7, <1>8, <1>9, <1>10, <1>11, <1>12,
             <1>13, <1>14, <1>15, <1>16, <1>17, <1>18
          DEF Next, Driver, Elsewhere

LEMMA KeptInit == Init => LiveKept /\ DriverKept /\ Safe
  <1> SUFFICES ASSUME Init PROVE LiveKept /\ DriverKept /\ Safe
      OBVIOUS
  <1>1. LiveKept /\ Safe
      BY DEF Init, LiveKept, Safe
  <1>2. \A k \in Kind : pump[k] = Asleep
      BY DEF Init
  <1>3. DriverKept
      BY <1>2, AsleepTyped DEF Init, DriverKept, SeenKept, SentKept, Busy
  <1> QED BY <1>1, <1>3

\* When a send reports success every chunk went out, is in the channel of its
\* client or was lost with it, or is kept in a row until the attempts are used up.
THEOREM OkMeansKeptHolds == Spec => []OkMeansKept
  <1> DEFINE Inv == Types /\ Ids /\ LiveKept /\ DriverKept /\ Safe
  <1>1. Init => Inv
      BY TypesInit, KeptInit
  <1>2. Inv /\ [Next]_vars => Inv'
      BY TypesStep, LiveKeptStep, DriverKeptStep, OkStep
  <1>3. Inv => OkMeansKept
      BY PieceOf DEF Safe, Gone, OkMeansKept
  <1> HIDE DEF Inv
  <1> QED BY <1>1, <1>2, <1>3, PTL DEF Spec

-----------------------------------------------------------------------------
(* A chunk has no more copies than there are reasons for *)

\* The driver of a row has handed a chunk over, or its key stands for it.
Delivered(m, i) ==
    \/ HasKey(m) /\ m \in seen
    \/ ~HasKey(m) /\ \E k \in Kind : /\ pump[k].row = m
                                     /\ \/ pump[k].step = "sent"
                                        \/ pump[k].step = "deliver" /\ i < pump[k].at
\* The chunks whose one copy is still to come: from the live send, or from the row.
Open == {c \in Piece :
            \/ pc[c[1]] = "new"
            \/ pc[c[1]] \in {"send", "keep"} /\ c[2] >= at[c[1]]
            \/ c[1] \in Rows /\ c[2] >= row[c[1]].from /\ ~Delivered(c[1], c[2])}
Excused(c) == Copies[c] + (IF c \in Open THEN 1 ELSE 0) <= 1 + doubts[c[1]]
AllExcused == \A c \in Piece : Excused(c)

LEMMA CopiesTyped == CarriedOK => \A c \in Piece : Copies[c] \in Nat
  BY DEF CarriedOK, Copies

\* A new copy takes the place of the one that was to come, or has a new reason.
LEMMA ExcusedStays ==
    ASSUME CarriedOK, CarriedOK', doubts \in [Msg -> Nat], doubts' \in [Msg -> Nat],
           NEW c \in Piece, Excused(c), doubts[c[1]] <= doubts'[c[1]],
           \/ Copies'[c] <= Copies[c] /\ (c \in Open' => c \in Open)
           \/ Copies'[c] <= Copies[c] + 1 /\ c \in Open /\ c \notin Open'
           \/ Copies'[c] <= Copies[c] /\ doubts'[c[1]] >= doubts[c[1]] + 1
           \/ Copies'[c] <= Copies[c] + 1 /\ c \in Open /\ doubts'[c[1]] >= doubts[c[1]] + 1
    PROVE  Excused(c)'
  <1> DEFINE n == Copies[c]  n2 == Copies'[c]  d == doubts[c[1]]  d2 == doubts'[c[1]]
             o == IF c \in Open THEN 1 ELSE 0  o2 == IF c \in Open' THEN 1 ELSE 0
  <1>1. n \in Nat /\ n2 \in Nat /\ d \in Nat /\ d2 \in Nat /\ o \in 0 .. 1 /\ o2 \in 0 .. 1
      BY CopiesTyped, PieceOf DEF CarriedOK, Copies
  <1>2. n + o <= 1 + d
      BY DEF Excused
  <1>3. d <= d2
      OBVIOUS
  <1>4. \/ n2 <= n /\ o2 <= o
        \/ n2 <= n + 1 /\ o = 1 /\ o2 = 0
        \/ n2 <= n /\ d2 >= d + 1
        \/ n2 <= n + 1 /\ o = 1 /\ d2 >= d + 1
      OBVIOUS
  <1>5. n2 + o2 <= 1 + d2
    <2> HIDE DEF n, n2, d, d2, o, o2
    <2> QED BY <1>1, <1>2, <1>3, <1>4
  <1> QED BY <1>5 DEF Excused

LEMMA DoubtsTyped == Types => doubts \in [Msg -> Nat] /\ \A c \in Piece : doubts[c[1]] \in Nat
  BY PieceOf DEF Types, PlainOK

\* Steps that make no copy, and after which no more copies are to come.
LEMMA QuietStays ==
    ASSUME Types, Types', AllExcused, UNCHANGED doubts, Open' \subseteq Open,
           \A c \in Piece : Copies'[c] <= Copies[c]
    PROVE  AllExcused'
  <1>1. CarriedOK /\ CarriedOK' /\ doubts \in [Msg -> Nat] /\ doubts' \in [Msg -> Nat]
      BY DEF Types, PlainOK
  <1>2. \A c \in Piece : doubts[c[1]] <= doubts'[c[1]]
      BY DoubtsTyped
  <1> QED BY <1>1, <1>2, ExcusedStays DEF AllExcused

LEMMA SameCopies ==
    ASSUME Types, UNCHANGED <<out, queued>>
    PROVE  \A c \in Piece : Copies'[c] = Copies[c] /\ Copies'[c] <= Copies[c]
  BY CopiesTyped DEF Copies, Types

\* Only the driver of its kind works on a row.
LEMMA OneDriver ==
    ASSUME Types, NEW j \in Kind, NEW k \in Kind, Busy(j), Busy(k), pump[j].row = pump[k].row
    PROVE  j = k
  BY Working

\* What a driver hands over stays handed over while another one works.
LEMMA OthersDelivered ==
    ASSUME NEW k \in Kind, Others(k), seen \subseteq seen', NEW m \in Msg, NEW i \in Nat, Delivered(m, i),
           pump[k].row = m => pump[k].step \notin {"deliver", "sent"}
    PROVE  Delivered(m, i)'
  <1>1. CASE HasKey(m)
      BY <1>1 DEF Delivered, HasKey, IsDirect
  <1>2. CASE ~HasKey(m)
    <2>1. PICK j \in Kind : pump[j].row = m /\ (pump[j].step = "sent" \/ (pump[j].step = "deliver" /\ i < pump[j].at))
        BY <1>2 DEF Delivered
    <2>2. j # k
        BY <2>1
    <2>3. pump'[j] = pump[j]
        BY <2>2 DEF Others
    <2> QED BY <1>2, <2>1, <2>3 DEF Delivered, HasKey, IsDirect
  <1> QED BY <1>1, <1>2

LEMMA SamePumps ==
    ASSUME UNCHANGED pump, seen \subseteq seen'
    PROVE  \A m, i : Delivered(m, i) => Delivered(m, i)'
  BY DEF Delivered, HasKey, IsDirect

\* A chunk of a row that is not open before a step and open after it.
LEMMA RowsClose ==
    ASSUME UNCHANGED <<pc, at>>, \A m \in Rows' : m \in Rows /\ row'[m].from = row[m].from,
           \A c \in Piece : Delivered(c[1], c[2]) => Delivered(c[1], c[2])'
    PROVE  Open' \subseteq Open
  BY DEF Open

LEMMA PieceIndex == \A c \in Piece : c[1] \in Msg /\ c[2] \in Nat
  BY PieceOf, OutboxConstants

LEMMA RepeatStep == Types /\ Ids /\ AllExcused /\ [Next]_vars => AllExcused'
  <1> SUFFICES ASSUME Types, Ids, AllExcused, [Next]_vars PROVE AllExcused'
      OBVIOUS
  <1>t. Types' /\ CarriedOK /\ CarriedOK' /\ doubts \in [Msg -> Nat] /\ doubts' \in [Msg -> Nat]
      BY TypesStep DEF Types, PlainOK
  <1>d. ASSUME UNCHANGED doubts PROVE \A c \in Piece : doubts[c[1]] <= doubts'[c[1]]
      BY <1>d, DoubtsTyped
  <1>c. ASSUME UNCHANGED <<carried, doubts>>, Open' \subseteq Open PROVE AllExcused'
      BY <1>t, <1>c, QuietStays, SameCopies DEF carried
  <1>q. ASSUME UNCHANGED <<carried, doubts, pc, at, row, pump>> PROVE AllExcused'
    <2>1. \A m \in Rows' : m \in Rows /\ row'[m].from = row[m].from
        BY <1>q DEF Rows
    <2>2. Open' \subseteq Open
        BY <1>q, <2>1, RowsClose, SamePumps DEF carried
    <2> QED BY <1>c, <1>q, <2>2
  <1>1. ASSUME NEW m \in Msg, StartSend(m) PROVE AllExcused'
    <2>1. UNCHANGED <<carried, doubts, at, row, pump>> /\ pc[m] = "new" /\ pc' = [pc EXCEPT ![m] = "send"]
        BY <1>1 DEF StartSend, Goto
    <2>2. \A n \in Msg : pc'[n] = IF n = m THEN "send" ELSE pc[n]
        BY <2>1 DEF Types, LiveOK
    <2>3. \A c \in Piece : Delivered(c[1], c[2]) => Delivered(c[1], c[2])'
        BY <2>1, SamePumps DEF carried
    <2>4. Open' \subseteq Open
        BY <2>1, <2>2, <2>3, PieceIndex DEF Open, Rows
    <2> QED BY <1>c, <2>1, <2>4
  <1>2. ASSUME NEW m \in Msg, SendChunk(m) PROVE AllExcused'
    <2>0. /\ pc[m] = "send" /\ at[m] \in 1 .. Chunks[m] /\ <<m, at[m]>> \in Piece /\ at[m] \in Nat
          /\ UNCHANGED <<row, pump, seen>> /\ m \notin Rows
        BY <1>2, LiveCarries DEF Types, RowsDone
    <2>1. \A c \in Piece : Delivered(c[1], c[2]) => Delivered(c[1], c[2])'
        BY <2>0, SamePumps
    <2>2. <<m, at[m]>> \in Open
        BY <2>0, PieceOf DEF Open
    <2>3. UNCHANGED doubts
        BY <1>2 DEF SendChunk
    <2>4. \/ pc' = [pc EXCEPT ![m] = "done"] /\ at' = [at EXCEPT ![m] = 1]
          \/ at' = [at EXCEPT ![m] = @ + 1] /\ pc' = pc
        BY <1>2 DEF SendChunk, Tell, Goto
    <2>5. /\ \A n \in Msg : n # m => pc'[n] = pc[n] /\ at'[n] = at[n]
          /\ pc'[m] = "done" \/ (pc'[m] = "send" /\ at'[m] = at[m] + 1)
        BY <2>0, <2>4 DEF Types, LiveOK
    <2>6. Open' \subseteq Open \ {<<m, at[m]>>}
      <3> SUFFICES ASSUME NEW c \in Open' PROVE c \in Open /\ c # <<m, at[m]>>
          OBVIOUS
      <3>1. c \in Piece /\ c[1] \in Msg /\ c[2] \in Nat
          BY PieceIndex DEF Open
      <3>2. CASE c[1] = m
          BY <2>0, <2>5, <3>1, <3>2, PieceOf DEF Open, Rows
      <3>3. CASE c[1] # m
          BY <2>0, <2>1, <2>5, <3>1, <3>3, PieceOf DEF Open, Rows
      <3> QED BY <3>2, <3>3
    <2>7. ASSUME NEW c \in Piece PROVE Excused(c)'
      <3>1. Hand(<<m, at[m]>>)
          BY <1>2, LiveCarries
      <3>2. Copies'[c] = Copies[c] \/ (c = <<m, at[m]>> /\ Copies'[c] = Copies[c] + 1)
          BY <1>t, <2>0, <3>1, HandEffect
      <3>3. Copies[c] \in Nat /\ Excused(c) /\ doubts[c[1]] <= doubts'[c[1]]
          BY <1>t, <1>d, <2>3, CopiesTyped DEF AllExcused
      <3>4. CASE c = <<m, at[m]>>
          BY <1>t, <2>2, <2>6, <3>2, <3>3, <3>4, ExcusedStays
      <3>5. CASE c # <<m, at[m]>>
          BY <1>t, <2>6, <3>2, <3>3, <3>5, ExcusedStays
      <3> QED BY <3>4, <3>5
    <2> QED BY <2>7 DEF AllExcused
  <1>3. ASSUME NEW m \in Msg, SendUnclear(m) PROVE AllExcused'
    <2>0. /\ pc[m] = "send" /\ at[m] \in 1 .. Chunks[m] /\ <<m, at[m]>> \in Piece /\ at[m] \in Nat
          /\ UNCHANGED <<row, pump, seen>> /\ m \notin Rows
        BY <1>3, LiveCarries DEF Types, RowsDone
    <2>1. \A c \in Piece : Delivered(c[1], c[2]) => Delivered(c[1], c[2])'
        BY <2>0, SamePumps
    <2>2. <<m, at[m]>> \in Open
        BY <2>0, PieceOf DEF Open
    <2>3. \A n \in Msg : n # m => pc'[n] = pc[n] /\ at'[n] = at[n]
        BY <1>3 DEF SendUnclear, Tell, Goto, Types, LiveOK
    <2>h. Hand(<<m, at[m]>>) \/ UNCHANGED <<out, queued, lost>>
        BY <1>3, LiveCarries
    <2>4. ASSUME NEW c \in Piece
          PROVE  /\ Copies'[c] = Copies[c] \/ (c = <<m, at[m]>> /\ Copies'[c] = Copies[c] + 1)
                 /\ Copies[c] \in Nat /\ Excused(c)
        BY <1>t, <2>0, <2>h, HandEffect, StillEffect, CopiesTyped DEF AllExcused
    <2>5. CASE IsDirect(m)
      <3>1. pc' = [pc EXCEPT ![m] = "keep"] /\ at' = at
          BY <1>3, <2>5 DEF SendUnclear, KeptWhenUnclear, Goto
      <3>2. pc'[m] = "keep" /\ at'[m] = at[m]
          BY <3>1 DEF Types, LiveOK
      <3>3. Open' \subseteq Open
          BY <2>0, <2>1, <2>3, <3>2, PieceIndex DEF Open, Rows
      <3>4. CASE Handed
        <4>1. doubts' = Doubt({m})
            BY <1>3, <2>5, <3>4 DEF SendUnclear
        <4>2. \A c \in Piece : doubts[c[1]] <= doubts'[c[1]] /\ (c[1] = m => doubts'[c[1]] >= doubts[c[1]] + 1)
            BY <1>t, <4>1, DoubtEffect, DoubtsTyped, PieceOf
        <4>3. ASSUME NEW c \in Piece PROVE Excused(c)'
          <5>1. CASE c = <<m, at[m]>>
              BY <1>t, <2>0, <2>2, <2>4, <4>2, <5>1, ExcusedStays, PieceOf
          <5>2. CASE c # <<m, at[m]>>
              BY <1>t, <2>4, <3>3, <4>2, <5>2, ExcusedStays
          <5> QED BY <5>1, <5>2
        <4> QED BY <4>3 DEF AllExcused
      <3>5. CASE ~Handed
        <4>1. UNCHANGED <<doubts, out, queued>>
            BY <1>3, <2>5, <3>5 DEF SendUnclear, Handed
        <4> QED BY <1>t, <3>3, <4>1, QuietStays, SameCopies
      <3> QED BY <3>4, <3>5
    <2>6. CASE ~IsDirect(m)
      <3>1. UNCHANGED doubts /\ pc' = [pc EXCEPT ![m] = "done"]
          BY <1>3, <2>6 DEF SendUnclear, KeptWhenUnclear, Goto, Tell
      <3>2. pc'[m] = "done"
          BY <3>1 DEF Types, LiveOK
      <3>3. Open' \subseteq Open \ {<<m, at[m]>>}
        <4> SUFFICES ASSUME NEW c \in Open' PROVE c \in Open /\ c[1] # m
            BY PieceOf, <2>0
        <4>1. c \in Piece /\ c[1] \in Msg /\ c[2] \in Nat
            BY PieceIndex DEF Open
        <4>2. c[1] # m
            BY <2>0, <3>2, <4>1 DEF Open, Rows
        <4> QED BY <2>0, <2>1, <2>3, <4>1, <4>2 DEF Open, Rows
      <3>4. ASSUME NEW c \in Piece PROVE Excused(c)'
        <4>1. doubts[c[1]] <= doubts'[c[1]]
            BY <1>d, <3>1
        <4>2. CASE c = <<m, at[m]>>
            BY <1>t, <2>2, <2>4, <3>3, <4>1, <4>2, ExcusedStays
        <4>3. CASE c # <<m, at[m]>>
            BY <1>t, <2>4, <3>3, <4>1, <4>3, ExcusedStays
        <4> QED BY <4>2, <4>3
      <3> QED BY <3>4 DEF AllExcused
    <2> QED BY <2>5, <2>6
  <1>4. ASSUME NEW m \in Msg, SendRefused(m) PROVE AllExcused'
    <2>1. UNCHANGED <<carried, doubts, at, row, pump>> /\ pc[m] = "send" /\ pc' = [pc EXCEPT ![m] = "keep"]
        BY <1>4 DEF SendRefused, Goto
    <2>2. \A n \in Msg : pc'[n] = IF n = m THEN "keep" ELSE pc[n]
        BY <2>1 DEF Types, LiveOK
    <2>3. \A c \in Piece : Delivered(c[1], c[2]) => Delivered(c[1], c[2])'
        BY <2>1, SamePumps DEF carried
    <2>4. Open' \subseteq Open
        BY <2>1, <2>2, <2>3, PieceIndex DEF Open, Rows
    <2> QED BY <1>c, <2>1, <2>4
  <1>5. ASSUME NEW m \in Msg, Keep(m) PROVE AllExcused'
    <2>0. UNCHANGED <<carried, doubts, pump>> /\ pc[m] = "keep" /\ m \notin Rows
        BY <1>5 DEF Keep, Types, RowsDone
    <2>1. /\ \A n \in Msg : n # m => row'[n] = row[n]
          /\ \/ row'[m].from = at[m] /\ Rows' = Rows \cup {m}
             \/ UNCHANGED row
        BY <1>5, KeepEffect DEF Types
    <2>2. \A n \in Msg : n # m => pc'[n] = pc[n] /\ at'[n] = at[n]
        BY <1>5 DEF Keep, Tell, Goto, Types, LiveOK
    <2>3. pc'[m] = "done"
        BY <1>5 DEF Keep, Tell, Goto, Types, LiveOK
    <2>4. \A c \in Piece : Delivered(c[1], c[2]) => Delivered(c[1], c[2])'
        BY <2>0, SamePumps DEF carried
    <2>5. Open' \subseteq Open
      <3> SUFFICES ASSUME NEW c \in Open' PROVE c \in Open
          OBVIOUS
      <3>1. c \in Piece /\ c[1] \in Msg /\ c[2] \in Nat
          BY PieceIndex DEF Open
      <3>2. CASE c[1] = m
          BY <2>0, <2>1, <2>3, <3>1, <3>2 DEF Open, Rows
      <3>3. CASE c[1] # m
          BY <2>0, <2>1, <2>2, <2>4, <3>1, <3>3 DEF Open, Rows
      <3> QED BY <3>2, <3>3
    <2> QED BY <1>c, <2>0, <2>5
  <1>6. ASSUME NEW k \in Kind, Fetch(k) PROVE AllExcused'
    <2>1. Others(k) /\ UNCHANGED <<carried, doubts, pc, at, row>> /\ pump[k].step = "sleep"
        BY <1>6, FetchEffect DEF Fetch, Types
    <2>2. \A c \in Piece : Delivered(c[1], c[2]) => Delivered(c[1], c[2])'
        BY <2>1, OthersDelivered, PieceIndex DEF carried
    <2>3. Open' \subseteq Open
        BY <2>1, <2>2, RowsClose DEF Rows
    <2> QED BY <1>c, <2>1, <2>3
  <1>7. ASSUME NEW k \in Kind, Take(k) PROVE AllExcused'
    <2>1. Others(k) /\ UNCHANGED <<carried, doubts, pc, at, row>> /\ pump[k].step = "next"
        BY <1>7, TakenEffect DEF Take, Types
    <2>2. \A c \in Piece : Delivered(c[1], c[2]) => Delivered(c[1], c[2])'
        BY <2>1, OthersDelivered, PieceIndex DEF carried
    <2>3. Open' \subseteq Open
        BY <2>1, <2>2, RowsClose DEF Rows
    <2> QED BY <1>c, <2>1, <2>3
  <1>8. ASSUME NEW k \in Kind, DeliverChunk(k) PROVE AllExcused'
    <2> DEFINE m == pump[k].row  c == <<pump[k].row, pump[k].at>>
    <2>0. /\ Busy(k) /\ m \in Msg /\ m \in Rows /\ pump[k].at \in 1 .. Chunks[m] /\ pump[k].step = "deliver"
          /\ Chunks[m] \in Nat /\ pc[m] = "done" /\ row[m].from <= pump[k].at /\ UNCHANGED <<pc, at, row>>
          /\ c \in Piece /\ c[1] = m /\ c[2] = pump[k].at
        BY <1>8, Working, OutboxConstants, DriverCarries
    <2>1. Others(k) /\ UNCHANGED doubts
        BY <1>8, StepEffect, NextChunkEffect DEF DeliverChunk, Phases, Types
    <2>2. /\ pump'[k].row = m
          /\ \/ pump'[k].step = "sent"
             \/ pump'[k].step = "deliver" /\ pump'[k].at = pump[k].at + 1
      <3>1. Step(k, "sent") \/ pump' = [pump EXCEPT ![k].at = @ + 1]
          BY <1>8 DEF DeliverChunk
      <3> QED BY <2>0, <3>1, StepEffect, NextChunkEffect DEF Phases, Types
    <2>3. seen \subseteq seen'
        BY <1>8, DriverCarries DEF carried
    <2>n. pump[k].at \in Nat /\ m = pump[k].row
        BY <2>0
    <2> HIDE DEF m
    <2>4. \A d \in Piece : Delivered(d[1], d[2]) => Delivered(d[1], d[2])'
      <3> SUFFICES ASSUME NEW d \in Piece, Delivered(d[1], d[2]) PROVE Delivered(d[1], d[2])'
          OBVIOUS
      <3>1. d[1] \in Msg /\ d[2] \in Nat
          BY PieceIndex
      <3>2. CASE d[1] # m
          BY <2>n, <2>1, <2>3, <3>1, <3>2, OthersDelivered
      <3>3. CASE d[1] = m
        <4>1. CASE HasKey(m)
            BY <2>3, <3>3, <4>1 DEF Delivered, HasKey, IsDirect
        <4>2. CASE ~HasKey(m)
          <5>1. PICK j \in Kind : /\ pump[j].row = m
                                  /\ pump[j].step = "sent" \/ (pump[j].step = "deliver" /\ d[2] < pump[j].at)
              BY <3>3, <4>2 DEF Delivered
          <5>2. j = k
              BY <2>0, <2>n, <5>1, OneDriver DEF Busy
          <5>3. pump'[k].step = "sent" \/ (pump'[k].step = "deliver" /\ d[2] < pump'[k].at)
              BY <2>0, <2>n, <2>2, <3>1, <5>1, <5>2
          <5> QED BY <2>2, <3>3, <4>2, <5>3 DEF Delivered, HasKey, IsDirect
        <4> QED BY <4>1, <4>2
      <3> QED BY <3>2, <3>3
    <2>5. Open' \subseteq Open
        BY <2>0, <2>4, RowsClose DEF Rows
    <2>6. CASE UNCHANGED carried
        BY <1>c, <2>1, <2>5, <2>6
    <2>7. CASE ~UNCHANGED carried
      <3>1. /\ Hand(c)
            /\ HasKey(m) => m \notin seen /\ seen' = seen \cup {m}
          BY <1>8, <2>7, <2>n, DriverCarries DEF carried
      <3>2. c \in Open
        <4>1. ~Delivered(m, pump[k].at)
          <5>1. ~HasKey(m) => \A j \in Kind : pump[j].row = m /\ pump[j].step \in {"deliver", "sent"} => j = k
              BY <2>0, <2>n, OneDriver DEF Busy
          <5> QED BY <2>0, <2>n, <3>1, <5>1 DEF Delivered
        <4> QED BY <2>0, <4>1 DEF Open
      <3>3. ASSUME NEW d \in Piece, d = c PROVE d \notin Open'
        <4>1. Delivered(d[1], d[2])'
          <5>1. CASE HasKey(m)
              BY <2>0, <3>1, <3>3, <5>1 DEF Delivered, HasKey, IsDirect
          <5>2. CASE ~HasKey(m)
            <6>1. \E j \in Kind : /\ pump'[j].row = d[1]
                                  /\ \/ pump'[j].step = "sent"
                                     \/ pump'[j].step = "deliver" /\ d[2] < pump'[j].at
                BY <2>0, <2>n, <2>2, <3>3
            <6> QED BY <2>0, <3>3, <5>2, <6>1 DEF Delivered, HasKey, IsDirect
          <5> QED BY <5>1, <5>2
        <4>2. pc'[d[1]] = "done"
            BY <2>0, <3>3
        <4> QED BY <4>1, <4>2 DEF Open
      <3>4. ASSUME NEW d \in Piece PROVE Excused(d)'
        <4>1. Copies'[d] = Copies[d] \/ (d = c /\ Copies'[d] = Copies[d] + 1)
            BY <1>t, <2>0, <3>1, HandEffect
        <4>2. Copies[d] \in Nat /\ Excused(d) /\ doubts[d[1]] <= doubts'[d[1]]
            BY <1>t, <1>d, <2>1, CopiesTyped DEF AllExcused
        <4>3. CASE d = c
            BY <1>t, <3>2, <3>3, <4>1, <4>2, <4>3, ExcusedStays
        <4>4. CASE d # c
            BY <1>t, <2>5, <4>1, <4>2, <4>4, ExcusedStays
        <4> QED BY <4>3, <4>4
      <3> QED BY <3>4 DEF AllExcused
    <2> QED BY <2>6, <2>7
  <1>9. ASSUME NEW k \in Kind, DeliverFails(k) PROVE AllExcused'
    <2> DEFINE m == pump[k].row  c == <<pump[k].row, pump[k].at>>
    <2>0. /\ Busy(k) /\ m \in Msg /\ m \in Rows /\ pump[k].at \in 1 .. Chunks[m] /\ pump[k].step = "deliver"
          /\ Chunks[m] \in Nat /\ pc[m] = "done" /\ row[m].from <= pump[k].at /\ UNCHANGED <<pc, at, row>>
          /\ c \in Piece /\ c[1] = m /\ c[2] = pump[k].at
        BY <1>9, Working, OutboxConstants, DriverCarries
    <2>1. Others(k)
        BY <1>9, StepEffect DEF DeliverFails, Phases, Types
    <2>3. seen \subseteq seen'
        BY <1>9, DriverCarries DEF carried
    <2>n. pump[k].at \in Nat /\ m = pump[k].row /\ row[m].from \in Nat
        BY <2>0, Working
    <2>k. Hand(c) \/ UNCHANGED carried
        BY <1>9, DriverCarries
    <2>x. UNCHANGED carried => ~Hand(c)
        BY <1>t, <2>0, HandEffect, SameCopies, CopiesTyped DEF carried
    <2>y. Hand(c) /\ HasKey(m) => m \notin seen /\ seen' = seen \cup {m}
        BY <1>9, <2>x, DriverCarries
    <2>u. doubts' = IF ~HasKey(m) /\ (pump[k].at > row[m].from \/ Handed) THEN Doubt({m}) ELSE doubts
        BY <1>9 DEF DeliverFails
    <2> HIDE DEF m
    <2>4. \A d \in Piece : d[1] # m /\ Delivered(d[1], d[2]) => Delivered(d[1], d[2])'
        BY <2>n, <2>1, <2>3, OthersDelivered, PieceIndex
    <2>5. HasKey(m) /\ m \in seen => \A d \in Piece : d[1] = m => Delivered(d[1], d[2])'
        BY <2>3 DEF Delivered, HasKey, IsDirect
    <2>6. ASSUME NEW d \in Piece
          PROVE  /\ Copies'[d] = Copies[d] \/ (d = c /\ Hand(c) /\ Copies'[d] = Copies[d] + 1)
                 /\ Copies[d] \in Nat /\ Excused(d)
      <3>1. CASE Hand(c)
          BY <1>t, <2>0, <3>1, HandEffect, CopiesTyped DEF AllExcused
      <3>2. CASE UNCHANGED carried
          BY <1>t, <3>2, SameCopies, CopiesTyped DEF AllExcused, carried
      <3> QED BY <2>k, <3>1, <3>2
    <2>7. ~HasKey(m) => c \in Open
      <3>1. ~HasKey(m) => \A j \in Kind : pump[j].row = m /\ pump[j].step \in {"deliver", "sent"} => j = k
          BY <2>0, <2>n, OneDriver DEF Busy
      <3>2. ~HasKey(m) => ~Delivered(m, pump[k].at)
          BY <2>0, <2>n, <3>1 DEF Delivered
      <3> QED BY <2>0, <3>2 DEF Open
    <2>8. CASE HasKey(m)
      <3>1. UNCHANGED doubts
          BY <2>u, <2>8
      <3>2. \A d \in Piece : Delivered(d[1], d[2]) => Delivered(d[1], d[2])'
          BY <2>4, <2>5, <2>8 DEF Delivered
      <3>3. Open' \subseteq Open
          BY <2>0, <3>2, RowsClose DEF Rows
      <3>4. CASE Hand(c)
        <4>1. c \in Open
            BY <2>0, <2>y, <2>8, <3>4 DEF Open, Delivered
        <4>2. ASSUME NEW d \in Piece, d = c PROVE d \notin Open'
          <5>1. Delivered(d[1], d[2])' /\ pc'[d[1]] = "done"
              BY <2>0, <2>y, <2>8, <3>4, <4>2 DEF Delivered, HasKey, IsDirect
          <5> QED BY <5>1 DEF Open
        <4>3. ASSUME NEW d \in Piece PROVE Excused(d)'
          <5>1. doubts[d[1]] <= doubts'[d[1]]
              BY <1>d, <3>1
          <5>2. CASE d = c
              BY <1>t, <2>6, <4>1, <4>2, <5>1, <5>2, ExcusedStays
          <5>3. CASE d # c
              BY <1>t, <2>6, <3>3, <5>1, <5>3, ExcusedStays
          <5> QED BY <5>2, <5>3
        <4> QED BY <4>3 DEF AllExcused
      <3>5. CASE UNCHANGED carried
          BY <1>c, <3>1, <3>3, <3>5
      <3> QED BY <2>k, <3>4, <3>5
    <2>9. CASE ~HasKey(m)
      <3>1. CASE pump[k].at > row[m].from \/ Handed
        <4>1. doubts' = Doubt({m})
            BY <2>u, <2>9, <3>1
        <4>2. \A d \in Piece : doubts[d[1]] <= doubts'[d[1]] /\ (d[1] = m => doubts'[d[1]] >= doubts[d[1]] + 1)
            BY <1>t, <4>1, DoubtEffect, DoubtsTyped, PieceOf
        <4>3. ASSUME NEW d \in Piece PROVE Excused(d)'
          <5>1. CASE d = c
              BY <1>t, <2>0, <2>6, <2>7, <2>9, <4>2, <5>1, ExcusedStays
          <5>2. CASE d[1] = m /\ d # c
              BY <1>t, <2>6, <4>2, <5>2, ExcusedStays
          <5>3. CASE d[1] # m
            <6>1. d \in Open' => d \in Open
                BY <2>0, <2>4, <5>3 DEF Open, Rows
            <6> QED BY <1>t, <2>0, <2>6, <4>2, <5>3, <6>1, ExcusedStays
          <5> QED BY <5>1, <5>2, <5>3
        <4> QED BY <4>3 DEF AllExcused
      <3>2. CASE pump[k].at = row[m].from /\ ~Handed
        <4>1. UNCHANGED <<doubts, out, queued>>
            BY <2>u, <2>9, <2>n, <3>2 DEF Handed
        <4>2. Open' \subseteq Open
          <5> SUFFICES ASSUME NEW d \in Open' PROVE d \in Open
              OBVIOUS
          <5>1. d \in Piece /\ d[1] \in Msg /\ d[2] \in Nat
              BY PieceIndex DEF Open
          <5>2. CASE d[1] # m
              BY <2>0, <2>4, <5>1, <5>2 DEF Open, Rows
          <5>3. CASE d[1] = m
            <6>1. d[2] >= row[m].from
                BY <2>0, <5>3 DEF Open, Rows
            <6>2. ~Delivered(m, d[2])
              <7>1. \A j \in Kind : pump[j].row = m /\ pump[j].step \in {"deliver", "sent"} => j = k
                  BY <2>0, <2>n, OneDriver DEF Busy
              <7> QED BY <2>0, <2>n, <2>9, <3>2, <5>1, <6>1, <7>1 DEF Delivered
            <6> QED BY <2>0, <5>1, <5>3, <6>1, <6>2 DEF Open
          <5> QED BY <5>2, <5>3
        <4> QED BY <1>t, <4>1, <4>2, QuietStays, SameCopies
      <3> QED BY <2>0, <2>n, <3>1, <3>2
    <2> QED BY <2>8, <2>9
  <1>10. ASSUME NEW k \in Kind, MarkSent(k) PROVE AllExcused'
    <2> DEFINE m == pump[k].row
    <2>0. Busy(k) /\ m \in Msg /\ UNCHANGED <<carried, pc, at>> /\ pump[k].step = "sent"
        BY <1>10, Working DEF MarkSent, Busy
    <2>1. Others(k)
        BY <1>10, StepEffect DEF MarkSent, Phases, Types
    <2>2. \/ Remove(m) /\ UNCHANGED doubts
          \/ doubts' = Doubt({n \in {m} : ~HasKey(n)}) /\ UNCHANGED row
        BY <1>10 DEF MarkSent
    <2>n. m = pump[k].row
        OBVIOUS
    <2> HIDE DEF m
    <2>3. \A d \in Piece : d[1] # m /\ Delivered(d[1], d[2]) => Delivered(d[1], d[2])'
        BY <2>0, <2>1, <2>n, OthersDelivered, PieceIndex DEF carried
    <2>4. CASE Remove(m) /\ UNCHANGED doubts
      <3>1. Rows' = Rows \ {m} /\ \A n \in Msg : n # m => row'[n] = row[n]
          BY <2>0, <2>4, RemoveEffect DEF Types
      <3>2. Open' \subseteq Open
          BY <2>0, <2>3, <3>1, PieceIndex DEF Open
      <3> QED BY <1>c, <2>0, <2>4, <3>2
    <2>5. CASE doubts' = Doubt({n \in {m} : ~HasKey(n)}) /\ UNCHANGED row
      <3>1. \A d \in Piece : /\ doubts[d[1]] <= doubts'[d[1]]
                             /\ d[1] = m /\ ~HasKey(m) => doubts'[d[1]] >= doubts[d[1]] + 1
          BY <1>t, <2>5, DoubtEffect, DoubtsTyped, PieceOf
      <3>2. \A d \in Piece : Copies'[d] <= Copies[d] /\ Excused(d)
          BY <2>0, SameCopies DEF AllExcused, carried
      <3>3. ASSUME NEW d \in Piece, d[1] # m \/ HasKey(m) PROVE d \in Open' => d \in Open
        <4>1. Delivered(d[1], d[2]) => Delivered(d[1], d[2])'
            BY <2>0, <2>3, <3>3 DEF Delivered, HasKey, IsDirect, carried
        <4> QED BY <2>0, <2>5, <4>1 DEF Open, Rows
      <3>4. ASSUME NEW d \in Piece PROVE Excused(d)'
        <4>1. CASE d[1] = m /\ ~HasKey(m)
            BY <1>t, <3>1, <3>2, <4>1, ExcusedStays
        <4>2. CASE d[1] # m \/ HasKey(m)
            BY <1>t, <3>1, <3>2, <3>3, <4>2, ExcusedStays
        <4> QED BY <4>1, <4>2
      <3> QED BY <3>4 DEF AllExcused
    <2> QED BY <2>2, <2>4, <2>5
  <1>11. ASSUME NEW k \in Kind, MarkFailed(k) PROVE AllExcused'
    <2> DEFINE m == pump[k].row
    <2>0. m \in Rows /\ (UNCHANGED <<row, attempted, spent>> \/ \E due \in 0 .. MaxClock : Failed(m, due))
        BY <1>11, MarkFailedEffect DEF Types
    <2>1. UNCHANGED <<carried, doubts, pc, at>> /\ pump[k].step = "failed"
        BY <1>11 DEF MarkFailed
    <2>2. Others(k)
        BY <1>11, StepEffect DEF MarkFailed, Phases, Types
    <2> HIDE DEF m
    <2>3. \A n \in Rows' : n \in Rows /\ row'[n].from = row[n].from
      <3>1. CASE UNCHANGED row
          BY <3>1 DEF Rows
      <3>2. CASE \E due \in 0 .. MaxClock : Failed(m, due)
          BY <2>0, <3>2, FailedEffect DEF Types, Rows
      <3> QED BY <2>0, <3>1, <3>2
    <2>4. \A d \in Piece : Delivered(d[1], d[2]) => Delivered(d[1], d[2])'
        BY <2>1, <2>2, OthersDelivered, PieceIndex DEF carried
    <2>5. Open' \subseteq Open
        BY <2>1, <2>3, <2>4, RowsClose
    <2> QED BY <1>c, <2>1, <2>5
  <1>12. ASSUME NEW k \in Kind, ClientExits(k) PROVE AllExcused'
    <2>1. UNCHANGED <<doubts, pc, at, pump, row>> /\ seen' = seen /\ \A c \in Piece : Copies'[c] <= Copies[c]
        BY <1>t, <1>12, DropEffect DEF ClientExits
    <2>2. Open' \subseteq Open
        BY <2>1, SamePumps, RowsClose DEF Rows
    <2> QED BY <1>t, <2>1, <2>2, QuietStays
  <1>13. CASE SweepRow
    <2> DEFINE m == FirstOf(Strays)
    <2>0. m \in Rows /\ \E due \in 0 .. MaxClock : Failed(m, due)
        BY <1>13, SweepEffect DEF Types, Strays
    <2>1. UNCHANGED <<carried, doubts, pc, at, pump>>
        BY <1>13 DEF SweepRow
    <2> HIDE DEF m
    <2>2. \A n \in Rows' : n \in Rows /\ row'[n].from = row[n].from
        BY <2>0, FailedEffect DEF Types, Rows
    <2>3. Open' \subseteq Open
        BY <2>1, <2>2, SamePumps, RowsClose DEF carried
    <2> QED BY <1>c, <2>1, <2>3
  <1>14. CASE Tick
      BY <1>14, <1>q DEF Tick
  <1>15. CASE Crash
    <2> DEFINE ms == {m \in Msg : ~HasKey(m) /\ \E k \in Kind : Begun(k) /\ pump[k].row = m}
    <2>1. UNCHANGED row /\ seen' = seen /\ \A c \in Piece : Copies'[c] <= Copies[c]
        BY <1>t, <1>15, DropEffect DEF Crash
    <2>2. doubts' = Doubt(ms) /\ \A m \in Msg : pc'[m] = "done" \/ pc'[m] = pc[m]
        BY <1>15 DEF Crash, Types, LiveOK
    <2>3. \A m \in Msg : pc'[m] \notin {"send", "keep"}
        BY <1>15 DEF Crash, Types, LiveOK
    <2>s. \A m \in Msg : m \in ms <=> ~HasKey(m) /\ \E k \in Kind : Begun(k) /\ pump[k].row = m
        OBVIOUS
    <2> HIDE DEF ms
    <2>4. \A c \in Piece : doubts[c[1]] <= doubts'[c[1]] /\ (c[1] \in ms => doubts'[c[1]] >= doubts[c[1]] + 1)
        BY <1>t, <2>2, DoubtEffect, DoubtsTyped, PieceOf
    <2>5. ASSUME NEW c \in Piece, c[1] \notin ms, c \in Open' PROVE c \in Open
      <3>1. c[1] \in Msg /\ c[2] \in Nat
          BY PieceIndex
      <3>2. CASE pc'[c[1]] = "new"
          BY <2>2, <2>5, <3>1, <3>2 DEF Open
      <3>3. CASE pc'[c[1]] # "new"
        <4>1. c[1] \in Rows /\ c[2] >= row[c[1]].from /\ ~Delivered(c[1], c[2])'
            BY <2>1, <2>3, <2>5, <3>1, <3>3 DEF Open, Rows
        <4>2. HasKey(c[1]) => ~Delivered(c[1], c[2])
            BY <2>1, <4>1 DEF Delivered, HasKey, IsDirect
        <4>3. ~HasKey(c[1]) => ~Delivered(c[1], c[2])
          <5> SUFFICES ASSUME ~HasKey(c[1]), NEW k \in Kind, pump[k].row = c[1],
                              pump[k].step = "sent" \/ (pump[k].step = "deliver" /\ c[2] < pump[k].at)
                       PROVE  FALSE
              BY DEF Delivered
          <5>1. pump[k].at \in Nat /\ row[c[1]].from \in Nat
              BY Working DEF Busy
          <5>2. Begun(k)
              BY <3>1, <4>1, <5>1 DEF Begun
          <5> QED BY <2>5, <2>s, <3>1, <5>2
        <4> QED BY <4>1, <4>2, <4>3 DEF Open
      <3> QED BY <3>2, <3>3
    <2>6. ASSUME NEW c \in Piece PROVE Excused(c)'
      <3>1. Excused(c)
          BY DEF AllExcused
      <3>2. CASE c[1] \in ms
          BY <1>t, <2>1, <2>4, <3>1, <3>2, ExcusedStays
      <3>3. CASE c[1] \notin ms
          BY <1>t, <2>1, <2>4, <2>5, <3>1, <3>3, ExcusedStays
      <3> QED BY <3>2, <3>3
    <2> QED BY <2>6 DEF AllExcused
  <1>16. ASSUME NEW kinds \in Config, Restart(kinds) PROVE AllExcused'
      BY <1>16, <1>q DEF Restart
  <1>17. CASE UNCHANGED vars
      BY <1>17, <1>q DEF vars
  <1>18. CASE Elsewhere
    <2>1. ASSUME NEW m \in Msg, KeyExpires(m) PROVE AllExcused'
      <3>1. UNCHANGED <<out, queued, pc, at, row, pump>> /\ seen' = seen \ {m} /\ doubts' = Doubt({m})
          BY <2>1 DEF KeyExpires, KeyOf
      <3>2. \A c \in Piece : /\ Copies'[c] <= Copies[c] /\ Excused(c)
                             /\ doubts[c[1]] <= doubts'[c[1]] /\ (c[1] = m => doubts'[c[1]] >= doubts[c[1]] + 1)
          BY <1>t, <3>1, SameCopies, DoubtEffect, DoubtsTyped, PieceOf DEF AllExcused
      <3>3. ASSUME NEW c \in Piece, c[1] # m PROVE c \in Open' => c \in Open
        <4>1. Delivered(c[1], c[2]) => Delivered(c[1], c[2])'
            BY <3>1, <3>3 DEF Delivered, HasKey, IsDirect
        <4> QED BY <3>1, <4>1 DEF Open, Rows
      <3>4. ASSUME NEW c \in Piece PROVE Excused(c)'
        <4>1. CASE c[1] = m
            BY <1>t, <3>2, <4>1, ExcusedStays
        <4>2. CASE c[1] # m
            BY <1>t, <3>2, <3>3, <4>2, ExcusedStays
        <4> QED BY <4>1, <4>2
      <3> QED BY <3>4 DEF AllExcused
    <2>2. ASSUME NEW c \in Piece, ClientSends(c) \/ ClientLoses(c) PROVE AllExcused'
      <3>1. UNCHANGED <<doubts, pc, at, pump, row, seen>> /\ \A d \in Piece : Copies'[d] <= Copies[d]
          BY <1>t, <2>2, UnqueueEffect DEF ClientSends, ClientLoses
      <3>2. Open' \subseteq Open
          BY <3>1, SamePumps, RowsClose DEF Rows
      <3> QED BY <1>t, <3>1, <3>2, QuietStays
    <2> QED BY <1>18, <2>1, <2>2 DEF Elsewhere
  <1> QED BY <1>1, <1>2, <1>3, <1>4, <1>5, <1>6, <1>7, <1>8, <1>9, <1>10, <1>11, <1>12,
             <1>13, <1>14, <1>15, <1>16, <1>17, <1>18
          DEF Next, Driver, Elsewhere

LEMMA RepeatInit == Init => AllExcused
  <1> SUFFICES ASSUME Init, NEW c \in Piece PROVE Excused(c)
      BY DEF AllExcused
  <1>1. Copies[c] = 0 /\ doubts[c[1]] = 0
      BY PieceOf DEF Init, Copies
  <1> QED BY <1>1 DEF Excused

\* No chunk has more copies than one and one for each reason.
THEOREM RepeatIsExcusedHolds == Spec => []RepeatIsExcused
  <1> DEFINE Inv == Types /\ Ids /\ AllExcused
  <1>1. Init => Inv
      BY TypesInit, RepeatInit
  <1>2. Inv /\ [Next]_vars => Inv'
      BY TypesStep, RepeatStep
  <1>3. Inv => RepeatIsExcused
    <2> SUFFICES ASSUME Inv, NEW m \in Msg, NEW i \in 1 .. Chunks[m]
                 PROVE  out[<<m, i>>] + queued[<<m, i>>] <= 1 + doubts[m]
        BY DEF RepeatIsExcused
    <2> DEFINE c == <<m, i>>
    <2>1. c \in Piece /\ c[1] = m
        BY PieceOf
    <2>2. Copies[c] + (IF c \in Open THEN 1 ELSE 0) <= 1 + doubts[m] /\ Copies[c] \in Nat /\ doubts[m] \in Nat
        BY <2>1, CopiesTyped DEF AllExcused, Excused, Types, PlainOK
    <2>3. Copies[c] = out[c] + queued[c]
        BY <2>1 DEF Copies
    <2> HIDE DEF c
    <2>4. Copies[c] <= 1 + doubts[m]
        BY <2>2
    <2> QED BY <2>3, <2>4 DEF c
  <1> HIDE DEF Inv
  <1> QED BY <1>1, <1>2, <1>3, PTL DEF Spec

-----------------------------------------------------------------------------
(* The first attempts follow the order of the rows *)

Waiting(a) == a \in Rows /\ a \notin attempted
\* A row that waits for its first attempt is due since it was written.
DueInOrder ==
    /\ \A a \in Rows : Waiting(a) => row[a].due <= clock
    /\ \A a, b \in Rows : Waiting(a) /\ Waiting(b) /\ row[a].id < row[b].id => row[a].due <= row[b].due
\* What a driver has fetched contains what is older, and what it works on counts
\* as attempted.
BatchInOrder(k) ==
    \A b \in pump[k].todo, a \in Rows :
        Waiting(a) /\ Waiting(b) /\ KindOf[a] = k /\ row[a].id < row[b].id => a \in pump[k].todo
Counted(k) == Busy(k) => pump[k].row \in attempted
Order == DueInOrder /\ \A k \in Kind : BatchInOrder(k) /\ Counted(k)

LEMMA RowNumbers ==
    ASSUME StoreOK, NEW a \in Rows
    PROVE  a \in Msg /\ row[a].due \in Nat /\ row[a].id \in Nat /\ row[a].id > 0
  BY OutboxConstants DEF StoreOK, RowSet, Rows

LEMMA OlderIsEarlier ==
    ASSUME StoreOK, DueInOrder, NEW a \in Rows, NEW b \in Rows, Waiting(a), Waiting(b), row[a].id < row[b].id
    PROVE  Earlier(a, b) /\ row[a].due <= row[b].due /\ ~Earlier(b, a)
  <1>1. row[a].due <= row[b].due
      BY DEF DueInOrder
  <1> QED BY <1>1, RowNumbers DEF Earlier

\* Fewer rows wait, none has changed: the order stays.
LEMMA DueStays ==
    ASSUME Types, DueInOrder, clock' = clock \/ clock' = clock + 1,
           \A a \in Msg : Waiting(a)' => Waiting(a) /\ row'[a] = row[a]
    PROVE  DueInOrder'
  <1>1. \A a \in Rows' : Waiting(a)' => a \in Rows /\ Waiting(a) /\ row'[a] = row[a]
      BY DEF Waiting, Rows
  <1>2. \A a \in Rows : row[a].due \in Nat /\ clock \in Nat
      BY RowNumbers, OutboxConstants DEF Types, PlainOK
  <1>3. \A a \in Rows : row[a].due <= clock => row[a].due <= clock'
      BY <1>2
  <1> QED BY <1>1, <1>3 DEF DueInOrder

LEMMA BatchStays ==
    ASSUME NEW k \in Kind, BatchInOrder(k), pump'[k].todo = pump[k].todo,
           \A a \in Msg : Waiting(a)' => Waiting(a) /\ row'[a] = row[a]
    PROVE  BatchInOrder(k)'
  BY DEF BatchInOrder, Waiting, Rows

LEMMA CountedStays ==
    ASSUME Types, NEW k \in Kind, Counted(k), pump'[k] = pump[k], \A a \in Rows : a \in attempted /\ KindOf[a] = k /\ Busy(k) => a \in attempted'
    PROVE  Counted(k)'
  <1>1. Busy(k) => pump[k].row \in Rows /\ KindOf[pump[k].row] = k
      BY Working
  <1> QED BY <1>1 DEF Counted, Busy

LEMMA OrderStep == Types /\ Ids /\ Order /\ [Next]_vars => Order'
  <1> SUFFICES ASSUME Types, Ids, Order, [Next]_vars PROVE Order'
      OBVIOUS
  <1>d. DueInOrder /\ \A k \in Kind : BatchInOrder(k) /\ Counted(k)
      BY DEF Order
  <1>q. ASSUME row' = row, attempted' = attempted, pump' = pump, clock' = clock \/ clock' = clock + 1
        PROVE  Order'
    <2>1. \A a \in Msg : Waiting(a)' => Waiting(a) /\ row'[a] = row[a]
        BY <1>q DEF Waiting, Rows
    <2> QED BY <1>d, <1>q, <2>1, DueStays, BatchStays, CountedStays DEF Order
  <1>1. ASSUME NEW m \in Msg, StartSend(m) PROVE Order'
      BY <1>1, <1>q DEF StartSend
  <1>2. ASSUME NEW m \in Msg, SendChunk(m) PROVE Order'
      BY <1>2, <1>q DEF SendChunk
  <1>3. ASSUME NEW m \in Msg, SendUnclear(m) PROVE Order'
      BY <1>3, <1>q DEF SendUnclear
  <1>4. ASSUME NEW m \in Msg, SendRefused(m) PROVE Order'
      BY <1>4, <1>q DEF SendRefused
  <1>5. ASSUME NEW m \in Msg, Keep(m) PROVE Order'
    <2>1. /\ \A b \in Msg : b # m => row'[b] = row[b]
          /\ \/ row'[m].id = NextId /\ row'[m].due = clock /\ Rows' = Rows \cup {m}
             \/ UNCHANGED row
        BY <1>5, KeepEffect DEF Types
    <2>2. attempted' = attempted /\ pump' = pump /\ clock' = clock /\ m \notin Rows
        BY <1>5 DEF Keep, Types, RowsDone
    <2>3. CASE UNCHANGED row
        BY <1>q, <2>2, <2>3
    <2>4. CASE row'[m].id = NextId /\ row'[m].due = clock /\ Rows' = Rows \cup {m}
      <3>1. NextId \in Nat /\ \A b \in Rows : row[b].id < NextId /\ ~(NextId < row[b].id)
          BY NextIdFresh, RowNumbers DEF Types
      <3>2. \A b \in Rows : b # m /\ row'[b] = row[b]
          BY <2>1, <2>2 DEF Rows
      <3>3. clock \in Nat /\ clock <= clock
          BY OutboxConstants DEF Types, PlainOK
      <3>4. \A a \in Rows' : a = m \/ (a \in Rows /\ (Waiting(a)' => Waiting(a)))
          BY <2>2, <2>4 DEF Waiting
      <3>5. DueInOrder'
        <4>1. \A a \in Rows' : Waiting(a)' => row'[a].due <= clock'
            BY <1>d, <2>2, <2>4, <3>2, <3>3, <3>4 DEF DueInOrder
        <4>2. ASSUME NEW a \in Rows', NEW b \in Rows', Waiting(a)', Waiting(b)', row'[a].id < row'[b].id
              PROVE  row'[a].due <= row'[b].due
          <5>1. CASE b = m
              BY <2>2, <2>4, <4>1, <4>2, <5>1
          <5>2. CASE b # m /\ a = m
              BY <2>4, <3>1, <3>2, <3>4, <4>2, <5>2
          <5>3. CASE b # m /\ a # m
              BY <1>d, <3>2, <3>4, <4>2, <5>3 DEF DueInOrder
          <5> QED BY <5>1, <5>2, <5>3
        <4> QED BY <4>1, <4>2 DEF DueInOrder
      <3>6. ASSUME NEW j \in Kind PROVE BatchInOrder(j)'
        <4>1. \A b \in pump[j].todo : b \in Rows
            BY DEF Types, PumpsOwn, Own
        <4> QED BY <1>d, <2>2, <2>4, <3>1, <3>2, <3>4, <4>1 DEF BatchInOrder
      <3>7. ASSUME NEW j \in Kind PROVE Counted(j)'
          BY <1>d, <2>2, CountedStays
      <3> QED BY <3>5, <3>6, <3>7 DEF Order
    <2> QED BY <2>1, <2>3, <2>4
  <1>6. ASSUME NEW k \in Kind, Fetch(k) PROVE Order'
    <2>1. Others(k) /\ row' = row /\ attempted' = attempted /\ clock' = clock /\ pump'[k].todo = InBatch(k) /\ pump'[k].step = "next"
        BY <1>6, FetchEffect DEF Types
    <2>w. \A a \in Msg : Waiting(a)' => Waiting(a) /\ row'[a] = row[a]
        BY <2>1 DEF Waiting, Rows
    <2>d. DueInOrder'
        BY <1>d, <2>1, <2>w, DueStays
    <2> SUFFICES ASSUME NEW j \in Kind PROVE BatchInOrder(j)' /\ Counted(j)'
        BY <2>d DEF Order
    <2>2. CASE j # k
        BY <1>d, <2>1, <2>2, <2>w, BatchStays, CountedStays DEF Others
    <2>3. CASE j = k
      <3>1. ASSUME NEW b \in InBatch(k), NEW a \in Rows, Waiting(a), Waiting(b), KindOf[a] = k, row[a].id < row[b].id
            PROVE  a \in InBatch(k)
        <4>1. b \in Due(k) /\ b \in Rows /\ Cardinality({c \in Due(k) : Earlier(c, b)}) < Batch
            BY <3>1 DEF InBatch, Due
        <4>2. Earlier(a, b) /\ row[a].due <= row[b].due
            BY <1>d, <3>1, <4>1, OlderIsEarlier DEF Types
        <4>3. a \in Due(k)
          <5>1. row[b].due <= clock /\ clock \in Nat
              BY <4>1, OutboxConstants DEF Due, Types, PlainOK
          <5> QED BY <3>1, <4>1, <4>2, <5>1, RowNumbers DEF Due, Types
        <4>4. {c \in Due(k) : Earlier(c, a)} \subseteq {c \in Due(k) : Earlier(c, b)}
          <5> SUFFICES ASSUME NEW c \in Due(k), Earlier(c, a) PROVE Earlier(c, b)
              OBVIOUS
          <5>1. c \in Rows
              BY DEF Due
          <5> QED BY <3>1, <4>1, <4>2, <5>1, RowNumbers DEF Earlier, Types
        <4>5. IsFiniteSet({c \in Due(k) : Earlier(c, b)})
          <5>1. {c \in Due(k) : Earlier(c, b)} \subseteq Msg
              BY DEF Due, Rows
          <5> QED BY <5>1, OutboxConstants, FS_Subset
        <4> DEFINE A == {c \in Due(k) : Earlier(c, a)}  B == {c \in Due(k) : Earlier(c, b)}
        <4>6. IsFiniteSet(B) /\ A \subseteq B /\ Cardinality(B) < Batch
            BY <4>1, <4>4, <4>5
        <4> HIDE DEF A, B
        <4>7. Cardinality(A) <= Cardinality(B) /\ Cardinality(A) \in Nat /\ Cardinality(B) \in Nat
            BY <4>6, FS_Subset, FS_CardinalityType
        <4>8. Cardinality(A) < Batch
            BY <4>6, <4>7, OutboxConstants
        <4> QED BY <4>3, <4>8 DEF InBatch, A
      <3>2. BatchInOrder(k)'
          BY <2>1, <3>1 DEF BatchInOrder, Waiting, Rows
      <3>3. Counted(k)'
          BY <2>1 DEF Counted, Busy
      <3> QED BY <2>3, <3>2, <3>3
    <2> QED BY <2>2, <2>3
  <1>7. ASSUME NEW k \in Kind, Take(k) PROVE Order'
    <2>1. Others(k) /\ row' = row /\ clock' = clock /\ attempted \subseteq attempted'
        BY <1>7, TakenEffect DEF Take, Types
    <2>w. \A a \in Msg : Waiting(a)' => Waiting(a) /\ row'[a] = row[a]
        BY <2>1 DEF Waiting, Rows
    <2>d. DueInOrder'
        BY <1>d, <2>1, <2>w, DueStays
    <2> SUFFICES ASSUME NEW j \in Kind PROVE BatchInOrder(j)' /\ Counted(j)'
        BY <2>d DEF Order
    <2>2. CASE j # k
        BY <1>d, <2>1, <2>2, <2>w, BatchStays, CountedStays DEF Others
    <2>3. CASE j = k /\ pump'[k] = Asleep
        BY <2>3, AsleepTyped DEF BatchInOrder, Counted, Busy
    <2>4. CASE j = k /\ pump'[k] # Asleep
      <3> DEFINE m == FirstOf(pump[k].todo)
      <3>1. m \in Rows /\ pump'[k].row = m /\ pump'[k].todo = pump[k].todo \ {m} /\ attempted' = attempted \cup {m}
          BY <1>7, <2>4, TakenEffect DEF Types
      <3> HIDE DEF m
      <3>2. BatchInOrder(k)'
          BY <1>d, <2>1, <3>1 DEF BatchInOrder, Waiting, Rows
      <3>3. Counted(k)'
          BY <3>1 DEF Counted
      <3> QED BY <2>4, <3>2, <3>3
    <2> QED BY <2>2, <2>3, <2>4
  <1>8. ASSUME NEW k \in Kind, DeliverChunk(k) PROVE Order'
    <2>1. Others(k) /\ row' = row /\ attempted' = attempted /\ clock' = clock /\ pump'[k].todo = pump[k].todo
            /\ pump'[k].row = pump[k].row /\ Busy(k)
        BY <1>8, StepEffect, NextChunkEffect DEF DeliverChunk, Busy, Phases, Types
    <2>w. \A a \in Msg : Waiting(a)' => Waiting(a) /\ row'[a] = row[a]
        BY <2>1 DEF Waiting, Rows
    <2>d. DueInOrder'
        BY <1>d, <2>1, <2>w, DueStays
    <2> SUFFICES ASSUME NEW j \in Kind PROVE BatchInOrder(j)' /\ Counted(j)'
        BY <2>d DEF Order
    <2>2. CASE j # k
        BY <1>d, <2>1, <2>2, <2>w, BatchStays, CountedStays DEF Others
    <2>3. CASE j = k
        BY <1>d, <2>1, <2>3, <2>w, BatchStays DEF Counted
    <2> QED BY <2>2, <2>3
  <1>9. ASSUME NEW k \in Kind, DeliverFails(k) PROVE Order'
    <2>1. Others(k) /\ row' = row /\ attempted' = attempted /\ clock' = clock /\ pump'[k].todo = pump[k].todo
            /\ pump'[k].row = pump[k].row /\ Busy(k)
        BY <1>9, StepEffect DEF DeliverFails, Busy, Phases, Types
    <2>w. \A a \in Msg : Waiting(a)' => Waiting(a) /\ row'[a] = row[a]
        BY <2>1 DEF Waiting, Rows
    <2>d. DueInOrder'
        BY <1>d, <2>1, <2>w, DueStays
    <2> SUFFICES ASSUME NEW j \in Kind PROVE BatchInOrder(j)' /\ Counted(j)'
        BY <2>d DEF Order
    <2>2. CASE j # k
        BY <1>d, <2>1, <2>2, <2>w, BatchStays, CountedStays DEF Others
    <2>3. CASE j = k
        BY <1>d, <2>1, <2>3, <2>w, BatchStays DEF Counted
    <2> QED BY <2>2, <2>3
  <1>10. ASSUME NEW k \in Kind, MarkSent(k) PROVE Order'
    <2> DEFINE m == pump[k].row
    <2>1. Others(k) /\ clock' = clock /\ pump'[k].todo = pump[k].todo /\ pump'[k].step = "next"
        BY <1>10, StepEffect DEF MarkSent, Phases, Types
    <2>2. m \in Msg /\ m \in Rows /\ KindOf[m] = k /\ m \in attempted
        BY <1>10, <1>d, Working DEF MarkSent, Busy, Counted
    <2>3. /\ \A n \in Msg : n # m => row'[n] = row[n]
          /\ (Rows' = Rows \ {m} /\ attempted' = attempted \ {m}) \/ (row' = row /\ attempted' = attempted)
      <3>1. Remove(m) \/ (row' = row /\ attempted' = attempted)
          BY <1>10 DEF MarkSent
      <3> QED BY <2>2, <3>1, RemoveEffect DEF Types
    <2> HIDE DEF m
    <2>w. \A a \in Msg : Waiting(a)' => Waiting(a) /\ row'[a] = row[a]
        BY <2>2, <2>3 DEF Waiting, Rows
    <2>d. DueInOrder'
        BY <1>d, <2>1, <2>w, DueStays
    <2> SUFFICES ASSUME NEW j \in Kind PROVE BatchInOrder(j)' /\ Counted(j)'
        BY <2>d DEF Order
    <2>4. CASE j # k
      <3>1. \A a \in Rows : a \in attempted /\ KindOf[a] = j => a \in attempted'
          BY <2>2, <2>3, <2>4
      <3> QED BY <1>d, <2>1, <2>4, <2>w, <3>1, BatchStays, CountedStays DEF Others
    <2>5. CASE j = k
        BY <1>d, <2>1, <2>5, <2>w, BatchStays DEF Counted, Busy
    <2> QED BY <2>4, <2>5
  <1>11. ASSUME NEW k \in Kind, MarkFailed(k) PROVE Order'
    <2> DEFINE m == pump[k].row
    <2>1. Others(k) /\ clock' = clock /\ pump'[k].todo = pump[k].todo /\ pump'[k].step = "next"
        BY <1>11, StepEffect DEF MarkFailed, Phases, Types
    <2>2. m \in Msg /\ m \in Rows /\ KindOf[m] = k /\ m \in attempted
        BY <1>11, <1>d, Working DEF MarkFailed, Busy, Counted
    <2>3. /\ \A n \in Msg : n # m => row'[n] = row[n]
          /\ \/ Rows' = Rows \ {m} /\ attempted' = attempted \ {m}
             \/ Rows' = Rows /\ attempted' = attempted \cup {m}
             \/ row' = row /\ attempted' = attempted
        BY <1>11, <2>2, MarkFailedEffect, FailedEffect DEF Types
    <2> HIDE DEF m
    <2>w. \A a \in Msg : Waiting(a)' => Waiting(a) /\ row'[a] = row[a]
        BY <2>2, <2>3 DEF Waiting, Rows
    <2>d. DueInOrder'
        BY <1>d, <2>1, <2>w, DueStays
    <2> SUFFICES ASSUME NEW j \in Kind PROVE BatchInOrder(j)' /\ Counted(j)'
        BY <2>d DEF Order
    <2>4. CASE j # k
      <3>1. \A a \in Rows : a \in attempted /\ KindOf[a] = j => a \in attempted'
          BY <2>2, <2>3, <2>4
      <3> QED BY <1>d, <2>1, <2>4, <2>w, <3>1, BatchStays, CountedStays DEF Others
    <2>5. CASE j = k
        BY <1>d, <2>1, <2>5, <2>w, BatchStays DEF Counted, Busy
    <2> QED BY <2>4, <2>5
  <1>12. ASSUME NEW k \in Kind, ClientExits(k) PROVE Order'
      BY <1>12, <1>q DEF ClientExits
  <1>13. CASE SweepRow
    <2> DEFINE m == FirstOf(Strays)
    <2>1. pump' = pump /\ clock' = clock
        BY <1>13 DEF SweepRow
    <2>2. m \in Rows /\ m \in Msg /\ KindOf[m] \notin driven
        BY <1>13, SweepEffect DEF Types, Strays, NotDriven, Rows
    <2>3. /\ \A n \in Msg : n # m => row'[n] = row[n]
          /\ \/ Rows' = Rows \ {m} /\ attempted' = attempted \ {m}
             \/ Rows' = Rows /\ attempted' = attempted \cup {m}
        BY <1>13, <2>2, SweepEffect, FailedEffect DEF Types
    <2> HIDE DEF m
    <2>w. \A a \in Msg : Waiting(a)' => Waiting(a) /\ row'[a] = row[a]
        BY <2>2, <2>3 DEF Waiting, Rows
    <2>d. DueInOrder'
        BY <1>d, <2>1, <2>w, DueStays
    <2> SUFFICES ASSUME NEW j \in Kind PROVE BatchInOrder(j)' /\ Counted(j)'
        BY <2>d DEF Order
    <2>4. Busy(j) => j \in driven
        BY DEF Types, PumpsOwn, Own, Busy
    <2>5. \A a \in Rows : a \in attempted /\ KindOf[a] = j /\ Busy(j) => a \in attempted'
        BY <2>2, <2>3, <2>4
    <2> QED BY <1>d, <2>1, <2>w, <2>5, BatchStays, CountedStays
  <1>14. CASE Tick
      BY <1>14, <1>q DEF Tick
  <1>15. CASE Crash
    <2>1. row' = row /\ attempted' = attempted /\ clock' = clock /\ \A j \in Kind : pump'[j] = Asleep
        BY <1>15 DEF Crash
    <2>w. \A a \in Msg : Waiting(a)' => Waiting(a) /\ row'[a] = row[a]
        BY <2>1 DEF Waiting, Rows
    <2>d. DueInOrder'
        BY <1>d, <2>1, <2>w, DueStays
    <2> QED BY <2>1, <2>d, AsleepTyped DEF Order, BatchInOrder, Counted, Busy
  <1>16. ASSUME NEW kinds \in Config, Restart(kinds) PROVE Order'
      BY <1>16, <1>q DEF Restart
  <1>17. CASE UNCHANGED vars
      BY <1>17, <1>q DEF vars
  <1>18. CASE Elsewhere
      BY <1>18, ElsewhereQuiet, <1>q
  <1> QED BY <1>1, <1>2, <1>3, <1>4, <1>5, <1>6, <1>7, <1>8, <1>9, <1>10, <1>11, <1>12,
             <1>13, <1>14, <1>15, <1>16, <1>17, <1>18
          DEF Next, Driver, Elsewhere

LEMMA FreshStep == Types /\ Ids /\ Order /\ FreshInOrder /\ [Next]_vars => FreshInOrder'
  <1> SUFFICES ASSUME Types, Ids, Order, FreshInOrder, [Next]_vars PROVE FreshInOrder'
      OBVIOUS
  <1>q. ASSUME row' = row, attempted' = attempted PROVE FreshInOrder'
      BY <1>q DEF FreshInOrder, Rows
  <1>1. ASSUME NEW m \in Msg, StartSend(m) PROVE FreshInOrder'
      BY <1>1, <1>q DEF StartSend
  <1>2. ASSUME NEW m \in Msg, SendChunk(m) PROVE FreshInOrder'
      BY <1>2, <1>q DEF SendChunk
  <1>3. ASSUME NEW m \in Msg, SendUnclear(m) PROVE FreshInOrder'
      BY <1>3, <1>q DEF SendUnclear
  <1>4. ASSUME NEW m \in Msg, SendRefused(m) PROVE FreshInOrder'
      BY <1>4, <1>q DEF SendRefused
  <1>5. ASSUME NEW m \in Msg, Keep(m) PROVE FreshInOrder'
    <2>1. /\ \A b \in Msg : b # m => row'[b] = row[b]
          /\ \/ row'[m].id = NextId /\ Rows' = Rows \cup {m}
             \/ UNCHANGED row
        BY <1>5, KeepEffect DEF Types
    <2>2. attempted' = attempted /\ m \notin Rows /\ m \notin attempted
        BY <1>5 DEF Keep, Types, RowsDone, PlainOK
    <2>3. NextId \in Nat /\ \A b \in Rows : ~(NextId < row[b].id)
        BY NextIdFresh, RowNumbers DEF Types
    <2>4. \A b \in Rows : b # m /\ row'[b] = row[b]
        BY <2>1, <2>2 DEF Rows
    <2> QED BY <2>1, <2>2, <2>3, <2>4 DEF FreshInOrder, Rows
  <1>6. ASSUME NEW k \in Kind, Fetch(k) PROVE FreshInOrder'
      BY <1>6, <1>q DEF Fetch
  <1>7. ASSUME NEW k \in Kind, Take(k) PROVE FreshInOrder'
    <2>1. row' = row
        BY <1>7 DEF Take
    <2>2. CASE attempted' = attempted
        BY <1>q, <2>1, <2>2 DEF Rows
    <2>3. CASE attempted' # attempted
      <3> DEFINE m == FirstOf(pump[k].todo)
      <3>1. /\ m \in pump[k].todo /\ m \in Rows /\ KindOf[m] = k /\ attempted' = attempted \cup {m}
            /\ \A b \in pump[k].todo \ {m} : Earlier(m, b)
          BY <1>7, <2>3, TakenEffect DEF Types
      <3> HIDE DEF m
      <3>2. ASSUME NEW a \in Rows, KindOf[a] = k, row[a].id < row[m].id, a \notin attempted
            PROVE  FALSE
        <4>1. Waiting(a) /\ Waiting(m) /\ a # m
            BY <2>3, <3>1, <3>2, RowNumbers DEF Waiting, Types
        <4>2. a \in pump[k].todo
            BY <3>1, <3>2, <4>1 DEF Order, BatchInOrder
        <4>3. ~Earlier(m, a)
            BY <3>1, <3>2, <4>1, OlderIsEarlier DEF Order, Types
        <4> QED BY <3>1, <4>1, <4>2, <4>3
      <3> QED BY <2>1, <3>1, <3>2 DEF FreshInOrder, Rows
    <2> QED BY <2>2, <2>3
  <1>8. ASSUME NEW k \in Kind, DeliverChunk(k) PROVE FreshInOrder'
      BY <1>8, <1>q DEF DeliverChunk
  <1>9. ASSUME NEW k \in Kind, DeliverFails(k) PROVE FreshInOrder'
      BY <1>9, <1>q DEF DeliverFails
  <1>10. ASSUME NEW k \in Kind, MarkSent(k) PROVE FreshInOrder'
    <2> DEFINE m == pump[k].row
    <2>1. m \in Msg /\ m \in Rows
        BY <1>10, Working DEF MarkSent, Busy
    <2>2. Remove(m) \/ (row' = row /\ attempted' = attempted)
        BY <1>10 DEF MarkSent
    <2> HIDE DEF m
    <2>3. CASE Remove(m)
        BY <2>1, <2>3, RemoveEffect DEF FreshInOrder, Types, Rows
    <2>4. CASE row' = row /\ attempted' = attempted
        BY <1>q, <2>4 DEF Rows
    <2> QED BY <2>2, <2>3, <2>4
  <1>11. ASSUME NEW k \in Kind, MarkFailed(k) PROVE FreshInOrder'
    <2> DEFINE m == pump[k].row
    <2>1. m \in Msg /\ m \in Rows /\ m \in attempted
        BY <1>11, Working DEF MarkFailed, Busy, Order, Counted
    <2>2. /\ \A n \in Msg : n # m => row'[n] = row[n]
          /\ \/ Rows' = Rows \ {m} /\ attempted' = attempted \ {m}
             \/ Rows' = Rows /\ attempted' = attempted \cup {m} /\ row'[m].id = row[m].id
             \/ row' = row /\ attempted' = attempted
        BY <1>11, <2>1, MarkFailedEffect, FailedEffect DEF Types
    <2> HIDE DEF m
    <2> QED BY <2>1, <2>2 DEF FreshInOrder, Rows
  <1>12. ASSUME NEW k \in Kind, ClientExits(k) PROVE FreshInOrder'
      BY <1>12, <1>q DEF ClientExits
  <1>13. CASE SweepRow
    <2> DEFINE m == FirstOf(Strays)
    <2>1. m \in Rows /\ m \in Msg /\ m \in Strays /\ \A b \in Strays \ {m} : Earlier(m, b)
        BY <1>13, SweepEffect DEF Types, Strays, Rows
    <2>2. /\ \A n \in Msg : n # m => row'[n] = row[n]
          /\ \/ Rows' = Rows \ {m} /\ attempted' = attempted \ {m}
             \/ Rows' = Rows /\ attempted' = attempted \cup {m} /\ row'[m].id = row[m].id
        BY <1>13, <2>1, SweepEffect, FailedEffect DEF Types
    <2> HIDE DEF m
    <2>3. ASSUME NEW a \in Rows, KindOf[a] = KindOf[m], row[a].id < row[m].id, a \notin attempted
          PROVE  FALSE
      <3>1. m \in attempted => FALSE
          BY <2>1, <2>3 DEF FreshInOrder
      <3>2. Waiting(a) /\ Waiting(m) /\ a # m
          BY <2>1, <2>3, <3>1, RowNumbers DEF Waiting, Types
      <3>3. ~Earlier(m, a) /\ row[a].due <= row[m].due
          BY <2>1, <2>3, <3>2, OlderIsEarlier DEF Order, Types
      <3>4. row[m].due <= clock /\ clock \in Nat /\ KindOf[m] \notin driven
          BY <2>1, OutboxConstants DEF Strays, NotDriven, Types, PlainOK
      <3>5. a \in Strays
        <4>1. row[a].due <= clock
            BY <2>1, <2>3, <3>3, <3>4, RowNumbers DEF Types
        <4> QED BY <2>3, <3>4, <4>1 DEF Strays, NotDriven
      <3> QED BY <2>1, <3>2, <3>3, <3>5
    <2>4. CASE Rows' = Rows \ {m} /\ attempted' = attempted \ {m}
        BY <2>1, <2>2, <2>4 DEF FreshInOrder, Rows
    <2>5. CASE Rows' = Rows /\ attempted' = attempted \cup {m} /\ row'[m].id = row[m].id
      <3>1. \A n \in Rows : row'[n].id = row[n].id
          BY <2>2, <2>5 DEF Rows
      <3> QED BY <2>3, <2>5, <3>1 DEF FreshInOrder
    <2> QED BY <2>2, <2>4, <2>5
  <1>14. CASE Tick
      BY <1>14, <1>q DEF Tick
  <1>15. CASE Crash
      BY <1>15, <1>q DEF Crash
  <1>16. ASSUME NEW kinds \in Config, Restart(kinds) PROVE FreshInOrder'
      BY <1>16, <1>q DEF Restart
  <1>17. CASE UNCHANGED vars
      BY <1>17, <1>q DEF vars
  <1>18. CASE Elsewhere
      BY <1>18, ElsewhereQuiet, <1>q
  <1> QED BY <1>1, <1>2, <1>3, <1>4, <1>5, <1>6, <1>7, <1>8, <1>9, <1>10, <1>11, <1>12,
             <1>13, <1>14, <1>15, <1>16, <1>17, <1>18
          DEF Next, Driver, Elsewhere

LEMMA OrderInit == Init => Order /\ FreshInOrder
  <1> SUFFICES ASSUME Init PROVE Order /\ FreshInOrder
      OBVIOUS
  <1>1. Rows = {}
      BY OutboxConstants DEF Init, NoRow, Rows
  <1>2. \A k \in Kind : pump[k] = Asleep
      BY DEF Init
  <1> QED BY <1>1, <1>2, AsleepTyped DEF Order, DueInOrder, BatchInOrder, Counted, Busy, FreshInOrder

\* No row is attempted, by its driver or the sweeper, before an older row of its
\* kind that waits for its first attempt.
THEOREM FreshInOrderHolds == Spec => []FreshInOrder
  <1> DEFINE Inv == Types /\ Ids /\ Order /\ FreshInOrder
  <1>1. Init => Inv
      BY TypesInit, OrderInit
  <1>2. Inv /\ [Next]_vars => Inv'
      BY TypesStep, OrderStep, FreshStep
  <1>3. Inv => FreshInOrder
      OBVIOUS
  <1> HIDE DEF Inv
  <1> QED BY <1>1, <1>2, <1>3, PTL DEF Spec

-----------------------------------------------------------------------------
(* Attempts end and are counted: what a row has left only gets less.          *)

\* The attempts that a message may still get from the outbox: a row has those
\* that are not counted yet, one that is not sent yet may get a row with all.
Budget ==
    [m \in Msg |-> IF m \in Rows THEN MaxAttempts - row[m].tries
                   ELSE IF pc[m] = "done" THEN 0 ELSE MaxAttempts + 1]

\* The steps its driver needs at most until an attempt is over.
Left ==
    [k \in Kind |->
        IF pump[k].step = "deliver" THEN Chunks[pump[k].row] - pump[k].at + 2
        ELSE IF Busy(k) THEN 1 ELSE 0]

\* No step gives attempts back.
BudgetShrinks == \A m \in Msg : Budget'[m] <= Budget[m]
\* An attempt whose result is recorded is paid for, by its row's driver or by
\* the sweeper.
ResultIsCounted ==
    /\ \A k \in Kind : (MarkSent(k) \/ MarkFailed(k)) /\ faults' = faults =>
          Budget'[pump[k].row] < Budget[pump[k].row]
    /\ SweepRow => \E m \in Strays : Budget'[m] < Budget[m]
\* Its driver brings an attempt that has begun closer to its result with every
\* step, and nothing else puts the result off.
AttemptEnds ==
    \A k \in Kind : Busy(k) => Left'[k] <= Left[k] /\ (Driver(k) => Left'[k] < Left[k])

LEMMA BudgetTyped ==
    ASSUME LiveOK, StoreOK
    PROVE  \A m \in Msg :
              Budget[m] \in 0 .. MaxAttempts + 1 /\ (m \in Rows => Budget[m] \in 1 .. MaxAttempts)
  <1> SUFFICES ASSUME NEW m \in Msg
               PROVE  /\ Budget[m] \in 0 .. MaxAttempts + 1
                      /\ m \in Rows => Budget[m] \in 1 .. MaxAttempts
      OBVIOUS
  <1>1. row[m].tries \in 0 .. MaxAttempts - 1 /\ MaxAttempts \in Nat /\ MaxAttempts >= 1
      BY OutboxConstants DEF StoreOK, RowSet
  <1> QED BY <1>1 DEF Budget

LEMMA FailedSpends ==
    ASSUME LiveOK, StoreOK, NEW m \in Rows, NEW due \in 0 .. MaxClock, Failed(m, due), UNCHANGED pc,
           pc[m] = "done"
    PROVE  Budget'[m] < Budget[m] /\ Budget'[m] \in Nat /\ \A n \in Msg : n # m => Budget'[n] = Budget[n]
  <1>1. m \in Msg /\ row[m].tries \in 0 .. MaxAttempts - 1 /\ MaxAttempts \in Nat
      BY OutboxConstants DEF Rows, StoreOK, RowSet
  <1>2. \A n \in Msg : n # m => Budget'[n] = Budget[n]
      BY FailedEffect DEF Budget, Rows
  <1>3. CASE Exhausted(row[m].tries + 1)
    <2>1. m \notin Rows'
        BY <1>1, <1>3, RemoveEffect DEF Failed
    <2> QED BY <1>1, <1>2, <2>1 DEF Budget
  <1>4. CASE ~Exhausted(row[m].tries + 1)
    <2> DEFINE new == [row[m] EXCEPT !.tries = @ + 1, !.due = due]
    <2>1. row[m] \in RowSet
        BY <1>1 DEF StoreOK
    <2>2. new.tries = row[m].tries + 1 /\ new.id = row[m].id
        BY <2>1 DEF RowSet
    <2>3. row' = [row EXCEPT ![m] = new]
        BY <1>4 DEF Failed
    <2> HIDE DEF new
    <2>4. row'[m] = new
        BY <1>1, <2>3 DEF StoreOK
    <2>5. m \in Rows' /\ row'[m].tries = row[m].tries + 1
        BY <1>1, <2>2, <2>4 DEF Rows
    <2> QED BY <1>1, <1>2, <2>5 DEF Budget
  <1> QED BY <1>3, <1>4

LEMMA BudgetStep == Types /\ Ids /\ [Next]_vars => BudgetShrinks /\ ResultIsCounted
  <1> SUFFICES ASSUME Types, Ids, [Next]_vars PROVE BudgetShrinks /\ ResultIsCounted
      OBVIOUS
  <1> USE DEF Types
  <1>b. \A m \in Msg :
            Budget[m] \in 0 .. MaxAttempts + 1 /\ (m \in Rows => Budget[m] \in 1 .. MaxAttempts)
      BY BudgetTyped
  <1>a. MaxAttempts \in Nat
      BY OutboxConstants
  <1>s. ASSUME UNCHANGED <<row, pc>> PROVE BudgetShrinks
      BY <1>a, <1>b, <1>s DEF BudgetShrinks, Budget, Rows
  <1>l. ASSUME NEW m \in Msg, pc[m] # "done", UNCHANGED row, \A n \in Msg : n # m => pc'[n] = pc[n]
        PROVE  BudgetShrinks
    <2>1. m \notin Rows /\ Budget[m] = MaxAttempts + 1
        BY <1>l DEF RowsDone, Budget
    <2>2. Budget'[m] \in {0, MaxAttempts + 1}
        BY <1>l, <2>1 DEF Budget, Rows
    <2>3. \A n \in Msg : n # m => Budget'[n] = Budget[n]
        BY <1>l DEF Budget, Rows
    <2> QED BY <1>a, <1>b, <2>1, <2>2, <2>3 DEF BudgetShrinks
  <1>f. ASSUME NEW k \in Kind, MarkFailed(k), faults' = faults
        PROVE  /\ Budget'[pump[k].row] < Budget[pump[k].row] /\ Budget'[pump[k].row] \in Nat
               /\ \A n \in Msg : n # pump[k].row => Budget'[n] = Budget[n]
    <2>1. faults' # faults + 1
        BY <1>f, OutboxConstants DEF PlainOK
    <2>2. \E due \in 0 .. MaxClock : Failed(pump[k].row, due)
      <3>1. pump[k].row \in Rows /\ pump[k].row \in Msg /\ pump[k].now \in Nat
          BY <1>f, OutboxConstants DEF MarkFailed, PumpsOwn, Own, Busy, PumpOK, Pump, Rows
      <3>2. row[pump[k].row].tries \in Nat
          BY <3>1, OutboxConstants DEF StoreOK, RowSet
      <3> QED BY <1>f, <2>1, <3>1, <3>2, BackoffTyped DEF MarkFailed, Fault
    <2>3. pump[k].row \in Rows /\ pc[pump[k].row] = "done" /\ UNCHANGED pc
        BY <1>f, MarkFailedEffect DEF RowsDone, MarkFailed, live
    <2> QED BY <2>2, <2>3, FailedSpends
  <1>g. ASSUME NEW k \in Kind, MarkSent(k), Remove(pump[k].row)
        PROVE  /\ Budget'[pump[k].row] < Budget[pump[k].row] /\ Budget'[pump[k].row] \in Nat
               /\ \A n \in Msg : n # pump[k].row => Budget'[n] = Budget[n]
    <2>1. pump[k].row \in Rows /\ pump[k].row \in Msg /\ pc[pump[k].row] = "done" /\ UNCHANGED pc
        BY <1>g DEF MarkSent, PumpsOwn, Own, Busy, Rows, RowsDone
    <2>2. Rows' = Rows \ {pump[k].row} /\ \A n \in Msg : n # pump[k].row => row'[n] = row[n]
        BY <1>g, <2>1, RemoveEffect
    <2> QED BY <1>a, <1>b, <2>1, <2>2 DEF Budget, Rows
  <1>w. ASSUME SweepRow
        PROVE  /\ Budget'[FirstOf(Strays)] < Budget[FirstOf(Strays)] /\ Budget'[FirstOf(Strays)] \in Nat
               /\ FirstOf(Strays) \in Strays
               /\ \A n \in Msg : n # FirstOf(Strays) => Budget'[n] = Budget[n]
    <2>1. FirstOf(Strays) \in Strays /\ FirstOf(Strays) \in Rows
            /\ \E due \in 0 .. MaxClock : Failed(FirstOf(Strays), due)
        BY <1>w, SweepEffect DEF Strays
    <2>2. pc[FirstOf(Strays)] = "done" /\ UNCHANGED pc
        BY <1>w, <2>1 DEF RowsDone, SweepRow, live
    <2> QED BY <2>1, <2>2, FailedSpends
  <1>c. ResultIsCounted
    <2>1. ASSUME NEW k \in Kind, MarkSent(k), faults' = faults
          PROVE  Budget'[pump[k].row] < Budget[pump[k].row]
      <3>1. Remove(pump[k].row)
          BY <2>1 DEF MarkSent, Fault, PlainOK
      <3> QED BY <2>1, <3>1, <1>g
    <2> QED BY <2>1, <1>f, <1>w DEF ResultIsCounted
  <1>1. ASSUME NEW m \in Msg, StartSend(m) PROVE BudgetShrinks
    <2>1. UNCHANGED row /\ pc[m] # "done" /\ \A n \in Msg : n # m => pc'[n] = pc[n]
        BY <1>1 DEF StartSend, Goto, LiveOK
    <2> QED BY <2>1, <1>l
  <1>2. ASSUME NEW m \in Msg, SendChunk(m) PROVE BudgetShrinks
    <2>1. UNCHANGED row /\ pc[m] # "done" /\ \A n \in Msg : n # m => pc'[n] = pc[n]
        BY <1>2 DEF SendChunk, Tell, Goto, LiveOK
    <2> QED BY <2>1, <1>l
  <1>3. ASSUME NEW m \in Msg, SendUnclear(m) PROVE BudgetShrinks
    <2>1. UNCHANGED row /\ pc[m] # "done" /\ \A n \in Msg : n # m => pc'[n] = pc[n]
        BY <1>3 DEF SendUnclear, Tell, Goto, LiveOK
    <2> QED BY <2>1, <1>l
  <1>4. ASSUME NEW m \in Msg, SendRefused(m) PROVE BudgetShrinks
    <2>1. UNCHANGED row /\ pc[m] # "done" /\ \A n \in Msg : n # m => pc'[n] = pc[n]
        BY <1>4 DEF SendRefused, Goto, LiveOK
    <2> QED BY <2>1, <1>l
  <1>5. ASSUME NEW m \in Msg, Keep(m) PROVE BudgetShrinks
    <2>1. m \notin Rows /\ Budget[m] = MaxAttempts + 1
        BY <1>5 DEF Keep, RowsDone, Budget
    <2>2. StoreOK' /\ pc'[m] = "done" /\ \A n \in Msg : n # m => row'[n] = row[n] /\ pc'[n] = pc[n]
        BY <1>5, KeepEffect DEF LiveOK
    <2>3. row'[m].tries \in 0 .. MaxAttempts - 1
        BY <2>2 DEF StoreOK, RowSet
    <2>4. Budget'[m] <= MaxAttempts + 1
        BY <1>a, <2>2, <2>3 DEF Budget
    <2>5. \A n \in Msg : n # m => Budget'[n] = Budget[n]
        BY <2>2 DEF Budget, Rows
    <2> QED BY <1>a, <1>b, <2>1, <2>4, <2>5 DEF BudgetShrinks
  <1>6. ASSUME NEW k \in Kind, Fetch(k) \/ Take(k) \/ DeliverChunk(k) \/ DeliverFails(k) PROVE BudgetShrinks
      BY <1>6, <1>s DEF Fetch, Take, DeliverChunk, DeliverFails, live
  <1>7. ASSUME NEW k \in Kind, MarkSent(k) PROVE BudgetShrinks
    <2>1. CASE Remove(pump[k].row)
        BY <1>7, <2>1, <1>a, <1>b, <1>g DEF BudgetShrinks
    <2>2. CASE UNCHANGED row
        BY <1>7, <2>2, <1>s DEF MarkSent, live
    <2> QED BY <1>7, <2>1, <2>2 DEF MarkSent
  <1>8. ASSUME NEW k \in Kind, MarkFailed(k) PROVE BudgetShrinks
    <2>1. CASE faults' = faults
        BY <1>8, <2>1, <1>a, <1>b, <1>f DEF BudgetShrinks
    <2>2. CASE UNCHANGED row
        BY <1>8, <2>2, <1>s DEF MarkFailed, live
    <2> QED BY <1>8, <2>1, <2>2 DEF MarkFailed
  <1>9. ASSUME SweepRow PROVE BudgetShrinks
      BY <1>9, <1>a, <1>b, <1>w DEF BudgetShrinks
  <1>10. ASSUME NEW k \in Kind, ClientExits(k) PROVE BudgetShrinks
      BY <1>10, <1>s DEF ClientExits, live
  <1>11. ASSUME Tick PROVE BudgetShrinks
      BY <1>11, <1>s DEF Tick, live
  <1>12. ASSUME Crash PROVE BudgetShrinks
    <2>1. UNCHANGED row /\ \A n \in Msg : pc'[n] = pc[n] \/ (pc[n] # "done" /\ pc'[n] = "done")
        BY <1>12 DEF Crash, LiveOK
    <2>2. ASSUME NEW n \in Msg PROVE Budget'[n] <= Budget[n]
      <3>1. pc[n] # "done" => n \notin Rows
          BY DEF RowsDone
      <3> QED BY <1>a, <1>b, <2>1, <2>2, <3>1 DEF Budget, Rows
    <2> QED BY <2>2 DEF BudgetShrinks
  <1>13. ASSUME NEW kinds \in Config, Restart(kinds) PROVE BudgetShrinks
      BY <1>13, <1>s DEF Restart, live
  <1>14. ASSUME UNCHANGED vars PROVE BudgetShrinks
      BY <1>14, <1>s DEF vars, live
  <1>15. ASSUME Elsewhere PROVE BudgetShrinks
      BY <1>15, <1>s, ElsewhereQuiet DEF live
  <1> QED BY <1>c, <1>1, <1>2, <1>3, <1>4, <1>5, <1>6, <1>7, <1>8, <1>9, <1>10, <1>11, <1>12,
             <1>13, <1>14, <1>15
          DEF Next, Driver, Elsewhere

LEMMA LeftTyped == ASSUME Types, NEW k \in Kind PROVE Left[k] \in Nat /\ (Busy(k) => Left[k] >= 1)
  <1>1. CASE Busy(k)
    <2>1. pump[k].at \in 1 .. Chunks[pump[k].row] /\ Chunks[pump[k].row] \in Nat
        BY <1>1, Working, OutboxConstants
    <2> QED BY <1>1, <2>1 DEF Left, Busy
  <1>2. CASE ~Busy(k)
      BY <1>2 DEF Left, Busy
  <1> QED BY <1>1, <1>2

LEMMA DriverEndsAttempt ==
    ASSUME Types, NEW k \in Kind, Busy(k), Driver(k)
    PROVE  Left'[k] < Left[k] /\ Left'[k] \in Nat /\ Others(k)
  <1>1. /\ pump[k].at \in Nat /\ pump[k].at <= Chunks[pump[k].row] /\ Chunks[pump[k].row] \in Nat
        /\ pump[k].row \in Msg
      BY Working, OutboxConstants
  <1>2. Left[k] = IF pump[k].step = "deliver" THEN Chunks[pump[k].row] - pump[k].at + 2 ELSE 1
      BY DEF Left
  <1>3. Left'[k] = IF pump'[k].step = "deliver" THEN Chunks[pump'[k].row] - pump'[k].at + 2
                   ELSE IF pump'[k].step \in {"sent", "failed"} THEN 1 ELSE 0
      BY DEF Left, Busy
  <1>4. PumpOK
      BY DEF Types
  <1>5. CASE Fetch(k) \/ Take(k)
      BY <1>5 DEF Fetch, Take, Busy
  <1>6. CASE DeliverChunk(k)
    <2>1. pump[k].step = "deliver"
        BY <1>6 DEF DeliverChunk
    <2>2. CASE pump[k].at = Chunks[pump[k].row]
      <3>1. Step(k, "sent")
          BY <1>6, <2>2 DEF DeliverChunk
      <3>2. pump'[k].step = "sent" /\ Others(k)
          BY <1>4, <3>1, StepEffect DEF Phases
      <3> QED BY <1>1, <1>2, <1>3, <2>1, <3>2
    <2>3. CASE pump[k].at # Chunks[pump[k].row]
      <3>1. pump' = [pump EXCEPT ![k].at = @ + 1]
          BY <1>6, <2>3 DEF DeliverChunk
      <3>2. pump'[k].step = "deliver" /\ pump'[k].row = pump[k].row /\ pump'[k].at = pump[k].at + 1 /\ Others(k)
          BY <1>4, <2>1, <3>1, NextChunkEffect
      <3> QED BY <1>1, <1>2, <1>3, <2>1, <2>3, <3>2
    <2> QED BY <2>2, <2>3
  <1>7. CASE DeliverFails(k)
    <2>1. pump[k].step = "deliver" /\ pump'[k].step = "failed" /\ Others(k)
        BY <1>4, <1>7, StepEffect DEF DeliverFails, Phases
    <2> QED BY <1>1, <1>2, <1>3, <2>1
  <1>8. CASE MarkSent(k) \/ MarkFailed(k)
    <2>1. pump[k].step # "deliver" /\ pump'[k].step = "next" /\ Others(k)
        BY <1>4, <1>8, StepEffect DEF MarkSent, MarkFailed, Phases
    <2> QED BY <1>2, <1>3, <2>1
  <1> QED BY <1>5, <1>6, <1>7, <1>8 DEF Driver

LEMMA DriverAlone == ASSUME Types, Ids, NEW k \in Kind, Driver(k) PROVE Others(k)
  <1>1. PumpOK
      BY DEF Types
  <1>2. CASE Busy(k)
      BY <1>2, DriverEndsAttempt
  <1>3. CASE ~Busy(k)
    <2>1. CASE Fetch(k)
      <3>1. \E p : pump' = [pump EXCEPT ![k] = p]
          BY <2>1 DEF Fetch
      <3> QED BY <1>1, <3>1 DEF Others, PumpOK
    <2>2. CASE Take(k)
      <3>1. \E p : pump' = [pump EXCEPT ![k] = p]
          BY <2>2 DEF Take
      <3> QED BY <1>1, <3>1 DEF Others, PumpOK
    <2> QED BY <1>3, <2>1, <2>2 DEF Driver, DeliverChunk, DeliverFails, MarkSent, MarkFailed, Busy
  <1> QED BY <1>2, <1>3

LEMMA AttemptStep == Types /\ Ids /\ [Next]_vars => AttemptEnds
  <1> SUFFICES ASSUME Types, Ids, [Next]_vars, NEW k \in Kind, Busy(k)
               PROVE  Left'[k] <= Left[k] /\ (Driver(k) => Left'[k] < Left[k])
      BY DEF AttemptEnds
  <1>1. Left[k] \in Nat /\ Left[k] >= 1
      BY LeftTyped
  <1>2. Driver(k) => Left'[k] < Left[k] /\ Left'[k] \in Nat
      BY DriverEndsAttempt
  <1>s. ASSUME pump'[k] = pump[k] PROVE Left'[k] = Left[k]
      BY <1>s DEF Left, Busy
  <1>3. ASSUME ~Driver(k) PROVE Left'[k] <= Left[k]
    <2>1. ASSUME NEW j \in Kind, Driver(j) PROVE Left'[k] <= Left[k]
        BY <1>1, <1>3, <1>s, <2>1, DriverAlone DEF Others
    <2>2. ASSUME NEW m \in Msg, StartSend(m) \/ SendChunk(m) \/ SendUnclear(m) \/ SendRefused(m) \/ Keep(m)
          PROVE  Left'[k] <= Left[k]
        BY <1>1, <1>s, <2>2 DEF StartSend, SendChunk, SendUnclear, SendRefused, Keep
    <2>3. ASSUME NEW j \in Kind, ClientExits(j) PROVE Left'[k] <= Left[k]
        BY <1>1, <1>s, <2>3 DEF ClientExits
    <2>4. ASSUME SweepRow \/ Tick \/ UNCHANGED vars PROVE Left'[k] <= Left[k]
        BY <1>1, <1>s, <2>4 DEF SweepRow, Tick, vars
    <2>5. ASSUME Crash PROVE Left'[k] <= Left[k]
      <3>1. pump'[k].step = "sleep"
          BY <2>5 DEF Crash, Asleep
      <3>2. Left'[k] = 0
          BY <3>1 DEF Left, Busy
      <3> QED BY <1>1, <3>2
    <2>6. ASSUME NEW kinds \in Config, Restart(kinds) PROVE Left'[k] <= Left[k]
        BY <1>1, <1>s, <2>6 DEF Restart
    <2>7. ASSUME Elsewhere PROVE Left'[k] <= Left[k]
        BY <1>1, <1>s, <2>7, ElsewhereQuiet
    <2> QED BY <2>1, <2>2, <2>3, <2>4, <2>5, <2>6, <2>7 DEF Next, Elsewhere
  <1> QED BY <1>1, <1>2, <1>3

\* A row has at most MaxAttempts results ahead, every recorded result takes one
\* away, no step gives one back, and an attempt that has begun comes to its
\* result in so many steps of its driver: with fair drivers and sweeper this is
\* why no row stays for good (outbox_mark_sent, outbox_mark_failed, the sweep).
THEOREM RowsRunOut ==
    Spec => /\ [](\A m \in Rows : Budget[m] \in 1 .. MaxAttempts)
            /\ [][BudgetShrinks /\ ResultIsCounted /\ AttemptEnds]_vars
  <1> DEFINE Inv  == Types /\ Ids
             Paid == \A m \in Rows : Budget[m] \in 1 .. MaxAttempts
             Pays == BudgetShrinks /\ ResultIsCounted /\ AttemptEnds
  <1>1. Init => Inv
      BY TypesInit
  <1>2. Inv /\ [Next]_vars => Inv'
      BY TypesStep
  <1>3. Inv => Paid
      BY BudgetTyped DEF Types, Rows
  <1>4. Inv /\ [Next]_vars => [Pays]_vars
      BY BudgetStep, AttemptStep
  <1> HIDE DEF Inv, Paid, Pays
  <1>5. Spec => []Paid /\ [][Pays]_vars
      BY <1>1, <1>2, <1>3, <1>4, PTL DEF Spec
  <1> QED BY <1>5 DEF Paid, Pays

=============================================================================
