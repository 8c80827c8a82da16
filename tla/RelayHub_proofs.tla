---------------------------- MODULE RelayHub_proofs ----------------------------
(* Theorems about RelayHub: a connection of a revoked session is being        *)
(* closed, and every browser is told of the newest list of machines.  The     *)
(* channels are first reduced to the sets of messages in them: what a step    *)
(* adds, keeps and takes.  Each invariant then has one step per action.       *)
EXTENDS RelayHub, SequenceTheorems, FiniteSetTheorems, TLAPS

USE DEF Conn, table, store, sent

\* The messages in a channel.
In(s) == {s[i] : i \in DOMAIN s}

Message == [kind : Kinds, of : SUBSET Machine, ver : Nat]
Job     == [close : SUBSET Conn, of : SUBSET Machine, ver : Nat, to : SUBSET Browser, replay : Nat]

Typed ==
    /\ step \in [Conn -> Steps] /\ chan \in [Conn -> Seq(Message)]
    /\ job \in [Conn -> Job] /\ slot \in [Machine -> Gateway \cup {Nobody}]
    /\ shown \in [Browser -> Message] /\ ver \in Nat /\ newest \in [Browser -> Nat]
    /\ buf \in Nat

Fits == \A c \in Conn : Len(chan[c]) <= Capacity

-----------------------------------------------------------------------------
(* What the operations on channels do *)

LEMMA ItemType == \A k \in Kinds : Item(k) \in Message
  BY DEF Item, Message

LEMMA AppendIn ==
  ASSUME NEW s \in Seq(Message), NEW x \in Message
  PROVE  In(Append(s, x)) = In(s) \cup {x}
  <1>1. /\ DOMAIN s = 1 .. Len(s) /\ Len(s) \in Nat
        /\ DOMAIN Append(s, x) = 1 .. Len(s) + 1
      BY LenProperties, AppendProperties
  <1>2. \A i \in 1 .. Len(s) : Append(s, x)[i] = s[i]
      BY AppendProperties
  <1>3. Append(s, x)[Len(s) + 1] = x
      BY AppendProperties
  <1> QED BY <1>1, <1>2, <1>3 DEF In

LEMMA ConcatIn ==
  ASSUME NEW s \in Seq(Message), NEW t \in Seq(Message)
  PROVE  In(s \o t) = In(s) \cup In(t)
  <1> DEFINE u == s \o t
  <1>1. /\ DOMAIN s = 1 .. Len(s) /\ Len(s) \in Nat
        /\ DOMAIN t = 1 .. Len(t) /\ Len(t) \in Nat
      BY LenProperties
  <1>2. /\ u \in Seq(Message) /\ Len(u) = Len(s) + Len(t)
        /\ \A i \in 1 .. Len(s) + Len(t) : u[i] = IF i <= Len(s) THEN s[i] ELSE t[i - Len(s)]
      BY ConcatProperties
  <1>3. DOMAIN u = 1 .. Len(s) + Len(t)
      BY <1>2, LenProperties
  <1>4. \A i \in 1 .. Len(t) : u[Len(s) + i] = t[i] /\ Len(s) + i \in DOMAIN u
      BY <1>1, <1>2, <1>3
  <1>5. In(t) \subseteq In(u)
      BY <1>1, <1>4 DEF In
  <1>6. In(s) \subseteq In(u)
      BY <1>1, <1>2, <1>3 DEF In
  <1>7. In(u) \subseteq In(s) \cup In(t)
      BY <1>1, <1>2, <1>3 DEF In
  <1> QED BY <1>5, <1>6, <1>7

LEMMA TailIn ==
  ASSUME NEW s \in Seq(Message), s # <<>>
  PROVE  /\ In(Tail(s)) \subseteq In(s) /\ In(s) \subseteq In(Tail(s)) \cup {Head(s)}
         /\ Head(s) \in In(s) /\ Head(s) \in Message
         /\ Tail(s) \in Seq(Message) /\ Len(Tail(s)) <= Len(s)
  <1>1. /\ DOMAIN s = 1 .. Len(s) /\ Len(s) \in Nat \ {0} /\ Head(s) = s[1]
      BY LenProperties, EmptySeq
  <1>2. /\ Head(s) \in Message /\ Tail(s) \in Seq(Message) /\ Len(Tail(s)) = Len(s) - 1
        /\ \A i \in 1 .. Len(Tail(s)) : Tail(s)[i] = s[i + 1]
      BY HeadTailProperties
  <1>3. DOMAIN Tail(s) = 1 .. Len(s) - 1
      BY <1>2, LenProperties
  <1>4. In(Tail(s)) \subseteq In(s)
      BY <1>1, <1>2, <1>3 DEF In
  <1>5. \A i \in 2 .. Len(s) : i - 1 \in DOMAIN Tail(s) /\ Tail(s)[i - 1] = s[i]
      BY <1>1, <1>2, <1>3
  <1>6. In(s) \subseteq In(Tail(s)) \cup {Head(s)}
    <2>1. ASSUME NEW i \in 1 .. Len(s) PROVE s[i] \in In(Tail(s)) \cup {Head(s)}
      <3>1. CASE i = 1
          BY <1>1, <3>1
      <3>2. CASE i \in 2 .. Len(s)
          BY <1>5, <3>2 DEF In
      <3> QED BY <1>1, <3>1, <3>2
    <2> QED BY <1>1, <2>1 DEF In
  <1>7. Head(s) \in In(s)
      BY <1>1 DEF In
  <1>8. Len(Tail(s)) <= Len(s)
      BY <1>1, <1>2
  <1> QED BY <1>2, <1>4, <1>6, <1>7, <1>8

\* try_send to some connections: nothing is lost from a channel, only the new
\* message can join, and it joins every channel that takes it.
LEMMA SendAll ==
  ASSUME Typed, Fits, NEW cs, NEW x \in Message, TrySendAll(cs, x)
  PROVE  /\ chan' \in [Conn -> Seq(Message)] /\ Fits'
         /\ \A c \in Conn : In(chan[c]) \subseteq In(chan'[c])
         /\ \A c \in Conn : In(chan'[c]) \subseteq In(chan[c]) \cup {x}
         /\ \A c \in cs \cap Conn : Takes(c) => x \in In(chan'[c])
  <1>1. ASSUME NEW c \in Conn
        PROVE  /\ After(c, x) \in Seq(Message) /\ Len(After(c, x)) <= Capacity
               /\ In(chan[c]) \subseteq In(After(c, x))
               /\ In(After(c, x)) \subseteq In(chan[c]) \cup {x}
               /\ Takes(c) => x \in In(After(c, x))
    <2>1. chan[c] \in Seq(Message) /\ Len(chan[c]) \in Nat /\ Capacity \in Nat
        BY LenProperties, HubAssumption DEF Typed
    <2>2. CASE Takes(c)
      <3>1. After(c, x) = Append(chan[c], x)
          BY <2>2 DEF After
      <3>2. After(c, x) \in Seq(Message) /\ Len(After(c, x)) = Len(chan[c]) + 1
          BY <2>1, <3>1, AppendProperties
      <3>3. In(After(c, x)) = In(chan[c]) \cup {x}
          BY <2>1, <3>1, AppendIn
      <3> QED BY <2>1, <2>2, <3>2, <3>3 DEF Takes
    <2>3. CASE ~Takes(c)
        BY <2>1, <2>3 DEF After, Fits
    <2> QED BY <2>2, <2>3
  <1>2. \A c \in Conn : chan'[c] = IF c \in cs THEN After(c, x) ELSE chan[c]
      BY DEF TrySendAll
  <1>3. chan' \in [Conn -> Seq(Message)]
      BY <1>1 DEF TrySendAll, Typed
  <1>4. Fits'
      BY <1>1, <1>2 DEF Fits
  <1> QED BY <1>1, <1>2, <1>3, <1>4

LEMMA SendOne ==
  ASSUME Typed, NEW c \in Conn, NEW x, TrySend(c, x)
  PROVE  TrySendAll({c}, x)
  BY DEF Typed, TrySend, TrySendAll

LEMMA GreetingType ==
  ASSUME Typed, NEW c \in Conn
  PROVE  /\ Greeting(c) \in Seq(Message)
         /\ \A x \in In(Greeting(c)) : x = List(c) \/ (x.of = {} /\ x.ver = 0)
         /\ c \in Browser => List(c) \in In(Greeting(c))
  <1>1. Item("ack") \in Message /\ Item("frame") \in Message
      BY ItemType DEF Kinds
  <1>2. job[c] \in Job
      BY DEF Typed
  <1>3. List(c) \in Message
      BY <1>2 DEF List, Message, Kinds, Job
  <1>4. CASE c \in Browser
    <2>1. Greeting(c) = <<Item("ack"), List(c)>>
        BY <1>4 DEF Greeting
    <2>2. In(Greeting(c)) = {Item("ack"), List(c)}
        BY <2>1 DEF In
    <2>3. Greeting(c) \in Seq(Message)
        BY <1>1, <1>3, <2>1
    <2>4. \A x \in {Item("ack")} : x.of = {} /\ x.ver = 0
        BY DEF Item
    <2> QED BY <2>2, <2>3, <2>4
  <1>5. CASE c \notin Browser
    <2> DEFINE k == job[c].replay
               frames == [i \in 1 .. k |-> Item("frame")]
    <2>1. Greeting(c) = <<Item("ack")>> \o frames
        BY <1>5 DEF Greeting
    <2>2. k \in Nat
        BY <1>2 DEF Job
    <2>3. frames \in Seq(Message)
        BY <1>1, <2>2
    <2>4. <<Item("ack")>> \in Seq(Message)
        BY <1>1
    <2>5. In(<<Item("ack")>>) = {Item("ack")}
        BY DEF In
    <2>6. In(frames) \subseteq {Item("frame")}
        BY DEF In
    <2>7. Greeting(c) \in Seq(Message)
        BY <2>1, <2>3, <2>4, ConcatProperties
    <2>8. In(Greeting(c)) = In(<<Item("ack")>>) \cup In(frames)
        BY <2>1, <2>3, <2>4, ConcatIn
    <2> HIDE DEF frames
    <2> QED BY <1>5, <2>5, <2>6, <2>7, <2>8 DEF Item
  <1> QED BY <1>4, <1>5

\* A connection greets its own channel: what others put there before stays.
LEMMA GreetChannel ==
  ASSUME Typed, Fits, NEW c \in Conn, Greet(c)
  PROVE  /\ chan' \in [Conn -> Seq(Message)] /\ Fits'
         /\ \A d \in Conn : In(chan[d]) \subseteq In(chan'[d])
         /\ \A d \in Conn : In(chan'[d]) \subseteq In(chan[d]) \cup In(Greeting(c))
         /\ c \in Browser => List(c) \in In(chan'[c])
  <1>1. chan[c] \in Seq(Message) /\ Greeting(c) \in Seq(Message)
      BY GreetingType DEF Typed
  <1>2. /\ chan[c] \o Greeting(c) \in Seq(Message)
        /\ Len(chan[c] \o Greeting(c)) = Len(chan[c]) + Len(Greeting(c))
      BY <1>1, ConcatProperties
  <1>3. In(chan[c] \o Greeting(c)) = In(chan[c]) \cup In(Greeting(c))
      BY <1>1, ConcatIn
  <1>4. chan' = [chan EXCEPT ![c] = chan[c] \o Greeting(c)] /\ Len(chan[c]) + Len(Greeting(c)) <= Capacity
      BY DEF Greet
  <1>5. chan' \in [Conn -> Seq(Message)]
      BY <1>2, <1>4 DEF Typed
  <1>6. Fits'
      BY <1>2, <1>4 DEF Typed, Fits
  <1>7. chan'[c] = chan[c] \o Greeting(c) /\ \A d \in Conn : d # c => chan'[d] = chan[d]
      BY <1>4 DEF Typed
  <1> QED BY <1>3, <1>5, <1>6, <1>7, GreetingType

\* A message that is received leaves the channel, which is emptied when the
\* connection ends.
LEMMA ReceiveChannel ==
  ASSUME Typed, Fits, NEW c \in Conn, Receive(c)
  PROVE  /\ chan' \in [Conn -> Seq(Message)] /\ Fits'
         /\ \A d \in Conn : In(chan'[d]) \subseteq In(chan[d])
         /\ \A d \in Conn : d # c => chan'[d] = chan[d]
         /\ Head(chan[c]) \in In(chan[c]) /\ Head(chan[c]) \in Message
         /\ \/ step' = [step EXCEPT ![c] = "leaving"]
            \/ /\ step' = step /\ Head(chan[c]).kind # "close"
               /\ In(chan[c]) \subseteq In(chan'[c]) \cup {Head(chan[c])}
  <1>1. chan[c] \in Seq(Message) /\ chan[c] # <<>>
      BY DEF Typed, Receive
  <1>2. /\ In(Tail(chan[c])) \subseteq In(chan[c])
        /\ In(chan[c]) \subseteq In(Tail(chan[c])) \cup {Head(chan[c])}
        /\ Head(chan[c]) \in In(chan[c]) /\ Head(chan[c]) \in Message
        /\ Tail(chan[c]) \in Seq(Message) /\ Len(Tail(chan[c])) <= Len(chan[c])
      BY <1>1, TailIn
  <1>3. /\ In(<<>>) = {} /\ <<>> \in Seq(Message) /\ Len(<<>>) = 0
      BY EmptySeq DEF In
  <1>4. \/ chan' = [chan EXCEPT ![c] = <<>>] /\ step' = [step EXCEPT ![c] = "leaving"]
        \/ chan' = [chan EXCEPT ![c] = Tail(chan[c])] /\ step' = step /\ Head(chan[c]).kind # "close"
      BY DEF Receive
  <1>5. Capacity \in Nat /\ Len(chan[c]) \in Nat /\ Len(Tail(chan[c])) \in Nat
      BY <1>1, <1>2, LenProperties, HubAssumption
  <1>6. chan' \in [Conn -> Seq(Message)] /\ \A d \in Conn : d # c => chan'[d] = chan[d]
      BY <1>2, <1>3, <1>4 DEF Typed
  <1>7. chan'[c] = <<>> \/ chan'[c] = Tail(chan[c])
      BY <1>4 DEF Typed
  <1>8. Fits'
    <2>1. Len(chan'[c]) <= Capacity
      <3>1. Len(chan[c]) <= Capacity
          BY DEF Fits
      <3>2. CASE chan'[c] = <<>>
          BY <1>3, <1>5, <3>2
      <3>3. CASE chan'[c] = Tail(chan[c])
        <4>1. Len(Tail(chan[c])) <= Capacity
            BY <1>2, <1>5, <3>1
        <4> QED BY <3>3, <4>1
      <3> QED BY <1>7, <3>2, <3>3
    <2> QED BY <1>6, <2>1 DEF Fits
  <1>9. \A d \in Conn : In(chan'[d]) \subseteq In(chan[d])
      BY <1>2, <1>3, <1>6, <1>7
  <1>10. CASE step' = [step EXCEPT ![c] = "leaving"]
      BY <1>2, <1>6, <1>8, <1>9, <1>10
  <1>11. CASE chan' = [chan EXCEPT ![c] = Tail(chan[c])] /\ step' = step /\ Head(chan[c]).kind # "close"
    <2>1. chan'[c] = Tail(chan[c])
        BY <1>11 DEF Typed
    <2> QED BY <1>2, <1>6, <1>8, <1>9, <1>11, <2>1
  <1> QED BY <1>4, <1>10, <1>11

-----------------------------------------------------------------------------
(* Types *)

\* The steps in which a connection is in the table.
InTable == {"bind", "closing", "greet", "loop", "leaving"}
Places ==
    /\ \A m \in Machine : slot[m] # Nobody => step[slot[m]] \in {"closing", "greet", "announce", "loop", "leaving"}
    /\ \A m, k \in Machine : slot[m] = slot[k] /\ slot[m] # Nobody => m = k
    /\ browsers = {b \in Browser : step[b] \in InTable}
    /\ \A g \in Gateway : step[g] \notin {"authed", "bind"}
    /\ \A b \in Browser : step[b] \notin {"announce", "farewell"}
    /\ bound \subseteq {b \in Browser : step[b] \in {"closing", "greet", "loop", "leaving"}}
    /\ revoked \subseteq Session

Base == Typed /\ Fits /\ Places

LEMMA BaseInit == Init => Base
  <1> SUFFICES ASSUME Init PROVE Base
      OBVIOUS
  <1>1. Item("list") \in Message /\ Idle \in Job
      BY ItemType DEF Kinds, Idle, Job
  <1>2. Typed
      BY <1>1, EmptySeq DEF Init, Typed, Steps
  <1>3. Fits
      BY HubAssumption, EmptySeq DEF Init, Fits
  <1>4. Places
      BY HubAssumption DEF Init, Places, InTable
  <1> QED BY <1>2, <1>3, <1>4 DEF Base

\* A browser that moves on disturbs no slot.
LEMMA BrowserMoves ==
  ASSUME Base, NEW b \in Browser, NEW where \in Steps \ {"announce", "farewell"},
         step' = [step EXCEPT ![b] = where], UNCHANGED slot, revoked' \subseteq Session,
         browsers' = IF where \in InTable THEN browsers \cup {b} ELSE browsers \ {b},
         bound' \subseteq bound \cup {b},
         b \in bound' => where \in {"closing", "greet", "loop", "leaving"}
  PROVE  Places'
  <1>1. Gateway \cap Browser = {} /\ Nobody \notin Gateway
      BY HubAssumption
  <1>2. \A c \in Conn : step'[c] = IF c = b THEN where ELSE step[c]
      BY DEF Base, Typed
  <1>3. \A m \in Machine : slot[m] # Nobody => slot[m] \in Gateway
      BY DEF Base, Typed
  <1>4. \A m \in Machine : slot'[m] # Nobody => step'[slot'[m]] \in {"closing", "greet", "announce", "loop", "leaving"}
      BY <1>1, <1>2, <1>3 DEF Base, Places
  <1>5. \A g \in Gateway : step'[g] \notin {"authed", "bind"}
      BY <1>1, <1>2 DEF Base, Places
  <1>6. \A c \in Browser : step'[c] \notin {"announce", "farewell"}
      BY <1>2 DEF Base, Places
  <1>7. browsers' = {c \in Browser : step'[c] \in InTable}
      BY <1>2 DEF Base, Places
  <1>8. bound' \subseteq {c \in Browser : step'[c] \in {"closing", "greet", "loop", "leaving"}}
      BY <1>2 DEF Base, Places
  <1>9. \A m, k \in Machine : slot'[m] = slot'[k] /\ slot'[m] # Nobody => m = k
      BY DEF Base, Places
  <1> QED BY <1>4, <1>5, <1>6, <1>7, <1>8, <1>9 DEF Places

LEMMA BaseStep == Base /\ [Next]_vars => Base'
  <1> SUFFICES ASSUME Base, [Next]_vars PROVE Base'
      OBVIOUS
  <1> USE DEF Base
  <1>k. Item("frame") \in Message /\ Item("close") \in Message /\ Item("list") \in Message /\ Idle \in Job
      BY ItemType DEF Kinds, Idle, Job
  <1>0. Nobody \notin Gateway /\ Capacity \in Nat /\ Gateway \cap Browser = {}
      BY HubAssumption
  <1>1. ASSUME NEW c \in Conn, Greet(c) PROVE Base'
    <2>1. chan' \in [Conn -> Seq(Message)] /\ Fits'
        BY <1>1, GreetChannel
    <2>2. [job[c] EXCEPT !.replay = 0] \in Job
      <3>1. job[c] \in Job
          BY DEF Typed
      <3> QED BY <3>1 DEF Job
    <2>3. job' \in [Conn -> Job]
        BY <1>1, <1>k, <2>2 DEF Greet, Typed
    <2>4. Typed'
        BY <1>1, <2>1, <2>3 DEF Greet, Goto, Typed, Steps
    <2>5. Places'
      <3>1. step[c] = "greet" /\ UNCHANGED <<slot, browsers, bound, revoked>>
          BY <1>1 DEF Greet
      <3>2. CASE c \in Browser /\ step' = [step EXCEPT ![c] = "loop"]
          BY <1>0, <3>1, <3>2 DEF Typed, Places, InTable
      <3>3. CASE c \notin Browser /\ step' = [step EXCEPT ![c] = "announce"]
          BY <1>0, <3>1, <3>3 DEF Typed, Places, InTable
      <3> QED BY <1>1, <3>2, <3>3 DEF Greet, Goto
    <2> QED BY <2>1, <2>4, <2>5
  <1>2. ASSUME NEW c \in Conn, Receive(c) PROVE Base'
    <2>1. /\ chan' \in [Conn -> Seq(Message)] /\ Fits' /\ Head(chan[c]) \in Message
          /\ step' = [step EXCEPT ![c] = "leaving"] \/ step' = step
        BY <1>2, ReceiveChannel
    <2>2. Head(chan[c]).ver \in Nat
        BY <2>1 DEF Message
    <2>3. shown' \in [Browser -> Message] /\ newest' \in [Browser -> Nat]
        BY <1>2, <2>1, <2>2 DEF Receive, Reaches, Typed
    <2>4. Typed'
        BY <1>2, <2>1, <2>3 DEF Receive, Typed, Steps
    <2>5. Places'
        BY <1>0, <1>2, <2>1 DEF Receive, Typed, Places, InTable
    <2> QED BY <2>1, <2>4, <2>5
  <1>3. ASSUME NEW c \in Conn, Leave(c) PROVE Base'
    <2>1. chan' \in [Conn -> Seq(Message)] /\ Fits'
        BY <1>0, <1>3, EmptySeq DEF Leave, Typed, Fits
    <2>2. Typed'
        BY <1>3, <2>1 DEF Leave, Goto, Typed, Steps
    <2>3. Places'
        BY <1>0, <1>3 DEF Leave, Goto, Typed, Places, InTable
    <2> QED BY <2>1, <2>2, <2>3
  <1>4. ASSUME NEW g \in Gateway, Announce(g) PROVE Base'
    <2>1. CASE job[g].to = {} /\ job' = [job EXCEPT ![g] = Idle] /\ UNCHANGED <<chan, newest>>
               /\ Goto(g, IF step[g] = "announce" THEN "loop" ELSE "gone")
      <3>1. Typed' /\ Fits'
          BY <1>4, <1>k, <2>1 DEF Announce, Goto, Typed, Fits, Steps
      <3>2. Places'
          BY <1>0, <1>4, <2>1 DEF Announce, Goto, Typed, Places, InTable
      <3> QED BY <3>1, <3>2
    <2>2. ASSUME NEW b \in job[g].to, TrySend(b, List(g)),
                 job' = [job EXCEPT ![g].to = job[g].to \ {b}], UNCHANGED step,
                 IF Len(chan[b]) = Capacity THEN Reaches(b, job[g].ver) ELSE UNCHANGED newest
          PROVE  Base'
      <3>1. job[g] \in Job /\ b \in Browser
          BY <2>2 DEF Typed, Job
      <3>2. List(g) \in Message
          BY <3>1 DEF List, Message, Kinds, Job
      <3>3. chan' \in [Conn -> Seq(Message)] /\ Fits'
          BY <2>2, <3>1, <3>2, SendOne, SendAll
      <3>4. [job[g] EXCEPT !.to = job[g].to \ {b}] \in Job
          BY <3>1 DEF Job
      <3>5. job' \in [Conn -> Job]
          BY <2>2, <3>4 DEF Typed
      <3>6. newest' \in [Browser -> Nat]
          BY <2>2, <3>1 DEF Reaches, Typed, Job
      <3>7. Typed'
          BY <1>4, <2>2, <3>3, <3>5, <3>6 DEF Announce, Typed
      <3>8. Places'
          BY <1>4, <2>2 DEF Announce, Places
      <3> QED BY <3>3, <3>7, <3>8
    <2> QED BY <1>4, <2>1, <2>2 DEF Announce
  <1>5. ASSUME NEW g \in Gateway, ReleaseGateway(g) PROVE Base'
    <2>1. Fits'
        BY <1>5 DEF ReleaseGateway, Fits
    <2>2. ASSUME NEW m \in Machine, slot[m] = g, slot' = [slot EXCEPT ![m] = Nobody], ver' = ver + 1,
                 job' = [job EXCEPT ![g] = [close |-> {}, of |-> Online \ {m}, ver |-> ver + 1,
                                            to |-> browsers, replay |-> 0]],
                 Goto(g, "farewell")
          PROVE  Base'
      <3>1. [close |-> {}, of |-> Online \ {m}, ver |-> ver + 1, to |-> browsers, replay |-> 0] \in Job
          BY DEF Online, Job, Typed, Places
      <3>2. Typed'
          BY <1>5, <2>2, <3>1 DEF ReleaseGateway, Goto, Typed, Steps
      <3>3. Places'
          BY <1>0, <1>5, <2>2 DEF ReleaseGateway, Goto, Typed, Places, InTable
      <3> QED BY <2>1, <3>2, <3>3
    <2>3. CASE (\A m \in Machine : slot[m] # g) /\ Goto(g, "gone") /\ UNCHANGED <<slot, ver, job>>
      <3>1. Typed'
          BY <1>5, <2>3 DEF ReleaseGateway, Goto, Typed, Steps
      <3>2. Places'
          BY <1>0, <1>5, <2>3 DEF ReleaseGateway, Goto, Typed, Places, InTable
      <3> QED BY <2>1, <3>1, <3>2
    <2> QED BY <1>5, <2>2, <2>3 DEF ReleaseGateway
  <1>6. ASSUME NEW g \in Gateway, NEW m \in Machine, RegisterGateway(g, m) PROVE Base'
    <2>1. CASE Refused(g)
        BY <1>0, <1>6, <2>1 DEF RegisterGateway, Refused, Goto, Typed, Fits, Places, InTable, Steps
    <2>2. CASE /\ Goto(g, "closing")
               /\ slot' = [slot EXCEPT ![m] = g] /\ buf' = 0 /\ ver' = ver + 1
               /\ job' = [job EXCEPT ![g] = [close |-> {slot[m]} \ {Nobody}, of |-> Online \cup {m}, ver |-> ver + 1,
                                             to |-> browsers, replay |-> buf]]
               /\ UNCHANGED <<chan, browsers, store, sent, shown, newest, overrun>>
      <3>1. [close |-> {slot[m]} \ {Nobody}, of |-> Online \cup {m}, ver |-> ver + 1, to |-> browsers, replay |-> buf] \in Job
          BY DEF Online, Job, Typed, Places
      <3>2. Fits'
          BY <2>2 DEF Fits
      <3>3. Typed'
          BY <2>2, <3>1 DEF Goto, Typed, Steps
      <3>4. /\ step[g] = "new" /\ step' = [step EXCEPT ![g] = "closing"]
            /\ \A k \in Machine : slot[k] # g
            /\ slot' = [slot EXCEPT ![m] = g] /\ UNCHANGED <<browsers, bound, revoked>>
          BY <1>0, <1>6, <2>2 DEF RegisterGateway, Goto, Places
      <3>5. \A k \in Machine : slot'[k] = IF k = m THEN g ELSE slot[k]
          BY <3>4 DEF Typed
      <3>6. \A c \in Conn : step'[c] = IF c = g THEN "closing" ELSE step[c]
          BY <3>4 DEF Typed
      <3>7. \A k \in Machine : slot'[k] # Nobody => step'[slot'[k]] \in {"closing", "greet", "announce", "loop", "leaving"}
          BY <3>4, <3>5, <3>6 DEF Typed, Places
      <3>8. \A k, j \in Machine : slot'[k] = slot'[j] /\ slot'[k] # Nobody => k = j
          BY <3>4, <3>5 DEF Places
      <3>9. browsers' = {b \in Browser : step'[b] \in InTable}
          BY <1>0, <3>4, <3>6 DEF Places
      <3>10. Places'
          BY <3>4, <3>6, <3>7, <3>8, <3>9 DEF Places
      <3> QED BY <3>2, <3>3, <3>10
    <2> QED BY <1>6, <2>1, <2>2 DEF RegisterGateway
  <1>7. ASSUME NEW g \in Gateway, NEW session \in Session \cup {Nobody}, Say(g, session) PROVE Base'
    <2>1. chan' \in [Conn -> Seq(Message)] /\ Fits'
        BY <1>k, <1>7, SendAll DEF Say
    <2> QED BY <1>7, <2>1 DEF Say, Typed, Places
  <1>8. ASSUME NEW b \in Browser, Authenticate(b) \/ RegisterBrowser(b) \/ Bind(b) PROVE Base'
    <2>1. CASE Authenticate(b)
        BY <1>0, <2>1 DEF Authenticate, Goto, Typed, Fits, Places, InTable, Steps
    <2>2. CASE RegisterBrowser(b)
      <3>1. Snapshot(b) \in Job
          BY DEF Snapshot, Idle, Online, Job, Typed
      <3>2. Typed' /\ Fits'
          BY <2>2, <3>1 DEF RegisterBrowser, Refused, Goto, Typed, Fits, Steps
      <3>3. /\ UNCHANGED <<slot, bound, revoked>>
            /\ b \notin bound /\ b \notin browsers /\ revoked \subseteq Session
          BY <2>2 DEF RegisterBrowser, Refused, Places, InTable
      <3>4. CASE step' = [step EXCEPT ![b] = "gone"] /\ browsers' = browsers
          BY <3>2, <3>3, <3>4, BrowserMoves DEF InTable, Steps
      <3>5. CASE step' = [step EXCEPT ![b] = "bind"] /\ browsers' = browsers \cup {b}
          BY <3>2, <3>3, <3>5, BrowserMoves DEF InTable, Steps
      <3> QED BY <2>2, <3>2, <3>4, <3>5 DEF RegisterBrowser, Refused, Goto
    <2>3. CASE Bind(b)
      <3>1. Typed' /\ Fits'
          BY <2>3 DEF Bind, Goto, Typed, Fits, Steps
      <3>2. /\ UNCHANGED <<slot, revoked>>
            /\ b \notin bound /\ b \in browsers /\ revoked \subseteq Session
          BY <2>3 DEF Bind, Places, InTable
      <3>3. CASE step' = [step EXCEPT ![b] = "greet"] /\ bound' = bound \cup {b} /\ browsers' = browsers
          BY <3>1, <3>2, <3>3, BrowserMoves DEF InTable, Steps
      <3>4. CASE step' = [step EXCEPT ![b] = "gone"] /\ bound' = bound /\ browsers' = browsers \ {b}
          BY <3>1, <3>2, <3>4, BrowserMoves DEF InTable, Steps
      <3> QED BY <2>3, <3>1, <3>3, <3>4 DEF Bind, Goto
    <2> QED BY <1>8, <2>1, <2>2, <2>3
  <1>9. ASSUME NEW b \in Browser, ReleaseBrowser(b) PROVE Base'
    <2>1. Typed'
        BY <1>k, <1>9 DEF ReleaseBrowser, Goto, Typed, Steps
    <2>2. Places'
        BY <1>0, <1>9 DEF ReleaseBrowser, Goto, Typed, Places, InTable
    <2> QED BY <1>9, <2>1, <2>2 DEF ReleaseBrowser, Fits
  <1>10. ASSUME NEW b \in Browser, NEW machine \in Machine \cup {Nobody}, SendFrame(b, machine) PROVE Base'
    <2>1. chan' \in [Conn -> Seq(Message)] /\ Fits'
        BY <1>k, <1>10, SendAll DEF SendFrame
    <2> QED BY <1>10, <2>1 DEF SendFrame, Typed, Places
  <1>11. ASSUME NEW b \in Browser, NEW session \in Session, Revoke(b, session) PROVE Base'
    <2> DEFINE own == {c \in bound : SessionOf[c] = session}
    <2>1. /\ step[b] = "loop" /\ step' = [step EXCEPT ![b] = "closing"]
          /\ job' = [job EXCEPT ![b].close = own] /\ bound' = bound \ own /\ revoked' = revoked \cup {session}
          /\ UNCHANGED <<chan, table, shown, newest>>
        BY <1>11 DEF Revoke, Goto
    <2>2. own \subseteq Conn /\ job[b] \in Job
        BY DEF Typed, Places
    <2> HIDE DEF own
    <2>3. [job[b] EXCEPT !.close = own] \in Job
        BY <2>2 DEF Job
    <2>4. Typed' /\ Fits'
        BY <2>1, <2>3 DEF Typed, Fits, Steps
    <2>5. b \in browsers /\ revoked' \subseteq Session /\ bound' \subseteq bound
        BY <2>1 DEF Places, InTable
    <2>6. Places'
        BY <2>1, <2>5, BrowserMoves DEF InTable, Steps
    <2> QED BY <2>4, <2>6
  <1>12. CASE UNCHANGED vars
      BY <1>12 DEF vars, Typed, Fits, Places
  <1>13. ASSUME NEW c \in Conn, SendCloses(c) PROVE Base'
    <2>0. step[c] = "closing" /\ UNCHANGED <<table, store, sent, shown, newest>> /\ job[c] \in Job
        BY <1>13 DEF SendCloses, Typed
    <2>1. ASSUME NEW d \in job[c].close, Close(d), job' = [job EXCEPT ![c].close = job[c].close \ {d}],
                 UNCHANGED step
          PROVE  Base'
      <3>1. d \in Conn
          BY <2>0, <2>1 DEF Job
      <3>2. chan' \in [Conn -> Seq(Message)] /\ Fits'
          BY <1>k, <2>1, <3>1, SendOne, SendAll DEF Close
      <3>3. [job[c] EXCEPT !.close = job[c].close \ {d}] \in Job
          BY <2>0 DEF Job
      <3>4. job' \in [Conn -> Job]
          BY <2>1, <3>3 DEF Typed
      <3>5. Typed' /\ Places'
          BY <2>0, <2>1, <3>2, <3>4 DEF Typed, Places
      <3> QED BY <3>2, <3>5
    <2>2. CASE Goto(c, IF c \in Gateway THEN "greet" ELSE "loop") /\ UNCHANGED <<chan, job, overrun>>
      <3>1. Typed' /\ Fits'
          BY <2>0, <2>2 DEF Goto, Typed, Fits, Steps
      <3>2. CASE c \in Gateway
        <4>1. step' = [step EXCEPT ![c] = "greet"]
            BY <2>2, <3>2 DEF Goto
        <4>2. \A d \in Conn : step'[d] = IF d = c THEN "greet" ELSE step[d]
            BY <4>1 DEF Typed
        <4>3. \A b \in Browser : step'[b] = step[b]
            BY <1>0, <3>2, <4>2
        <4>4. \A m \in Machine : slot[m] # Nobody => slot[m] \in Conn
            BY DEF Typed
        <4>5. \A m \in Machine : slot'[m] # Nobody => step'[slot'[m]] \in {"closing", "greet", "announce", "loop", "leaving"}
            BY <2>0, <4>2, <4>4 DEF Places
        <4>6. \A g \in Gateway : step'[g] \notin {"authed", "bind"}
            BY <4>2 DEF Places
        <4>7. Places'
            BY <2>0, <4>3, <4>5, <4>6 DEF Places
        <4> QED BY <3>1, <4>7
      <3>3. CASE c \notin Gateway
        <4>1. step' = [step EXCEPT ![c] = "loop"] /\ c \in Browser
            BY <2>2, <3>3 DEF Goto
        <4>2. c \in browsers
            BY <2>0, <4>1 DEF Places, InTable
        <4>3. /\ UNCHANGED slot /\ revoked' \subseteq Session /\ browsers' = browsers \cup {c}
              /\ bound' \subseteq bound \cup {c}
            BY <2>0, <4>2 DEF Places
        <4>4. "loop" \in Steps \ {"announce", "farewell"} /\ "loop" \in InTable
            BY DEF Steps, InTable
        <4>5. Places'
            BY <4>1, <4>3, <4>4, BrowserMoves
        <4> QED BY <3>1, <4>5
      <3> QED BY <3>1, <3>2, <3>3
    <2> QED BY <1>13, <2>1, <2>2 DEF SendCloses
  <1> QED BY <1>1, <1>2, <1>3, <1>4, <1>5, <1>6, <1>7, <1>8, <1>9, <1>10, <1>11, <1>12, <1>13 DEF Next

\* Only a connection that has others to close holds them.
Closers == \A c \in Conn : job[c].close # {} => step[c] = "closing"

\* Such a connection keeps them until it has sent their closes.
LEMMA CloserStep ==
  Base /\ Closers /\ [Next]_vars =>
    Closers' /\ ((\E c \in Conn : SendCloses(c)) \/ \A c \in Conn : job[c].close \subseteq job'[c].close)
  <1> SUFFICES ASSUME Base, Closers, [Next]_vars
               PROVE  Closers' /\ ((\E c \in Conn : SendCloses(c)) \/ \A c \in Conn : job[c].close \subseteq job'[c].close)
      OBVIOUS
  <1> DEFINE Goal == Closers' /\ ((\E c \in Conn : SendCloses(c)) \/ \A c \in Conn : job[c].close \subseteq job'[c].close)
  <1> USE DEF Base, Closers
  <1>t. step \in [Conn -> Steps] /\ job \in [Conn -> Job] /\ Idle.close = {}
      BY DEF Typed, Idle
  <1>q. ASSUME UNCHANGED <<step, job>> PROVE Goal
      BY <1>q
  <1>s. ASSUME NEW c \in Conn, step[c] # "closing", UNCHANGED job,
               \A d \in Conn : d # c => step'[d] = step[d]
        PROVE  Goal
      BY <1>s
  <1>1. ASSUME NEW c \in Conn, Greet(c) PROVE Goal
    <2>1. step[c] = "greet" /\ \A d \in Conn : d # c => step'[d] = step[d] /\ job'[d] = job[d]
        BY <1>1, <1>t DEF Greet, Goto
    <2>2. [job[c] EXCEPT !.replay = 0].close = job[c].close
        BY <1>t DEF Job
    <2>3. job'[c].close = {}
        BY <1>1, <1>t, <2>1, <2>2 DEF Greet
    <2> QED BY <2>1, <2>3
  <1>2. ASSUME NEW c \in Conn, Receive(c) PROVE Goal
      BY <1>2, <1>t, <1>s DEF Receive
  <1>3. ASSUME NEW c \in Conn, Leave(c) PROVE Goal
      BY <1>3, <1>t, <1>s DEF Leave, Goto
  <1>4. ASSUME NEW g \in Gateway, Announce(g) PROVE Goal
    <2>1. step[g] # "closing" /\ \A d \in Conn : d # g => step'[d] = step[d] /\ job'[d] = job[d]
        BY <1>4, <1>t DEF Announce, Goto
    <2>2. \A to : [job[g] EXCEPT !.to = to].close = job[g].close
        BY <1>t DEF Job
    <2>3. job'[g].close = {}
      <3>1. job' = [job EXCEPT ![g] = Idle] \/ \E b \in job[g].to : job' = [job EXCEPT ![g].to = job[g].to \ {b}]
          BY <1>4 DEF Announce
      <3>2. job[g].close = {}
          BY <2>1
      <3>3. ASSUME NEW b, job' = [job EXCEPT ![g].to = job[g].to \ {b}] PROVE job'[g].close = {}
        <4>1. job'[g] = [job[g] EXCEPT !.to = job[g].to \ {b}]
            BY <1>t, <3>3
        <4> QED BY <2>2, <3>2, <4>1
      <3> QED BY <1>t, <3>1, <3>3
    <2> QED BY <2>1, <2>3
  <1>5. ASSUME NEW g \in Gateway, ReleaseGateway(g) PROVE Goal
    <2>1. step[g] # "closing" /\ \A d \in Conn : d # g => step'[d] = step[d] /\ job'[d] = job[d]
        BY <1>5, <1>t DEF ReleaseGateway, Goto
    <2>2. job'[g].close = {}
        BY <1>5, <1>t, <2>1 DEF ReleaseGateway
    <2> QED BY <2>1, <2>2
  <1>6. ASSUME NEW g \in Gateway, NEW m \in Machine, RegisterGateway(g, m) PROVE Goal
    <2>1. /\ step[g] = "new" /\ \A d \in Conn : d # g => step'[d] = step[d] /\ job'[d] = job[d]
          /\ step'[g] = "closing" \/ job' = job
        BY <1>6, <1>t DEF RegisterGateway, Refused, Goto
    <2> QED BY <2>1
  <1>7. ASSUME NEW g \in Gateway, NEW session \in Session \cup {Nobody}, Say(g, session) PROVE Goal
      BY <1>7, <1>q DEF Say
  <1>8. ASSUME NEW b \in Browser, Authenticate(b) \/ RegisterBrowser(b) \/ Bind(b) PROVE Goal
    <2>1. /\ step[b] # "closing" /\ \A d \in Conn : d # b => step'[d] = step[d] /\ job'[d] = job[d]
          /\ job'[b] = job[b] \/ job'[b] = Snapshot(b)
        BY <1>8, <1>t DEF Authenticate, RegisterBrowser, Refused, Bind, Goto
    <2>2. Snapshot(b).close = {}
        BY DEF Snapshot, Idle
    <2> QED BY <2>1, <2>2
  <1>9. ASSUME NEW b \in Browser, ReleaseBrowser(b) PROVE Goal
      BY <1>9, <1>t, <1>s DEF ReleaseBrowser, Goto
  <1>10. ASSUME NEW b \in Browser, NEW machine \in Machine \cup {Nobody}, SendFrame(b, machine) PROVE Goal
      BY <1>10, <1>q DEF SendFrame
  <1>11. ASSUME NEW b \in Browser, NEW session \in Session, Revoke(b, session) PROVE Goal
    <2>1. /\ step[b] = "loop" /\ step'[b] = "closing"
          /\ \A d \in Conn : d # b => step'[d] = step[d] /\ job'[d] = job[d]
        BY <1>11, <1>t DEF Revoke, Goto
    <2> QED BY <2>1
  <1>12. CASE UNCHANGED vars
      BY <1>12, <1>q DEF vars
  <1>13. ASSUME NEW c \in Conn, SendCloses(c) PROVE Goal
    <2>1. /\ \A d \in Conn : d # c => job'[d] = job[d] /\ step'[d] = step[d]
          /\ step'[c] = "closing" \/ job'[c].close = {}
        BY <1>13, <1>t DEF SendCloses, Goto
    <2> QED BY <1>13, <2>1
  <1> QED BY <1>1, <1>2, <1>3, <1>4, <1>5, <1>6, <1>7, <1>8, <1>9, <1>10, <1>11, <1>12, <1>13 DEF Next

-----------------------------------------------------------------------------
(* Revoked sessions *)

Closing(b) ==
    b \in overrun \/ (\E x \in In(chan[b]) : x.kind = "close") \/ \E c \in Conn : b \in job[c].close

\* A connection that is served is bound to its session, or is being closed.
Revocations ==
    \A b \in Browser : step[b] \in Served =>
        IF SessionOf[b] \in revoked THEN Closing(b) ELSE b \in bound

\* The steps that neither bind nor revoke keep bindings and closes.
LEMMA RevocationsKept ==
  ASSUME Revocations, revoked' = revoked, overrun \subseteq overrun',
         \A c \in Conn : job[c].close \subseteq job'[c].close,
         \A d \in Browser : step'[d] \in Served =>
            /\ step[d] \in Served /\ (d \in bound => d \in bound')
            /\ \A x \in In(chan[d]) : x.kind = "close" => x \in In(chan'[d])
  PROVE  Revocations'
  BY DEF Revocations, Closing

LEMMA RevocationStep == Base /\ Closers /\ Revocations /\ [Next]_vars => Revocations'
  <1> SUFFICES ASSUME Base, Closers, Revocations, [Next]_vars PROVE Revocations'
      OBVIOUS
  <1> USE DEF Base
  <1>k. Item("frame") \in Message /\ Item("close") \in Message
      BY ItemType DEF Kinds
  <1>0. Gateway \cap Browser = {} /\ Capacity \in Nat
      BY HubAssumption
  <1>13. ASSUME NEW c \in Conn, SendCloses(c) PROVE Revocations'
    <2>0. /\ UNCHANGED <<bound, revoked>> /\ \A d \in Conn : d # c => job'[d] = job[d]
          /\ \A d \in Browser : step'[d] \in Served => step[d] \in Served
        BY <1>0, <1>13 DEF SendCloses, Goto, Typed, Served
    <2>1. ASSUME NEW d \in job[c].close, Close(d), job' = [job EXCEPT ![c].close = job[c].close \ {d}],
                 UNCHANGED step
          PROVE  Revocations'
      <3>1. d \in Conn /\ job[c] \in Job
          BY <2>1 DEF Typed, Job
      <3>2. /\ \A e \in Conn : In(chan[e]) \subseteq In(chan'[e])
            /\ Takes(d) => Item("close") \in In(chan'[d])
            /\ overrun \subseteq overrun' /\ (Len(chan[d]) = Capacity => d \in overrun')
          BY <1>k, <2>1, <3>1, SendOne, SendAll DEF Close
      <3>3. job'[c].close = job[c].close \ {d}
          BY <2>1, <3>1 DEF Typed, Job
      <3>4. ASSUME NEW e \in Browser, Closing(e), step[e] \in Served PROVE Closing(e)'
        <4>1. CASE e # d
            BY <2>0, <3>2, <3>3, <3>4, <4>1 DEF Closing
        <4>2. CASE e = d
          <5>1. chan[d] \in Seq(Message) /\ Len(chan[d]) \in Nat /\ Len(chan[d]) <= Capacity
              BY <3>1, LenProperties DEF Typed, Fits
          <5>2. CASE Len(chan[d]) = Capacity
              BY <3>2, <4>2, <5>2 DEF Closing
          <5>3. CASE Len(chan[d]) < Capacity
            <6>1. Takes(d)
                BY <3>4, <4>2, <5>3 DEF Takes, Ended, Served
            <6> QED BY <3>2, <4>2, <6>1 DEF Closing, Item
          <5> QED BY <1>0, <5>1, <5>2, <5>3
        <4> QED BY <4>1, <4>2
      <3> QED BY <2>0, <3>4 DEF Revocations
    <2>2. CASE UNCHANGED <<chan, job, overrun>>
        BY <2>0, <2>2 DEF Revocations, Closing
    <2> QED BY <1>13, <2>1, <2>2 DEF SendCloses
  <1> SUFFICES ASSUME \A c \in Conn : job[c].close \subseteq job'[c].close PROVE Revocations'
      BY <1>13, CloserStep
  <1>1. ASSUME NEW c \in Conn, Greet(c) PROVE Revocations'
    <2>1. \A d \in Conn : In(chan[d]) \subseteq In(chan'[d])
        BY <1>1, GreetChannel
    <2>2. \A d \in Browser : step'[d] \in Served => step[d] \in Served
        BY <1>1 DEF Greet, Goto, Typed, Served
    <2> QED BY <1>1, <2>1, <2>2, RevocationsKept DEF Greet
  <1>2. ASSUME NEW c \in Conn, Receive(c) PROVE Revocations'
    <2>1. /\ \A d \in Conn : d # c => chan'[d] = chan[d]
          /\ \/ step' = [step EXCEPT ![c] = "leaving"]
             \/ /\ step' = step /\ Head(chan[c]).kind # "close"
                /\ In(chan[c]) \subseteq In(chan'[c]) \cup {Head(chan[c])}
        BY <1>2, ReceiveChannel
    <2>2. UNCHANGED <<store, overrun>>
        BY <1>2 DEF Receive
    <2>3. ASSUME NEW d \in Browser, step'[d] \in Served
          PROVE  /\ step[d] \in Served
                 /\ \A x \in In(chan[d]) : x.kind = "close" => x \in In(chan'[d])
        BY <2>1, <2>3 DEF Typed, Served
    <2> QED BY <2>2, <2>3, RevocationsKept
  <1>3. ASSUME NEW c \in Conn, Leave(c) PROVE Revocations'
      BY <1>3, RevocationsKept DEF Leave, Goto, Typed, Served
  <1>4. ASSUME NEW g \in Gateway, Announce(g) PROVE Revocations'
    <2>1. \A d \in Conn : In(chan[d]) \subseteq In(chan'[d])
      <3>1. ASSUME NEW b \in job[g].to, TrySend(b, List(g))
            PROVE  \A d \in Conn : In(chan[d]) \subseteq In(chan'[d])
        <4>1. job[g] \in Job /\ b \in Browser
            BY DEF Typed, Job
        <4>2. List(g) \in Message
            BY <4>1 DEF List, Message, Kinds, Job
        <4> QED BY <3>1, <4>1, <4>2, SendOne, SendAll
      <3> QED BY <1>4, <3>1 DEF Announce
    <2>2. \A d \in Browser : step'[d] = step[d]
        BY <1>0, <1>4 DEF Announce, Goto, Typed
    <2> QED BY <1>4, <2>1, <2>2, RevocationsKept DEF Announce
  <1>5. ASSUME NEW g \in Gateway, ReleaseGateway(g) PROVE Revocations'
    <2>1. \A d \in Browser : step'[d] = step[d]
        BY <1>0, <1>5 DEF ReleaseGateway, Goto, Typed
    <2> QED BY <1>5, <2>1, RevocationsKept DEF ReleaseGateway
  <1>6. ASSUME NEW g \in Gateway, NEW m \in Machine, RegisterGateway(g, m) PROVE Revocations'
    <2>1. \A d \in Browser : step'[d] = step[d]
        BY <1>0, <1>6 DEF RegisterGateway, Refused, Goto, Typed
    <2>2. CASE Refused(g)
        BY <2>1, <2>2, RevocationsKept DEF Refused
    <2>3. CASE UNCHANGED <<store, chan, overrun>>
        BY <2>1, <2>3, RevocationsKept
    <2> QED BY <1>6, <2>2, <2>3 DEF RegisterGateway
  <1>7. ASSUME NEW g \in Gateway, NEW session \in Session \cup {Nobody}, Say(g, session)
        PROVE  Revocations'
    <2>1. \A d \in Conn : In(chan[d]) \subseteq In(chan'[d])
        BY <1>k, <1>7, SendAll DEF Say
    <2> QED BY <1>7, <2>1, RevocationsKept DEF Say
  <1>8. ASSUME NEW b \in Browser, Authenticate(b) \/ RegisterBrowser(b) PROVE Revocations'
    <2>1. \A d \in Browser : step'[d] \in Served => step[d] \in Served
        BY <1>8 DEF Authenticate, RegisterBrowser, Refused, Goto, Typed, Served
    <2> QED BY <1>8, <2>1, RevocationsKept DEF Authenticate, RegisterBrowser, Refused
  <1>9. ASSUME NEW b \in Browser, Bind(b) PROVE Revocations'
    <2>1. CASE Bindable(b) /\ bound' = bound \cup {b} /\ Goto(b, "greet")
        BY <1>9, <2>1 DEF Bind, Bindable, Goto, Typed, Revocations, Closing
    <2>2. CASE Goto(b, "gone") /\ UNCHANGED bound
        BY <1>9, <2>2, RevocationsKept DEF Bind, Goto, Typed, Served
    <2> QED BY <1>9, <2>1, <2>2 DEF Bind
  <1>10. ASSUME NEW b \in Browser, ReleaseBrowser(b) PROVE Revocations'
    <2>1. \A d \in Browser : step'[d] \in Served => step[d] \in Served /\ d # b
        BY <1>10 DEF ReleaseBrowser, Goto, Typed, Served
    <2> QED BY <1>10, <2>1, RevocationsKept DEF ReleaseBrowser
  <1>11. ASSUME NEW b \in Browser, NEW machine \in Machine \cup {Nobody}, SendFrame(b, machine)
         PROVE  Revocations'
    <2>1. \A d \in Conn : In(chan[d]) \subseteq In(chan'[d])
        BY <1>k, <1>11, SendAll DEF SendFrame
    <2> QED BY <1>11, <2>1, RevocationsKept DEF SendFrame
  <1>12. ASSUME NEW b \in Browser, NEW session \in Session, Revoke(b, session) PROVE Revocations'
    <2> DEFINE own == {c \in bound : SessionOf[c] = session}
    <2>1. /\ revoked' = revoked \cup {session} /\ bound' = bound \ own
          /\ job' = [job EXCEPT ![b].close = own] /\ UNCHANGED <<chan, overrun>>
          /\ step[b] = "loop" /\ step' = [step EXCEPT ![b] = "closing"]
        BY <1>12 DEF Revoke, Goto
    <2>2. job[b] \in Job /\ job'[b].close = own
        BY <2>1 DEF Typed, Job
    <2>3. \A c \in Browser : Closing(c) => Closing(c)'
        BY <2>1 DEF Closing
    <2>4. \A c \in own : Closing(c)'
        BY <2>2 DEF Closing
    <2>5. ASSUME NEW c \in Browser, step'[c] \in Served
          PROVE  IF SessionOf[c] \in revoked' THEN Closing(c)' ELSE c \in bound'
      <3>1. step[c] \in Served
          BY <2>1, <2>5 DEF Typed, Served
      <3>2. CASE SessionOf[c] \in revoked
          BY <2>1, <2>3, <3>1, <3>2 DEF Revocations
      <3>3. CASE SessionOf[c] \notin revoked /\ SessionOf[c] = session
        <4>1. c \in own
            BY <3>1, <3>3 DEF Revocations
        <4> QED BY <2>1, <2>4, <3>1, <3>3, <4>1
      <3>4. CASE SessionOf[c] \notin revoked /\ SessionOf[c] # session
          BY <2>1, <3>1, <3>4 DEF Revocations
      <3> QED BY <3>2, <3>3, <3>4
    <2> QED BY <2>5 DEF Revocations
  <1>14. CASE UNCHANGED vars
      BY <1>14 DEF vars, Revocations, Closing
  <1> QED BY <1>1, <1>2, <1>3, <1>4, <1>5, <1>6, <1>7, <1>8, <1>9, <1>10, <1>11, <1>12, <1>13, <1>14 DEF Next

LEMMA RevocationInit == Init => Closers /\ Revocations
  BY DEF Init, Closers, Idle, Revocations, Served

\* Who is in the tables in which step, what a handler has taken from them, and
\* what the channels hold.
THEOREM BaseHolds == Spec => [](Base /\ Closers)
  BY BaseInit, BaseStep, CloserStep, RevocationInit, PTL DEF Spec

\* A served connection of a revoked session has its close on the way, whatever
\* the order of the verification, the binding and the revocation, for any
\* number of connections and sessions; only a full channel excuses.
THEOREM RevokedIsClosedHolds == Spec => []RevokedIsClosed
  <1>1. Revocations => RevokedIsClosed
      BY DEF Revocations, Closing, RevokedIsClosed, In
  <1>2. Init => Revocations
      BY RevocationInit
  <1> QED BY <1>1, <1>2, RevocationStep, BaseHolds, PTL DEF Spec

-----------------------------------------------------------------------------
(* The list of machines *)

\* A list is of the past, or it is the true one.
Sound(x) == x.ver <= ver /\ (x.ver = ver => x.of = Online)

Truthful ==
    /\ ver = 0 => Online = {}
    /\ \A c \in Conn : Sound(job[c]) /\ \A x \in In(chan[c]) : Sound(x)
    /\ \A b \in Browser : Sound(shown[b]) /\ newest[b] <= ver

\* A step that leaves the slots alone and only sends what is sound.
LEMMA TruthKept ==
  ASSUME Truthful, UNCHANGED <<slot, ver>>,
         \A c \in Conn : job'[c] = job[c] \/ Sound(job'[c]),
         \A c \in Conn : \A x \in In(chan'[c]) : x \in In(chan[c]) \/ Sound(x),
         \A b \in Browser : shown'[b] = shown[b] \/ Sound(shown'[b]),
         \A b \in Browser : newest'[b] = newest[b] \/ newest'[b] <= ver
  PROVE  Truthful'
  <1>1. Online' = Online /\ \A x : Sound(x)' = Sound(x)
      BY DEF Online, Sound
  <1>2. /\ \A c \in Conn : Sound(job'[c]) /\ \A x \in In(chan'[c]) : Sound(x)
        /\ \A b \in Browser : Sound(shown'[b]) /\ newest'[b] <= ver
      BY DEF Truthful
  <1> QED BY <1>1, <1>2 DEF Truthful, Sound, Online

\* A step that changes the slots makes every list one of the past, but its own.
LEMMA TruthGrown ==
  ASSUME Base, Truthful, ver' = ver + 1, NEW g \in Conn,
         job'[g].ver = ver + 1, job'[g].of = Online',
         \A c \in Conn : c # g => job'[c] = job[c],
         \A c \in Conn : \A x \in In(chan'[c]) : x \in In(chan[c]) \/ x.ver = 0,
         UNCHANGED <<shown, newest>>
  PROVE  Truthful'
  <1>1. ver \in Nat /\ \A c \in Conn : job[c].ver \in Nat
      BY DEF Base, Typed, Job
  <1>2. \A c \in Conn : \A x \in In(chan[c]) : x.ver \in Nat
    <2>1. ASSUME NEW c \in Conn PROVE \A x \in In(chan[c]) : x \in Message
      <3>1. chan[c] \in Seq(Message)
          BY DEF Base, Typed
      <3>2. chan[c] \in [1 .. Len(chan[c]) -> Message] /\ DOMAIN chan[c] = 1 .. Len(chan[c])
          BY <3>1, LenProperties
      <3> QED BY <3>2 DEF In
    <2> QED BY <2>1 DEF Message
  <1>3. \A b \in Browser : shown[b].ver \in Nat /\ newest[b] \in Nat
      BY DEF Base, Typed, Message
  <1>4. \A c \in Conn : job'[c].ver <= ver' /\ (job'[c].ver = ver' => job'[c].of = Online')
    <2>1. ASSUME NEW c \in Conn, c # g PROVE job'[c].ver < ver'
        BY <1>1, <2>1 DEF Truthful, Sound
    <2> QED BY <1>1, <2>1
  <1>5. \A c \in Conn : \A x \in In(chan'[c]) : x.ver < ver'
      BY <1>1, <1>2 DEF Truthful, Sound
  <1>6. \A c \in Conn : \A x \in In(chan'[c]) : x.ver <= ver' /\ x.ver # ver'
    <2>1. ASSUME NEW c \in Conn, NEW x \in In(chan'[c]) PROVE x.ver <= ver' /\ x.ver # ver'
      <3>1. x.ver \in Nat
          BY <1>2
      <3> QED BY <1>1, <1>5, <3>1
    <2> QED BY <2>1
  <1>7. \A b \in Browser : shown'[b].ver <= ver' /\ shown'[b].ver # ver' /\ newest'[b] <= ver'
      BY <1>1, <1>3 DEF Truthful, Sound
  <1>8. ver' # 0
      BY <1>1
  <1> QED BY <1>4, <1>6, <1>7, <1>8 DEF Truthful, Sound

LEMMA TruthInit == Init => Truthful
  <1> SUFFICES ASSUME Init PROVE Truthful
      OBVIOUS
  <1>1. Online = {} /\ ver = 0
      BY DEF Init, Online
  <1>2. \A c \in Conn : Sound(job[c]) /\ In(chan[c]) = {}
      BY <1>1 DEF Init, Sound, Idle, In
  <1>3. \A b \in Browser : Sound(shown[b]) /\ newest[b] <= ver
      BY <1>1 DEF Init, Sound, Item
  <1> QED BY <1>1, <1>2, <1>3 DEF Truthful

LEMMA TruthStep == Base /\ Truthful /\ [Next]_vars => Truthful'
  <1> SUFFICES ASSUME Base, Truthful, [Next]_vars PROVE Truthful'
      OBVIOUS
  <1> USE DEF Base
  <1>k. Item("frame") \in Message /\ Item("close") \in Message
      BY ItemType DEF Kinds
  <1>0. Gateway \cap Browser = {} /\ Nobody \notin Gateway /\ Capacity \in Nat
      BY HubAssumption
  <1>a. ver \in Nat
      BY DEF Typed
  <1>b. ASSUME NEW x, x.of = {}, x.ver = 0 PROVE Sound(x)
      BY <1>a, <1>b DEF Sound, Truthful
  <1>c. Sound(Idle) /\ \A k \in Kinds : Sound(Item(k))
      BY <1>b DEF Idle, Item
  <1>d. \A c \in Conn : Sound(List(c))
      BY DEF List, Truthful, Sound
  <1>1. ASSUME NEW c \in Conn, Greet(c) PROVE Truthful'
    <2>1. \A d \in Conn : In(chan'[d]) \subseteq In(chan[d]) \cup In(Greeting(c))
        BY <1>1, GreetChannel
    <2>2. \A x \in In(Greeting(c)) : Sound(x)
        BY <1>b, <1>d, GreetingType
    <2>3. Sound([job[c] EXCEPT !.replay = 0])
      <3>1. job[c] \in Job
          BY DEF Typed
      <3>2. [job[c] EXCEPT !.replay = 0].ver = job[c].ver /\ [job[c] EXCEPT !.replay = 0].of = job[c].of
          BY <3>1 DEF Job
      <3> QED BY <3>2 DEF Truthful, Sound
    <2>4. \A d \in Conn : job'[d] = job[d] \/ Sound(job'[d])
        BY <1>1, <1>c, <2>3 DEF Greet, Typed
    <2> QED BY <1>1, <2>1, <2>2, <2>4, TruthKept DEF Greet
  <1>2. ASSUME NEW c \in Conn, Receive(c) PROVE Truthful'
    <2>1. /\ \A d \in Conn : In(chan'[d]) \subseteq In(chan[d])
          /\ Head(chan[c]) \in In(chan[c])
        BY <1>2, ReceiveChannel
    <2>2. Sound(Head(chan[c]))
        BY <2>1 DEF Truthful
    <2>3. \A b \in Browser : shown'[b] = shown[b] \/ Sound(shown'[b])
        BY <1>2, <2>2 DEF Receive, Typed
    <2>4. \A b \in Browser : newest'[b] = newest[b] \/ newest'[b] <= ver
        BY <1>2, <2>2 DEF Receive, Reaches, Typed, Sound
    <2> QED BY <1>2, <2>1, <2>3, <2>4, TruthKept DEF Receive
  <1>3. ASSUME NEW c \in Conn, Leave(c) PROVE Truthful'
    <2>1. \A d \in Conn : In(chan'[d]) \subseteq In(chan[d])
        BY <1>3 DEF Leave, Typed, In
    <2> QED BY <1>3, <2>1, TruthKept DEF Leave
  <1>4. ASSUME NEW g \in Gateway, Announce(g) PROVE Truthful'
    <2>1. CASE job' = [job EXCEPT ![g] = Idle] /\ UNCHANGED <<chan, newest>>
      <3>1. \A c \in Conn : job'[c] = job[c] \/ Sound(job'[c])
          BY <1>c, <2>1 DEF Typed
      <3> QED BY <1>4, <2>1, <3>1, TruthKept DEF Announce
    <2>2. ASSUME NEW b \in job[g].to, TrySend(b, List(g)),
                 job' = [job EXCEPT ![g].to = job[g].to \ {b}],
                 IF Len(chan[b]) = Capacity THEN Reaches(b, job[g].ver) ELSE UNCHANGED newest
          PROVE  Truthful'
      <3>1. job[g] \in Job /\ b \in Browser
          BY <2>2 DEF Typed, Job
      <3>2. List(g) \in Message
          BY <3>1 DEF List, Message, Kinds, Job
      <3>3. \A c \in Conn : In(chan'[c]) \subseteq In(chan[c]) \cup {List(g)}
          BY <2>2, <3>1, <3>2, SendOne, SendAll
      <3>4. \A c \in Conn : job'[c].ver = job[c].ver /\ job'[c].of = job[c].of
          BY <2>2, <3>1 DEF Typed, Job
      <3>5. \A c \in Conn : Sound(job'[c])
          BY <3>4 DEF Truthful, Sound
      <3>6. job[g].ver <= ver
          BY DEF Truthful, Sound
      <3>7. \A c \in Browser : newest'[c] = newest[c] \/ newest'[c] <= ver
          BY <2>2, <3>6 DEF Reaches, Typed
      <3> QED BY <1>4, <1>d, <3>3, <3>5, <3>7, TruthKept DEF Announce
    <2> QED BY <1>4, <2>1, <2>2 DEF Announce
  <1>5. ASSUME NEW g \in Gateway, ReleaseGateway(g) PROVE Truthful'
    <2>1. ASSUME NEW m \in Machine, slot[m] = g, slot' = [slot EXCEPT ![m] = Nobody], ver' = ver + 1,
                 job' = [job EXCEPT ![g] = [close |-> {}, of |-> Online \ {m}, ver |-> ver + 1,
                                            to |-> browsers, replay |-> 0]]
          PROVE  Truthful'
      <3>1. Online' = Online \ {m}
          BY <2>1 DEF Online, Typed
      <3>2. job'[g].ver = ver + 1 /\ job'[g].of = Online' /\ \A c \in Conn : c # g => job'[c] = job[c]
          BY <2>1, <3>1 DEF Typed
      <3>3. UNCHANGED <<chan, shown, newest>>
          BY <1>5 DEF ReleaseGateway
      <3> QED BY <2>1, <3>2, <3>3, TruthGrown
    <2>2. CASE UNCHANGED <<slot, ver, job>>
        BY <1>5, <2>2, TruthKept DEF ReleaseGateway
    <2> QED BY <1>5, <2>1, <2>2 DEF ReleaseGateway
  <1>6. ASSUME NEW g \in Gateway, NEW m \in Machine, RegisterGateway(g, m) PROVE Truthful'
    <2>1. CASE Refused(g)
        BY <2>1, TruthKept DEF Refused
    <2>2. CASE /\ slot' = [slot EXCEPT ![m] = g] /\ ver' = ver + 1
               /\ job' = [job EXCEPT ![g] = [close |-> {slot[m]} \ {Nobody}, of |-> Online \cup {m}, ver |-> ver + 1,
                                             to |-> browsers, replay |-> buf]]
               /\ UNCHANGED <<chan, shown, newest>>
      <3>1. Online' = Online \cup {m}
          BY <1>0, <2>2 DEF Online, Typed
      <3>2. job'[g].ver = ver + 1 /\ job'[g].of = Online' /\ \A c \in Conn : c # g => job'[c] = job[c]
          BY <2>2, <3>1 DEF Typed
      <3> QED BY <2>2, <3>2, TruthGrown
    <2> QED BY <1>6, <2>1, <2>2 DEF RegisterGateway
  <1>7. ASSUME NEW g \in Gateway, NEW session \in Session \cup {Nobody}, Say(g, session)
        PROVE  Truthful'
    <2>1. \A d \in Conn : In(chan'[d]) \subseteq In(chan[d]) \cup {Item("frame")}
        BY <1>k, <1>7, SendAll DEF Say
    <2> QED BY <1>7, <1>c, <2>1, TruthKept DEF Say, Kinds
  <1>8. ASSUME NEW b \in Browser, Authenticate(b) \/ RegisterBrowser(b) \/ Bind(b) PROVE Truthful'
    <2>1. Sound(Snapshot(b))
        BY <1>a DEF Sound, Snapshot, Idle
    <2>2. \A c \in Conn : job'[c] = job[c] \/ Sound(job'[c])
        BY <1>8, <2>1 DEF Authenticate, RegisterBrowser, Refused, Bind, Typed
    <2>3. UNCHANGED <<slot, ver, chan, shown, newest>>
        BY <1>8 DEF Authenticate, RegisterBrowser, Refused, Bind
    <2> QED BY <2>2, <2>3, TruthKept
  <1>9. ASSUME NEW b \in Browser, ReleaseBrowser(b) PROVE Truthful'
    <2>1. \A c \in Browser : shown'[c] = shown[c] \/ Sound(shown'[c])
        BY <1>9, <1>c DEF ReleaseBrowser, Typed, Kinds
    <2>2. \A c \in Browser : newest'[c] = newest[c] \/ newest'[c] <= ver
        BY <1>9, <1>a DEF ReleaseBrowser, Typed
    <2> QED BY <1>9, <2>1, <2>2, TruthKept DEF ReleaseBrowser
  <1>10. ASSUME NEW b \in Browser, NEW machine \in Machine \cup {Nobody}, SendFrame(b, machine)
         PROVE  Truthful'
    <2>1. \A d \in Conn : In(chan'[d]) \subseteq In(chan[d]) \cup {Item("frame")}
        BY <1>k, <1>10, SendAll DEF SendFrame
    <2> QED BY <1>10, <1>c, <2>1, TruthKept DEF SendFrame, Kinds
  <1>11. ASSUME NEW b \in Browser, NEW session \in Session, Revoke(b, session) PROVE Truthful'
    <2>1. UNCHANGED <<slot, ver, chan, shown, newest>>
          /\ \E own : job' = [job EXCEPT ![b].close = own]
        BY <1>11 DEF Revoke
    <2>2. \A c \in Conn : job'[c].ver = job[c].ver /\ job'[c].of = job[c].of
        BY <2>1 DEF Typed, Job
    <2>3. \A c \in Conn : Sound(job'[c])
        BY <2>2 DEF Truthful, Sound
    <2> QED BY <2>1, <2>3, TruthKept
  <1>12. CASE UNCHANGED vars
      BY <1>12, TruthKept DEF vars
  <1>13. ASSUME NEW c \in Conn, SendCloses(c) PROVE Truthful'
    <2>1. UNCHANGED <<slot, ver, shown, newest>> /\ (job' = job \/ \E own : job' = [job EXCEPT ![c].close = own])
        BY <1>13 DEF SendCloses
    <2>2. \A d \in Conn : job'[d].ver = job[d].ver /\ job'[d].of = job[d].of
      <3>1. ASSUME NEW own, job' = [job EXCEPT ![c].close = own]
            PROVE  \A d \in Conn : job'[d].ver = job[d].ver /\ job'[d].of = job[d].of
          BY <3>1 DEF Typed, Job
      <3> QED BY <2>1, <3>1
    <2>3. \A d \in Conn : Sound(job'[d])
        BY <2>2 DEF Truthful, Sound
    <2>4. \A d \in Conn : In(chan'[d]) \subseteq In(chan[d]) \cup {Item("close")}
      <3>1. ASSUME NEW d \in job[c].close, Close(d)
            PROVE  \A e \in Conn : In(chan'[e]) \subseteq In(chan[e]) \cup {Item("close")}
        <4>1. d \in Conn
            BY <3>1 DEF Typed, Job
        <4> QED BY <1>k, <3>1, <4>1, SendOne, SendAll DEF Close
      <3> QED BY <1>13, <3>1 DEF SendCloses
    <2> QED BY <1>c, <2>1, <2>3, <2>4, TruthKept DEF Kinds
  <1> QED BY <1>1, <1>2, <1>3, <1>4, <1>5, <1>6, <1>7, <1>8, <1>9, <1>10, <1>11, <1>12, <1>13 DEF Next

\* A gateway that has changed the slots and not yet told every browser.
Telling == {"closing", "greet", "announce", "farewell"}

\* The newest list reached the browser, or is on its way: in its channel, in
\* its own hands or in those of the gateway that changed the slots.
Told(b) ==
    \/ newest[b] = ver \/ step[b] = "leaving"
    \/ \E x \in In(chan[b]) : x.kind = "list" /\ x.ver = ver
    \/ step[b] \in {"bind", "greet"} /\ job[b].ver = ver
    \/ \E g \in Gateway : step[g] \in Telling /\ b \in job[g].to /\ job[g].ver = ver

Delivered == \A b \in browsers : Told(b)

LEMMA ToldKept ==
  ASSUME NEW d \in Browser, Told(d), ver' = ver, newest'[d] = newest[d],
         \/ step'[d] \in {step[d], "leaving"}
         \/ step[d] = "bind" /\ step'[d] = "greet"
         \/ step[d] \in {"loop", "closing"},
         job'[d].ver = job[d].ver,
         step'[d] = "leaving" \/ In(chan[d]) \subseteq In(chan'[d]),
         \A g \in Gateway : step[g] \in Telling /\ d \in job[g].to =>
            step'[g] \in Telling /\ d \in job'[g].to /\ job'[g].ver = job[g].ver
  PROVE  Told(d)'
  <1>1. CASE step'[d] = "leaving"
      BY <1>1 DEF Told
  <1>2. CASE newest[d] = ver
      BY <1>2 DEF Told
  <1>3. CASE step[d] \in {"bind", "greet"} /\ job[d].ver = ver
      BY <1>1, <1>3 DEF Told
  <1>4. ASSUME NEW x \in In(chan[d]), x.kind = "list", x.ver = ver PROVE Told(d)'
      BY <1>1, <1>4 DEF Told
  <1>5. ASSUME NEW g \in Gateway, step[g] \in Telling, d \in job[g].to, job[g].ver = ver PROVE Told(d)'
      BY <1>5 DEF Told
  <1>6. CASE step[d] = "leaving"
      BY <1>1, <1>6
  <1> QED BY <1>2, <1>3, <1>4, <1>5, <1>6 DEF Told

LEMMA DeliveredStep == Base /\ Truthful /\ Delivered /\ [Next]_vars => Delivered'
  <1> SUFFICES ASSUME Base, Truthful, Delivered, [Next]_vars PROVE Delivered'
      OBVIOUS
  <1> USE DEF Base
  <1>k. Item("frame") \in Message /\ Item("close") \in Message
      BY ItemType DEF Kinds
  <1>0. Gateway \cap Browser = {} /\ Capacity \in Nat
      BY HubAssumption
  <1>a. browsers \subseteq Browser /\ ver \in Nat
      BY DEF Places, Typed
  \* The steps that only put something into channels, or nothing at all.
  <1>b. ASSUME UNCHANGED <<step, job, ver, newest, browsers>>,
               \A d \in Conn : In(chan[d]) \subseteq In(chan'[d])
        PROVE  Delivered'
      BY <1>a, <1>b, ToldKept DEF Delivered
  <1>1. ASSUME NEW c \in Conn, Greet(c) PROVE Delivered'
    <2>1. /\ \A d \in Conn : In(chan[d]) \subseteq In(chan'[d])
          /\ c \in Browser => List(c) \in In(chan'[c])
        BY <1>1, GreetChannel
    <2>2. UNCHANGED <<ver, newest, browsers>> /\ step[c] = "greet"
        BY <1>1 DEF Greet
    <2>3. \A d \in Conn : d # c => step'[d] = step[d] /\ job'[d] = job[d]
        BY <1>1 DEF Greet, Goto, Typed
    <2>4. c \notin Browser => step'[c] = "announce" /\ job'[c].to = job[c].to /\ job'[c].ver = job[c].ver
      <3>1. job[c] \in Job
          BY DEF Typed
      <3> QED BY <1>1, <3>1 DEF Greet, Goto, Typed, Job
    <2>5. ASSUME NEW d \in browsers, d # c PROVE Told(d)'
        BY <1>0, <1>a, <2>1, <2>2, <2>3, <2>4, <2>5, ToldKept DEF Delivered, Telling
    <2>6. ASSUME c \in browsers PROVE Told(c)'
      <3>1. CASE job[c].ver = ver
        <4>1. List(c).kind = "list" /\ List(c).ver = ver'
            BY <2>2, <3>1 DEF List
        <4> QED BY <1>a, <2>1, <2>6, <4>1 DEF Told
      <3>2. CASE job[c].ver # ver
        <4>1. \A g \in Gateway : step'[g] = step[g] /\ job'[g] = job[g]
            BY <1>0, <1>a, <2>3, <2>6
        <4>2. newest'[c] = newest[c] /\ In(chan[c]) \subseteq In(chan'[c])
            BY <2>1, <2>2
        <4>3. \/ newest[c] = ver
              \/ \E x \in In(chan[c]) : x.kind = "list" /\ x.ver = ver
              \/ \E g \in Gateway : step[g] \in Telling /\ c \in job[g].to /\ job[g].ver = ver
            BY <2>2, <2>6, <3>2 DEF Delivered, Told
        <4> QED BY <2>2, <4>1, <4>2, <4>3 DEF Told
      <3> QED BY <3>1, <3>2
    <2> QED BY <2>2, <2>5, <2>6 DEF Delivered
  <1>2. ASSUME NEW c \in Conn, Receive(c) PROVE Delivered'
    <2> DEFINE item == Head(chan[c])
    <2>1. /\ \A d \in Conn : d # c => chan'[d] = chan[d]
          /\ item \in In(chan[c]) /\ item \in Message
          /\ \/ step' = [step EXCEPT ![c] = "leaving"]
             \/ step' = step /\ In(chan[c]) \subseteq In(chan'[c]) \cup {item}
        BY <1>2, ReceiveChannel
    <2>2. UNCHANGED <<ver, browsers, job>> /\ step[c] = "loop"
        BY <1>2 DEF Receive
    <2>3. /\ item.ver \in Nat /\ item.ver <= ver
          /\ \A b \in Browser : newest[b] \in Nat /\ newest[b] <= ver
        BY <2>1 DEF Truthful, Sound, Message, Typed
    <2>4. /\ \A d \in Conn : d # c => step'[d] = step[d]
          /\ \A d \in Browser : d # c => newest'[d] = newest[d]
        BY <1>2, <2>1 DEF Receive, Reaches, Typed
    <2>5. c \in Gateway => step'[c] \in {"loop", "leaving"} /\ step[c] \notin Telling
        BY <2>1, <2>2 DEF Typed, Telling
    <2>6. ASSUME NEW d \in browsers, d # c PROVE Told(d)'
      <3>1. d \in Browser /\ Told(d)
          BY <1>a DEF Delivered
      <3>2. \A g \in Gateway : step[g] \in Telling => step'[g] = step[g]
          BY <2>4, <2>5
      <3> QED BY <2>1, <2>2, <2>4, <2>6, <3>1, <3>2, ToldKept
    <2>7. ASSUME c \in browsers PROVE Told(c)'
      <3>1. CASE step'[c] = "leaving"
          BY <3>1 DEF Told
      <3>2. CASE step' = step /\ In(chan[c]) \subseteq In(chan'[c]) \cup {item}
        <4>1. newest'[c] = IF item.kind = "list" THEN (IF newest[c] < item.ver THEN item.ver ELSE newest[c])
                           ELSE newest[c]
            BY <1>2, <1>a, <2>7 DEF Receive, Reaches, Typed
        <4>2. CASE newest'[c] = ver
            BY <2>2, <4>2 DEF Told
        <4>3. CASE newest'[c] # ver
          <5>1. ~(item.kind = "list" /\ item.ver = ver)
              BY <1>a, <2>3, <2>7, <4>1, <4>3
          <5>2. newest[c] # ver
              BY <1>a, <2>3, <2>7, <4>1, <4>3
          <5>3. \/ \E x \in In(chan[c]) : x.kind = "list" /\ x.ver = ver
                \/ \E g \in Gateway : step[g] \in Telling /\ c \in job[g].to /\ job[g].ver = ver
              BY <2>2, <2>7, <5>2 DEF Delivered, Told
          <5> QED BY <2>2, <3>2, <5>1, <5>3 DEF Told
        <4> QED BY <4>2, <4>3
      <3> QED BY <2>1, <3>1, <3>2 DEF Typed
    <2> QED BY <2>2, <2>6, <2>7 DEF Delivered
  <1>3. ASSUME NEW c \in Conn, Leave(c) PROVE Delivered'
    <2>1. /\ step' = [step EXCEPT ![c] = "leaving"] /\ step[c] = "loop"
          /\ chan' = [chan EXCEPT ![c] = <<>>] /\ UNCHANGED <<job, ver, newest, browsers>>
        BY <1>3 DEF Leave, Goto
    <2>2. \A d \in Conn : IF d = c THEN step'[d] = "leaving" ELSE step'[d] = step[d] /\ chan'[d] = chan[d]
        BY <2>1 DEF Typed
    <2>3. \A g \in Gateway : step[g] \in Telling => step'[g] = step[g]
        BY <2>1, <2>2 DEF Telling
    <2>4. ASSUME NEW d \in browsers PROVE Told(d)'
      <3>1. d \in Browser /\ Told(d)
          BY <1>a DEF Delivered
      <3> QED BY <2>1, <2>2, <2>3, <3>1, ToldKept
    <2> QED BY <2>1, <2>4 DEF Delivered
  <1>4. ASSUME NEW g \in Gateway, Announce(g) PROVE Delivered'
    <2>1. CASE /\ job[g].to = {} /\ job' = [job EXCEPT ![g] = Idle] /\ UNCHANGED <<chan, newest>>
               /\ Goto(g, IF step[g] = "announce" THEN "loop" ELSE "gone")
      <3>1. \A c \in Conn : c # g => step'[c] = step[c] /\ job'[c] = job[c]
          BY <2>1 DEF Goto, Typed
      <3>2. UNCHANGED <<ver, browsers>>
          BY <1>4 DEF Announce
      <3>3. ASSUME NEW d \in browsers PROVE Told(d)'
        <4>1. d \in Browser /\ Told(d) /\ d # g
            BY <1>0, <1>a DEF Delivered
        <4> QED BY <2>1, <3>1, <3>2, <4>1, ToldKept
      <3> QED BY <3>2, <3>3 DEF Delivered
    <2>2. ASSUME NEW b \in job[g].to, TrySend(b, List(g)),
                 job' = [job EXCEPT ![g].to = job[g].to \ {b}], UNCHANGED step,
                 IF Len(chan[b]) = Capacity THEN Reaches(b, job[g].ver) ELSE UNCHANGED newest
          PROVE  Delivered'
      <3>1. job[g] \in Job /\ b \in Browser
          BY <2>2 DEF Typed, Job
      <3>2. List(g) \in Message /\ List(g).kind = "list" /\ List(g).ver = job[g].ver
          BY <3>1 DEF List, Message, Kinds, Job
      <3>3. /\ \A c \in Conn : In(chan[c]) \subseteq In(chan'[c])
            /\ Takes(b) => List(g) \in In(chan'[b])
          BY <2>2, <3>1, <3>2, SendOne, SendAll
      <3>4. \A c \in Conn : c # g => job'[c] = job[c]
          BY <2>2 DEF Typed
      <3>5. job'[g].to = job[g].to \ {b} /\ job'[g].ver = job[g].ver
          BY <2>2, <3>1 DEF Typed, Job
      <3>6. UNCHANGED <<ver, browsers>>
          BY <1>4 DEF Announce
      <3>7. /\ job[g].ver \in Nat /\ job[g].ver <= ver
            /\ \A c \in Browser : newest[c] \in Nat /\ newest[c] <= ver
          BY <3>1 DEF Truthful, Sound, Job, Typed
      <3>8. \A c \in Browser : c # b => newest'[c] = newest[c]
          BY <2>2 DEF Reaches, Typed
      <3>9. newest'[b] = newest[b] \/ (newest'[b] = job[g].ver /\ newest[b] < job[g].ver)
          BY <2>2, <3>1 DEF Reaches, Typed
      <3>10. ASSUME NEW d \in browsers, d # b PROVE Told(d)'
        <4>1. d \in Browser /\ Told(d) /\ d # g
            BY <1>0, <1>a DEF Delivered
        <4> QED BY <2>2, <3>3, <3>4, <3>5, <3>6, <3>8, <3>10, <4>1, ToldKept
      <3>11. ASSUME b \in browsers PROVE Told(b)'
        <4>1. Told(b) /\ b # g /\ step[b] \in InTable
            BY <1>0, <3>1, <3>11 DEF Delivered, Places
        <4>2. CASE job[g].ver = ver
          <5>1. CASE Takes(b)
              BY <3>2, <3>3, <3>6, <4>2, <5>1 DEF Told
          <5>2. CASE Len(chan[b]) = Capacity
            <6>1. newest'[b] = IF newest[b] < job[g].ver THEN job[g].ver ELSE newest[b]
                BY <2>2, <3>1, <5>2 DEF Reaches, Typed
            <6>2. newest'[b] = ver
                BY <1>a, <3>1, <3>7, <4>2, <6>1
            <6> QED BY <3>6, <6>2 DEF Told
          <5>3. CASE step[b] = "leaving"
              BY <2>2, <5>3 DEF Told
          <5>4. Len(chan[b]) \in Nat /\ Len(chan[b]) <= Capacity
            <6>1. chan[b] \in Seq(Message)
                BY <3>1 DEF Typed
            <6> QED BY <3>1, <6>1, LenProperties DEF Fits
          <5> QED BY <1>0, <4>1, <5>1, <5>2, <5>3, <5>4 DEF Takes, Ended, InTable
        <4>3. CASE job[g].ver # ver
          <5>1. CASE newest[b] = ver
            <6>1. newest'[b] = ver
                BY <1>a, <3>1, <3>7, <3>9, <5>1
            <6> QED BY <3>6, <6>1 DEF Told
          <5>2. CASE step[b] = "leaving"
              BY <2>2, <5>2 DEF Told
          <5>3. ASSUME NEW x \in In(chan[b]), x.kind = "list", x.ver = ver PROVE Told(b)'
              BY <3>1, <3>3, <3>6, <5>3 DEF Told
          <5>4. CASE step[b] \in {"bind", "greet"} /\ job[b].ver = ver
              BY <2>2, <3>1, <3>4, <3>6, <4>1, <5>4 DEF Told
          <5>5. ASSUME NEW h \in Gateway, step[h] \in Telling, b \in job[h].to, job[h].ver = ver
                PROVE  Told(b)'
              BY <2>2, <3>4, <3>6, <4>3, <5>5 DEF Told
          <5> QED BY <4>1, <5>1, <5>2, <5>3, <5>4, <5>5 DEF Told
        <4> QED BY <4>2, <4>3
      <3> QED BY <3>6, <3>10, <3>11 DEF Delivered
    <2> QED BY <1>4, <2>1, <2>2 DEF Announce
  <1>5. ASSUME NEW g \in Gateway, ReleaseGateway(g) PROVE Delivered'
    <2>1. CASE /\ ver' = ver + 1 /\ Goto(g, "farewell")
               /\ \E m \in Machine : job' = [job EXCEPT ![g] = [close |-> {}, of |-> Online \ {m}, ver |-> ver + 1,
                                                                to |-> browsers, replay |-> 0]]
      <3>1. job'[g].to = browsers /\ job'[g].ver = ver' /\ step'[g] \in Telling
          BY <2>1 DEF Goto, Typed, Telling
      <3>2. browsers' = browsers
          BY <1>5 DEF ReleaseGateway
      <3> QED BY <3>1, <3>2 DEF Delivered, Told
    <2>2. CASE Goto(g, "gone") /\ UNCHANGED <<ver, job>>
      <3>1. UNCHANGED <<chan, browsers, newest>> /\ step[g] = "leaving"
          BY <1>5 DEF ReleaseGateway
      <3>2. \A c \in Conn : c # g => step'[c] = step[c]
          BY <2>2 DEF Goto, Typed
      <3>3. ASSUME NEW d \in browsers PROVE Told(d)'
        <4>1. d \in Browser /\ Told(d) /\ d # g
            BY <1>0, <1>a DEF Delivered
        <4> QED BY <2>2, <3>1, <3>2, <4>1, ToldKept DEF Telling
      <3> QED BY <3>1, <3>3 DEF Delivered
    <2> QED BY <1>5, <2>1, <2>2 DEF ReleaseGateway
  <1>6. ASSUME NEW g \in Gateway, NEW m \in Machine, RegisterGateway(g, m) PROVE Delivered'
    <2>1. CASE Refused(g)
      <3>1. UNCHANGED <<chan, browsers, newest, ver, job>> /\ step[g] = "new"
          BY <1>6, <2>1 DEF RegisterGateway, Refused
      <3>2. \A c \in Conn : c # g => step'[c] = step[c]
          BY <2>1 DEF Refused, Goto, Typed
      <3>3. ASSUME NEW d \in browsers PROVE Told(d)'
        <4>1. d \in Browser /\ Told(d) /\ d # g
            BY <1>0, <1>a DEF Delivered
        <4> QED BY <3>1, <3>2, <4>1, ToldKept DEF Telling
      <3> QED BY <3>1, <3>3 DEF Delivered
    <2>2. CASE /\ ver' = ver + 1 /\ Goto(g, "closing") /\ UNCHANGED browsers
               /\ job' = [job EXCEPT ![g] = [close |-> {slot[m]} \ {Nobody}, of |-> Online \cup {m}, ver |-> ver + 1,
                                             to |-> browsers, replay |-> buf]]
      <3>1. job'[g].to = browsers /\ job'[g].ver = ver' /\ step'[g] \in Telling
          BY <2>2 DEF Goto, Typed, Telling
      <3> QED BY <2>2, <3>1 DEF Delivered, Told
    <2> QED BY <1>6, <2>1, <2>2 DEF RegisterGateway
  <1>7. ASSUME NEW g \in Gateway, NEW session \in Session \cup {Nobody}, Say(g, session)
        PROVE  Delivered'
    <2>1. \A d \in Conn : In(chan[d]) \subseteq In(chan'[d])
        BY <1>k, <1>7, SendAll DEF Say
    <2> QED BY <1>7, <1>b, <2>1 DEF Say
  <1>8. ASSUME NEW b \in Browser, Authenticate(b) \/ RegisterBrowser(b) \/ Bind(b) PROVE Delivered'
    <2>1. /\ UNCHANGED <<chan, ver, newest>> /\ step[b] \in {"new", "authed", "bind"}
          /\ \A c \in Conn : c # b => step'[c] = step[c] /\ job'[c] = job[c]
        BY <1>8 DEF Authenticate, RegisterBrowser, Refused, Bind, Goto, Typed
    <2>2. ASSUME NEW d \in browsers, d # b PROVE Told(d)'
      <3>1. d \in Browser /\ Told(d)
          BY <1>a DEF Delivered
      <3> QED BY <1>0, <2>1, <2>2, <3>1, ToldKept
    <2>3. browsers' \subseteq browsers \cup {b}
        BY <1>8 DEF Authenticate, RegisterBrowser, Refused, Bind
    <2>4. ASSUME b \in browsers' PROVE Told(b)'
      <3>1. CASE Authenticate(b)
          BY <2>4, <3>1 DEF Authenticate, Places, InTable
      <3>2. CASE RegisterBrowser(b)
        <4>1. b \notin browsers
            BY <3>2 DEF RegisterBrowser, Places, InTable
        <4>2. job'[b].ver = ver /\ step'[b] = "bind"
            BY <2>4, <3>2, <4>1 DEF RegisterBrowser, Refused, Snapshot, Idle, Goto, Typed
        <4> QED BY <2>1, <4>2 DEF Told
      <3>3. CASE Bind(b)
        <4>1. step[b] = "bind" /\ step'[b] = "greet" /\ job' = job /\ b \in browsers
            BY <2>4, <3>3 DEF Bind, Goto, Typed
        <4> QED BY <1>0, <2>1, <4>1, ToldKept DEF Delivered
      <3> QED BY <1>8, <3>1, <3>2, <3>3
    <2> QED BY <2>2, <2>3, <2>4 DEF Delivered
  <1>9. ASSUME NEW b \in Browser, ReleaseBrowser(b) PROVE Delivered'
    <2>1. /\ UNCHANGED <<chan, ver, job>> /\ browsers' = browsers \ {b}
          /\ \A c \in Conn : c # b => step'[c] = step[c]
          /\ \A c \in Browser : c # b => newest'[c] = newest[c]
        BY <1>9 DEF ReleaseBrowser, Goto, Typed
    <2>2. ASSUME NEW d \in browsers, d # b PROVE Told(d)'
      <3>1. d \in Browser /\ Told(d)
          BY <1>a DEF Delivered
      <3> QED BY <1>0, <2>1, <2>2, <3>1, ToldKept
    <2> QED BY <2>1, <2>2 DEF Delivered
  <1>10. ASSUME NEW b \in Browser, NEW machine \in Machine \cup {Nobody}, SendFrame(b, machine)
         PROVE  Delivered'
    <2>1. \A d \in Conn : In(chan[d]) \subseteq In(chan'[d])
        BY <1>k, <1>10, SendAll DEF SendFrame
    <2> QED BY <1>10, <1>b, <2>1 DEF SendFrame
  <1>11. ASSUME NEW b \in Browser, NEW session \in Session, Revoke(b, session) PROVE Delivered'
    <2>1. /\ UNCHANGED <<ver, newest, browsers, chan>> /\ step[b] = "loop"
          /\ \A d \in Conn : d # b => step'[d] = step[d] /\ job'[d] = job[d]
          /\ \E own : job' = [job EXCEPT ![b].close = own]
        BY <1>11 DEF Revoke, Goto, Typed
    <2>2. job'[b].ver = job[b].ver
        BY <2>1 DEF Typed, Job
    <2>3. ASSUME NEW d \in browsers PROVE Told(d)'
      <3>1. d \in Browser /\ Told(d)
          BY <1>a DEF Delivered
      <3> QED BY <1>0, <2>1, <2>2, <3>1, ToldKept
    <2> QED BY <2>1, <2>3 DEF Delivered
  <1>12. CASE UNCHANGED vars
      BY <1>12, <1>b DEF vars
  <1>13. ASSUME NEW c \in Conn, SendCloses(c) PROVE Delivered'
    <2>1. /\ UNCHANGED <<ver, newest, browsers>> /\ step[c] = "closing"
          /\ \A d \in Conn : d # c => step'[d] = step[d] /\ job'[d] = job[d]
          /\ job' = job \/ \E own : job' = [job EXCEPT ![c].close = own]
          /\ c \in Gateway => step'[c] \in {"closing", "greet"}
        BY <1>13 DEF SendCloses, Goto, Typed
    <2>2. job'[c].ver = job[c].ver /\ job'[c].to = job[c].to
        BY <2>1 DEF Typed, Job
    <2>3. \A d \in Conn : In(chan[d]) \subseteq In(chan'[d])
      <3>1. ASSUME NEW d \in job[c].close, Close(d)
            PROVE  \A e \in Conn : In(chan[e]) \subseteq In(chan'[e])
        <4>1. d \in Conn
            BY <3>1 DEF Typed, Job
        <4> QED BY <1>k, <3>1, <4>1, SendOne, SendAll DEF Close
      <3> QED BY <1>13, <3>1 DEF SendCloses
    <2>4. ASSUME NEW d \in browsers PROVE Told(d)'
      <3>1. d \in Browser /\ Told(d)
          BY <1>a DEF Delivered
      <3> QED BY <1>0, <2>1, <2>2, <2>3, <3>1, ToldKept DEF Telling
    <2> QED BY <2>1, <2>4 DEF Delivered
  <1> QED BY <1>1, <1>2, <1>3, <1>4, <1>5, <1>6, <1>7, <1>8, <1>9, <1>10, <1>11, <1>12, <1>13 DEF Next

LEMMA DeliveredInit == Init => Delivered
  BY DEF Init, Delivered

\* The list of the newest change reached every browser in the table (or found its
\* channel full), is in its channel, or is still owed to it by its own handler or
\* by that of a gateway; and a list of that version is the truth.
THEOREM ListingHolds == Spec => [](Truthful /\ Delivered)
  <1>1. Base /\ Truthful /\ Delivered /\ [Next]_vars => (Truthful /\ Delivered)'
      BY TruthStep, DeliveredStep
  <1> QED BY <1>1, TruthInit, DeliveredInit, BaseHolds, PTL DEF Spec

\* When nothing is under way every browser was sent the newest list of the
\* machines, and shows the true one unless an older list came later, whatever
\* connections registered, were superseded or left in between.
THEOREM ListIsTrueHolds == Spec => []ListIsTrue
  <1>1. ASSUME Base, Truthful, Delivered, Settled, NEW b \in Browser, step[b] = "loop"
        PROVE  newest[b] = ver /\ (shown[b].ver = newest[b] => shown[b].of = Online)
    <2>1. b \in browsers /\ Told(b)
        BY <1>1 DEF Base, Places, InTable, Delivered
    <2>2. In(chan[b]) = {} /\ \A g \in Gateway : step[g] \notin Telling
        BY <1>1 DEF Settled, In, Telling
    <2>3. newest[b] = ver
        BY <1>1, <2>1, <2>2 DEF Told
    <2> QED BY <1>1, <2>3 DEF Truthful, Sound
  <1>2. Base /\ Truthful /\ Delivered => ListIsTrue
      BY <1>1 DEF ListIsTrue
  <1> QED BY <1>2, ListingHolds, BaseHolds, PTL

-----------------------------------------------------------------------------
(* Types, and the length of a greeting *)

\* What is replayed was in the offline buffer.
Room == buf <= BufMax /\ \A c \in Conn : job[c].replay <= BufMax

LEMMA GreetingLength ==
  ASSUME Typed, NEW g \in Gateway
  PROVE  Len(Greeting(g)) = 1 + job[g].replay
  <1> DEFINE k == job[g].replay
             frames == [i \in 1 .. k |-> Item("frame")]
  <1>1. k \in Nat
      BY DEF Typed, Job
  <1>2. Item("ack") \in Message /\ Item("frame") \in Message
      BY ItemType DEF Kinds
  <1>3. frames \in Seq(Message) /\ Len(frames) = k
      BY <1>1, <1>2
  <1>4. <<Item("ack")>> \in Seq(Message) /\ Len(<<Item("ack")>>) = 1
      BY <1>2
  <1>5. g \notin Browser
      BY HubAssumption
  <1>6. Greeting(g) = <<Item("ack")>> \o frames
      BY <1>5 DEF Greeting
  <1> HIDE DEF frames
  <1> QED BY <1>3, <1>4, <1>6, ConcatProperties

LEMMA RoomStep == Base /\ Room /\ [Next]_vars => Room'
  <1> SUFFICES ASSUME Base, Room, [Next]_vars PROVE Room'
      OBVIOUS
  <1> USE DEF Base, Room
  <1>0. BufMax \in Nat /\ 0 <= BufMax /\ buf \in Nat
      BY HubAssumption DEF Typed
  <1>t. job \in [Conn -> Job]
      BY DEF Typed
  <1>q. ASSUME UNCHANGED <<buf, job>> PROVE Room'
      BY <1>q
  \* The other fields of a job.
  <1>f. ASSUME NEW c \in Conn
        PROVE  /\ \A x : [job[c] EXCEPT !.close = x].replay = job[c].replay
               /\ \A x : [job[c] EXCEPT !.to = x].replay = job[c].replay
               /\ [job[c] EXCEPT !.replay = 0].replay = 0
      BY <1>t DEF Job
  <1>i. Idle.replay = 0 /\ \A b : Snapshot(b).replay = 0
      BY DEF Idle, Snapshot
  <1>s. ASSUME NEW c \in Conn, buf' = buf, \A d \in Conn : d # c => job'[d] = job[d],
               job'[c].replay \in {0, job[c].replay}
        PROVE  Room'
      BY <1>0, <1>s
  <1>1. ASSUME NEW c \in Conn, Greet(c) PROVE Room'
      BY <1>1, <1>t, <1>f, <1>i, <1>s DEF Greet
  <1>2. ASSUME NEW c \in Conn, Receive(c) \/ Leave(c) PROVE Room'
      BY <1>2, <1>q DEF Receive, Leave
  <1>3. ASSUME NEW g \in Gateway, Announce(g) PROVE Room'
    <2>1. job' = [job EXCEPT ![g] = Idle] \/ \E b \in job[g].to : job' = [job EXCEPT ![g].to = job[g].to \ {b}]
        BY <1>3 DEF Announce
    <2>2. ASSUME NEW b, job' = [job EXCEPT ![g].to = job[g].to \ {b}] PROVE job'[g].replay = job[g].replay
      <3>1. job'[g] = [job[g] EXCEPT !.to = job[g].to \ {b}]
          BY <1>t, <2>2
      <3> QED BY <1>f, <3>1
    <2>3. job'[g].replay \in {0, job[g].replay}
        BY <1>i, <1>t, <2>1, <2>2
    <2>4. buf' = buf /\ \A d \in Conn : d # g => job'[d] = job[d]
        BY <1>3, <1>t DEF Announce
    <2> QED BY <1>s, <2>3, <2>4
  <1>4. ASSUME NEW g \in Gateway, ReleaseGateway(g) PROVE Room'
    <2>1. buf' = buf /\ \A d \in Conn : d # g => job'[d] = job[d]
        BY <1>4, <1>t DEF ReleaseGateway
    <2>2. job'[g].replay = 0 \/ job' = job
        BY <1>4, <1>t DEF ReleaseGateway
    <2> QED BY <1>s, <2>1, <2>2
  <1>5. ASSUME NEW g \in Gateway, NEW m \in Machine, RegisterGateway(g, m) PROVE Room'
    <2>1. CASE Refused(g)
        BY <1>q, <2>1 DEF Refused
    <2>2. CASE ~Refused(g)
      <3>1. buf' = 0 /\ job'[g].replay = buf /\ \A d \in Conn : d # g => job'[d] = job[d]
          BY <1>5, <1>t, <2>2 DEF RegisterGateway
      <3> QED BY <1>0, <3>1
    <2> QED BY <2>1, <2>2
  <1>6. ASSUME NEW g \in Gateway, NEW session \in Session \cup {Nobody}, Say(g, session) PROVE Room'
      BY <1>6, <1>q DEF Say
  <1>7. ASSUME NEW b \in Browser, Authenticate(b) \/ Bind(b) \/ ReleaseBrowser(b) PROVE Room'
      BY <1>7, <1>q DEF Authenticate, Bind, ReleaseBrowser, Refused
  <1>8. ASSUME NEW b \in Browser, RegisterBrowser(b) PROVE Room'
      BY <1>8, <1>t, <1>i, <1>q, <1>s DEF RegisterBrowser, Refused
  <1>9. ASSUME NEW b \in Browser, NEW machine \in Machine \cup {Nobody}, SendFrame(b, machine) PROVE Room'
      BY <1>0, <1>9 DEF SendFrame, BufferRoom
  <1>10. ASSUME NEW b \in Browser, NEW session \in Session, Revoke(b, session) PROVE Room'
      BY <1>10, <1>t, <1>f, <1>s DEF Revoke
  <1>11. ASSUME NEW c \in Conn, SendCloses(c) PROVE Room'
    <2>1. buf' = buf /\ (job' = job \/ \E d \in job[c].close : job' = [job EXCEPT ![c].close = job[c].close \ {d}])
        BY <1>11 DEF SendCloses
    <2>2. ASSUME NEW d, job' = [job EXCEPT ![c].close = job[c].close \ {d}] PROVE Room'
      <3>1. job'[c] = [job[c] EXCEPT !.close = job[c].close \ {d}] /\ \A e \in Conn : e # c => job'[e] = job[e]
          BY <1>t, <2>2
      <3>2. job'[c].replay = job[c].replay
          BY <1>f, <3>1
      <3> QED BY <1>s, <2>1, <3>1, <3>2
    <2> QED BY <1>q, <2>1, <2>2
  <1>12. CASE UNCHANGED vars
      BY <1>12, <1>q DEF vars
  <1> QED BY <1>1, <1>2, <1>3, <1>4, <1>5, <1>6, <1>7, <1>8, <1>9, <1>10, <1>11, <1>12 DEF Next

LEMMA RoomInit == Init => Room
  BY HubAssumption DEF Init, Room, Idle

\* Types; a slot and the table of browsers only name connections that have not
\* ended; what is to be closed is held by a connection that closes it; and every
\* greeting, with the replay of a full buffer, is no longer than a channel.
THEOREM HubTypeCorrect == Spec => []TypeOK
  <1>1. ASSUME Base, Room, NEW c \in Conn PROVE Len(Greeting(c)) <= Capacity
    <2>1. {BufMax, Capacity} \subseteq Nat /\ BufMax + 2 <= Capacity
        BY HubAssumption
    <2>2. CASE c \in Gateway
      <3>1. job[c].replay \in Nat /\ job[c].replay <= BufMax
          BY <1>1 DEF Base, Typed, Job, Room
      <3>2. Len(Greeting(c)) = 1 + job[c].replay
          BY <1>1, <2>2, GreetingLength DEF Base
      <3> QED BY <2>1, <3>1, <3>2
    <2>3. CASE c \in Browser
      <3>1. Greeting(c) = <<Item("ack"), List(c)>>
          BY <2>3 DEF Greeting
      <3>2. Len(Greeting(c)) = 2
          BY <3>1
      <3> QED BY <2>1, <3>2
    <2> QED BY <2>2, <2>3
  <1>2. ASSUME Base, Closers, Room PROVE Types
    <2>1. ASSUME NEW c \in Conn
          PROVE  /\ \A i \in DOMAIN chan[c] : chan[c][i].kind \in Kinds /\ chan[c][i].of \subseteq Machine
                 /\ job[c].of \subseteq Machine /\ job[c].to \subseteq Browser
                 /\ job[c].close \subseteq Conn /\ (job[c].close # {} => step[c] = "closing")
      <3>1. job[c] \in Job /\ chan[c] \in Seq(Message)
          BY <1>2 DEF Base, Typed
      <3>2. \A i \in DOMAIN chan[c] : chan[c][i] \in Message
          BY <3>1
      <3> QED BY <1>2, <3>1, <3>2 DEF Message, Job, Closers
    <2>2. /\ step \in [Conn -> Steps] /\ buf \in 0 .. BufMax /\ revoked \subseteq Session
          /\ \A c \in Conn : Len(chan[c]) <= Capacity
        BY <1>2, HubAssumption DEF Base, Typed, Fits, Places, Room
    <2>3. /\ \A m \in Online : step[slot[m]] \in {"closing", "greet", "announce", "loop", "leaving"}
          /\ browsers = {b \in Browser : step[b] \in {"bind", "closing", "greet", "loop", "leaving"}}
          /\ bound \subseteq browsers
        BY <1>2 DEF Base, Places, InTable, Online
    <2> QED BY <2>1, <2>2, <2>3 DEF Types
  <1>3. Base /\ Closers /\ Room => TypeOK
      BY <1>1, <1>2 DEF TypeOK
  <1>4. Base /\ Room /\ [Next]_vars => Room'
      BY RoomStep
  <1> QED BY <1>3, <1>4, RoomInit, BaseHolds, PTL DEF Spec

=============================================================================
