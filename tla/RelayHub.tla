------------------------------- MODULE RelayHub -------------------------------
(* The hub of the relay: connections of gateways, one slot per machine, and   *)
(* of browsers, each with a channel of its own.  What a step reads from the   *)
(* table of slots (the list of machines, the browsers to tell) is sent after  *)
(* the lock is released, so another connection may get in between.            *)
(*                                                                            *)
(* Every element of Gateway and Browser is one connection, from the handshake *)
(* to its end; a client that connects again is another element.  Frames are   *)
(* counted and not told apart; the list of machines also stands for the older *)
(* frame about the default machine that goes before it.                       *)
EXTENDS Naturals, Sequences, FiniteSets

CONSTANTS
    Gateway, Browser, Machine, Session,
    SessionOf,              \* of each browser
    Nobody,                 \* an empty slot, no machine or session named
    MaxGateways, MaxBrowsers,
    BufMax,                 \* BUF_MAX_FRAMES
    Capacity,               \* CHANNEL_CAPACITY
    MaxFrames,              \* bound: frames of each browser connection
    MaxSays                 \* bound: frames of the gateways

ASSUME HubAssumption ==
    /\ IsFiniteSet(Gateway) /\ IsFiniteSet(Browser) /\ Gateway \cap Browser = {}
    /\ SessionOf \in [Browser -> Session]
    /\ Nobody \notin Gateway \cup Machine \cup Session
    /\ {MaxGateways, MaxBrowsers, BufMax, Capacity, MaxFrames, MaxSays} \subseteq Nat
    \* The capacity is derived from a greeting: 202 and more for 200 frames.
    /\ Capacity >= BufMax + 2

Conn == Gateway \cup Browser

VARIABLES
    step,      \* where the handler of each connection is
    chan,      \* its channel of outbound messages
    job,       \* what it took from the tables: whom to close, the list, whom to tell,
               \* frames to replay
    slot,      \* HubState.gateways
    browsers,  \* HubState.browsers
    buf,       \* frames in the offline buffer
    bound,     \* SessionStore: connections bound to their sessions
    revoked,   \* SessionStore: revoked sessions
    used,      \* frames each browser has sent
    says,      \* frames the gateways have sent
    shown,     \* the list each browser shows
    ver,       \* history: number of changes of the slots
    newest,    \* history: version of the newest list that reached each browser, or found its channel full
    overrun    \* history: connections whose close found the channel full

table == <<slot, browsers, buf, ver>>
store == <<bound, revoked>>
sent  == <<used, says>>
vars  == <<step, chan, job, table, store, sent, shown, newest, overrun>>

Online == {m \in Machine : slot[m] # Nobody}
Item(kind) == [kind |-> kind, of |-> {}, ver |-> 0]
Idle    == [close |-> {}, of |-> {}, ver |-> 0, to |-> {}, replay |-> 0]

Init ==
    /\ step = [c \in Conn |-> "new"] /\ chan = [c \in Conn |-> <<>>] /\ job = [c \in Conn |-> Idle]
    /\ slot = [m \in Machine |-> Nobody] /\ browsers = {} /\ buf = 0
    /\ bound = {} /\ revoked = {}
    /\ used = [b \in Browser |-> 0] /\ says = 0 /\ shown = [b \in Browser |-> Item("list")]
    /\ ver = 0 /\ newest = [b \in Browser |-> 0] /\ overrun = {}

-----------------------------------------------------------------------------
(* Channels.  try_send drops what finds the channel full or its owner gone.   *)

Ended(c) == step[c] \in {"leaving", "gone"}
Takes(c) == ~Ended(c) /\ Len(chan[c]) < Capacity
After(c, item) == IF Takes(c) THEN Append(chan[c], item) ELSE chan[c]
TrySend(c, item) == chan' = [chan EXCEPT ![c] = After(c, item)]
TrySendAll(cs, item) == chan' = [c \in Conn |-> IF c \in cs THEN After(c, item) ELSE chan[c]]
Close(c) ==
    /\ TrySend(c, Item("close"))
    /\ overrun' = IF Len(chan[c]) = Capacity THEN overrun \cup {c} ELSE overrun

Goto(c, where) == step' = [step EXCEPT ![c] = where]
Reaches(b, v) == newest' = [newest EXCEPT ![b] = IF @ < v THEN v ELSE @]

-----------------------------------------------------------------------------
(* Registration *)

\* The session of a browser is verified some time before it is registered.
Authenticate(b) ==
    /\ step[b] = "new" /\ SessionOf[b] \notin revoked /\ Goto(b, "authed")
    /\ UNCHANGED <<chan, job, table, store, sent, shown, newest, overrun>>

Refused(c) ==
    Goto(c, "gone") /\ UNCHANGED <<chan, job, table, store, sent, shown, newest, overrun>>

\* A machine has one connection: the new one takes the slot, the old is closed.
RegisterGateway(g, m) ==
    /\ step[g] = "new"
    /\ LET full == Cardinality(Online) >= MaxGateways /\ m \notin Online
       IN  \/ full /\ Refused(g)
           \/ /\ ~full /\ Goto(g, "closing")
              /\ slot' = [slot EXCEPT ![m] = g] /\ buf' = 0 /\ ver' = ver + 1
              /\ job' = [job EXCEPT ![g] = [close |-> {slot[m]} \ {Nobody}, of |-> Online \cup {m},
                                            ver |-> ver + 1, to |-> browsers, replay |-> buf]]
              /\ UNCHANGED <<chan, browsers, store, sent, shown, newest, overrun>>

\* The connections that lost their place are closed after the lock is released.
SendCloses(c) ==
    /\ step[c] = "closing"
    /\ \/ \E d \in job[c].close :
            Close(d) /\ job' = [job EXCEPT ![c].close = @ \ {d}] /\ UNCHANGED step
       \/ /\ job[c].close = {} /\ Goto(c, IF c \in Gateway THEN "greet" ELSE "loop")
          /\ UNCHANGED <<chan, job, overrun>>
    /\ UNCHANGED <<table, store, sent, shown, newest>>

\* The list is read in the step that makes the browser a target of the next ones.
SnapshotNone(b) == [Idle EXCEPT !.ver = ver]
Snapshot(b)     == [Idle EXCEPT !.of = Online, !.ver = ver]
RegisterBrowser(b) ==
    /\ step[b] = "authed"
    /\ \/ Cardinality(browsers) >= MaxBrowsers /\ Refused(b)
       \/ /\ Cardinality(browsers) < MaxBrowsers /\ Goto(b, "bind")
          /\ browsers' = browsers \cup {b}
          /\ job' = [job EXCEPT ![b] = Snapshot(b)]
          /\ UNCHANGED <<chan, slot, buf, ver, store, sent, shown, newest, overrun>>

\* The session may have been revoked since it was verified.
BindableAny(b) == TRUE
Bindable(b)    == SessionOf[b] \notin revoked
Bind(b) ==
    /\ step[b] = "bind"
    /\ \/ Bindable(b) /\ bound' = bound \cup {b} /\ Goto(b, "greet") /\ UNCHANGED browsers
       \/ ~Bindable(b) /\ browsers' = browsers \ {b} /\ Goto(b, "gone") /\ UNCHANGED bound
    /\ UNCHANGED <<chan, job, slot, buf, ver, revoked, sent, shown, newest, overrun>>

\* send_all: the connection writes to its own channel before anyone reads it.
\* Others may have put something there since it was registered.
List(c) == [kind |-> "list", of |-> job[c].of, ver |-> job[c].ver]
Greeting(c) ==
    IF c \in Browser THEN <<Item("ack"), List(c)>>
    ELSE <<Item("ack")>> \o [i \in 1 .. job[c].replay |-> Item("frame")]
Greet(c) ==
    /\ step[c] = "greet" /\ Len(chan[c]) + Len(Greeting(c)) <= Capacity
    /\ chan' = [chan EXCEPT ![c] = @ \o Greeting(c)]
    /\ IF c \in Browser THEN Goto(c, "loop") /\ job' = [job EXCEPT ![c] = Idle]
       ELSE Goto(c, "announce") /\ job' = [job EXCEPT ![c].replay = 0]
    /\ UNCHANGED <<table, store, sent, shown, newest, overrun>>

\* The list of machines goes to the browsers that were there at the change.
Announce(g) ==
    /\ step[g] \in {"announce", "farewell"}
    /\ \/ \E b \in job[g].to :
            /\ TrySend(b, List(g)) /\ job' = [job EXCEPT ![g].to = @ \ {b}] /\ UNCHANGED step
            /\ IF Len(chan[b]) = Capacity THEN Reaches(b, job[g].ver) ELSE UNCHANGED newest
       \/ /\ job[g].to = {} /\ job' = [job EXCEPT ![g] = Idle] /\ UNCHANGED <<chan, newest>>
          /\ Goto(g, IF step[g] = "announce" THEN "loop" ELSE "gone")
    /\ UNCHANGED <<table, store, sent, shown, overrun>>

-----------------------------------------------------------------------------
(* The loop of a connection *)

\* route_browser_frame.  Without a machine a frame goes to the only gateway;
\* with none it is kept until the buffer is full, with several it is refused.
BufferRoomOver(n) == n <= BufMax
BufferRoom(n)     == n < BufMax
Target(machine) ==
    IF machine # Nobody THEN {slot[machine]} \ {Nobody}
    ELSE {slot[m] : m \in {k \in Online : Cardinality(Online) = 1}}

SendFrame(b, machine) ==
    /\ step[b] = "loop" /\ used[b] < MaxFrames /\ used' = [used EXCEPT ![b] = @ + 1] /\ UNCHANGED says
    /\ TrySendAll(Target(machine), Item("frame"))
    /\ buf' = IF machine = Nobody /\ Online = {} /\ BufferRoom(buf) THEN buf + 1 ELSE buf
    /\ UNCHANGED <<step, job, slot, browsers, ver, store, shown, newest, overrun>>

\* route_gateway_frame: to the connections of a session, or to all browsers.
Hearers(session) ==
    LET own == {b \in browsers : SessionOf[b] = session}
    IN  IF own = {} THEN browsers ELSE own
Say(g, session) ==
    /\ step[g] = "loop" /\ says < MaxSays /\ says' = says + 1
    /\ TrySendAll(Hearers(session), Item("frame"))
    /\ UNCHANGED <<step, job, table, store, used, shown, newest, overrun>>

\* device_revoke, from any browser.
Revoke(b, session) ==
    /\ step[b] = "loop" /\ session \notin revoked /\ Goto(b, "closing")
    /\ revoked' = revoked \cup {session}
    /\ LET own == {c \in bound : SessionOf[c] = session}
       IN  bound' = bound \ own /\ job' = [job EXCEPT ![b].close = own]
    /\ UNCHANGED <<chan, table, sent, shown, newest, overrun>>

\* A message is written to the socket and read by the peer.  A close ends the
\* connection, and the client of a gateway gives up when something comes
\* before hello_ack.
Receive(c) ==
    /\ step[c] = "loop" /\ chan[c] # <<>>
    /\ LET item == Head(chan[c])
           bad  == c \in Gateway /\ \E i \in 2 .. Len(chan[c]) : chan[c][i].kind = "ack"
           over == item.kind = "close" \/ bad
       IN  /\ chan' = [chan EXCEPT ![c] = IF over THEN <<>> ELSE Tail(@)]
           /\ step' = IF over THEN [step EXCEPT ![c] = "leaving"] ELSE step
           /\ IF item.kind = "list" THEN shown' = [shown EXCEPT ![c] = item] /\ Reaches(c, item.ver)
              ELSE UNCHANGED <<shown, newest>>
    /\ UNCHANGED <<job, table, store, sent, overrun>>

\* The peer is gone or silent, sends more than RATE_MAX_FRAMES in a window, or
\* the relay stops.
Leave(c) ==
    /\ step[c] = "loop" /\ Goto(c, "leaving") /\ chan' = [chan EXCEPT ![c] = <<>>]
    /\ UNCHANGED <<job, table, store, sent, shown, newest, overrun>>

ReleaseBrowser(b) ==
    /\ step[b] = "leaving" /\ Goto(b, "gone")
    /\ bound' = bound \ {b} /\ browsers' = browsers \ {b}
    \* What it saw does not matter any more.
    /\ shown' = [shown EXCEPT ![b] = Item("list")] /\ newest' = [newest EXCEPT ![b] = 0]
    /\ UNCHANGED <<chan, job, slot, buf, ver, revoked, sent, overrun>>

\* A connection that was superseded leaves the slot to its successor.
ReleaseGateway(g) ==
    /\ step[g] = "leaving"
    /\ \/ \E m \in Machine :
            /\ slot[m] = g /\ slot' = [slot EXCEPT ![m] = Nobody] /\ ver' = ver + 1
            /\ job' = [job EXCEPT ![g] = [close |-> {}, of |-> Online \ {m}, ver |-> ver + 1,
                                          to |-> browsers, replay |-> 0]]
            /\ Goto(g, "farewell")
       \/ /\ \A m \in Machine : slot[m] # g
          /\ Goto(g, "gone") /\ UNCHANGED <<slot, ver, job>>
    /\ UNCHANGED <<chan, browsers, buf, store, sent, shown, newest, overrun>>

Next ==
    \/ \E c \in Conn : SendCloses(c) \/ Greet(c) \/ Receive(c) \/ Leave(c)
    \/ \E g \in Gateway : \/ Announce(g) \/ ReleaseGateway(g)
                          \/ \E m \in Machine : RegisterGateway(g, m)
                          \/ \E session \in Session \cup {Nobody} : Say(g, session)
    \/ \E b \in Browser : \/ Authenticate(b) \/ RegisterBrowser(b) \/ Bind(b) \/ ReleaseBrowser(b)
                          \/ \E machine \in Machine \cup {Nobody} : SendFrame(b, machine)
                          \/ \E session \in Session : Revoke(b, session)

Spec == Init /\ [][Next]_vars

-----------------------------------------------------------------------------
(* Properties *)

Kinds == {"ack", "frame", "list", "close"}
Steps == {"new", "authed", "bind", "closing", "greet", "announce", "loop",
          "leaving", "farewell", "gone"}

Types ==
    /\ step \in [Conn -> Steps]
    /\ \A c \in Conn : Len(chan[c]) <= Capacity
         /\ \A i \in DOMAIN chan[c] : chan[c][i].kind \in Kinds /\ chan[c][i].of \subseteq Machine
    /\ \A c \in Conn : job[c].of \subseteq Machine /\ job[c].to \subseteq Browser
         /\ job[c].close \subseteq Conn /\ (job[c].close # {} => step[c] = "closing")
    /\ \A m \in Online : step[slot[m]] \in {"closing", "greet", "announce", "loop", "leaving"}
    /\ browsers = {b \in Browser : step[b] \in {"bind", "closing", "greet", "loop", "leaving"}}
    /\ buf \in 0 .. BufMax /\ bound \subseteq browsers /\ revoked \subseteq Session

\* Types; a slot and the table of browsers only name connections that have not
\* ended, and no greeting is longer than a channel (CHANNEL_CAPACITY).
TypeOK ==
    /\ Types
    /\ \A c \in Conn : step[c] = "greet" => Len(Greeting(c)) <= Capacity

\* A connection of a revoked session is being closed ("no ghost connection"),
\* whenever it was revoked, unless the close found its channel full: the close
\* is in its channel, or with the connection that revoked.
Served == {"closing", "greet", "loop"}
RevokedIsClosed ==
    \A b \in Browser : step[b] \in Served /\ SessionOf[b] \in revoked =>
        \/ b \in overrun \/ \E i \in DOMAIN chan[b] : chan[b][i].kind = "close"
        \/ \E c \in Conn : b \in job[c].close

\* When nothing is under way, every browser was sent the newest list of the
\* machines, and shows the true one unless an older list came later (machines
\* frame: broadcast to all browsers at every change).
Settled == \A c \in Conn : step[c] \in {"new", "authed", "loop", "gone"} /\ chan[c] = <<>>
ListIsTrue ==
    Settled => \A b \in Browser : step[b] = "loop" =>
        newest[b] = ver /\ (shown[b].ver = newest[b] => shown[b].of = Online)

=============================================================================
