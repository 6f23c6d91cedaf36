---------------------------- MODULE TcpTransport -----------------------------
(***************************************************************************)
(* Two devices whose tunnels (module TunnState) send over TCP (mode "tcp"  *)
(* of device/mod.rs).  A device keeps a connection per address in          *)
(* tcp_connections: one it made to that address, or one it accepted from   *)
(* it.  The handler of a stream reads frames and sends its answers to the  *)
(* address of the stream, on whatever connection is listed for it.         *)
(*                                                                         *)
(* The timer handler returns before it reaches the peers when the device   *)
(* has no UDP socket, so update_timers is never called: a Tunn here ages   *)
(* no session, repeats no initiation and never expires.                    *)
(*                                                                         *)
(* A frame is written and read as a whole; module TcpStream splits it.     *)
(***************************************************************************)
EXTENDS TunnState

CONSTANTS
    Talkers,        \* the endpoints with packets to send
    MaxConns,       \* bound: connections made
    MaxOnStream,    \* bound: frames under way in one direction of a stream
    MaxStops        \* bound: devices stopped by their owner

ASSUME TcpAssumption ==
    /\ MaxConns \in Nat
    /\ MaxOnStream \in Nat
    /\ MaxStops \in Nat

Conns == 1..MaxConns

\* 0 is the address configured for the peer, where its device listens; c is the
\* port from which connection c was made, where nobody does.
Addresses == 0..MaxConns

\* The cookie reply of a rate limiter.
Cookie == [type |-> "cookie"]

Frame == Message \cup {Cookie}

VARIABLES
    tunn,           \* the Tunn of each endpoint
    heard,          \* last_handshake_timestamp, as the ephemeral it came with
    conns,          \* the TCP connections
    tcp_connections,\* per device and address, the connection to send on, or 0
    handlers,       \* per device, the connections it reads from
    device,         \* "running", "leaving" (one thread has left) or "gone"
    stops,          \* devices stopped so far
    submitted,      \* history: packets e was given to send
    used,           \* history: ephemerals drawn so far
    derived,        \* history: session keys e derived
    dropped         \* history: ephemerals of initiations that were lost or
                    \* turned away, or whose response was

tunnel == <<tunn, heard, submitted, used, derived>>
links == <<conns, tcp_connections, handlers>>
vars == <<tunnel, links, device, stops, dropped>>

NoOne == "no one"

Unused == [maker |-> NoOne, toward |-> 0, state |-> "unused", accepted |-> "no",
           closed |-> {}, to |-> [e \in Endpoints |-> <<>>]]

\* toward: the address it was made to; accepted: whether the other end has
\* accepted it, and listed it; closed: the ends whose process is gone; to: the
\* frames each end can read.
ConnType ==
    [maker : Endpoints \cup {NoOne},
     toward : Addresses,
     state : {"unused", "connecting", "open", "closed"},
     accepted : {"no", "listed", "unlisted"},
     closed : SUBSET Endpoints,
     to : [Endpoints -> Seq(Frame)]]

TypeOK ==
    /\ tunn \in [Endpoints -> TunnType]
    /\ heard \in [Endpoints -> Ephemerals \cup {0}]
    /\ conns \in [Conns -> ConnType]
    /\ tcp_connections \in [Endpoints -> [Addresses -> Conns \cup {0}]]
    /\ handlers \in [Endpoints -> SUBSET Conns]
    /\ device \in [Endpoints -> {"running", "leaving", "gone"}]
    /\ stops \in 0..MaxStops
    /\ submitted \in [Endpoints -> SUBSET Packets]
    /\ used \subseteq Ephemerals
    /\ derived \in [Endpoints -> SUBSET Key]
    /\ dropped \subseteq Ephemerals

Init ==
    /\ tunn = [e \in Endpoints |-> NewTunn]
    /\ heard = [e \in Endpoints |-> 0]
    /\ conns = [c \in Conns |-> Unused]
    /\ tcp_connections = [e \in Endpoints |-> [a \in Addresses |-> 0]]
    /\ handlers = [e \in Endpoints |-> {}]
    /\ device = [e \in Endpoints |-> "running"]
    /\ stops = 0
    /\ submitted = [e \in Endpoints |-> {}]
    /\ used = {}
    /\ derived = [e \in Endpoints |-> {}]
    /\ dropped = {}

Fresh == Ephemerals \ used

-----------------------------------------------------------------------------
(* Sending.                                                                *)

\* What e writes to c reaches the other end, unless the connection is not
\* established or that end is gone; the results of write are ignored.
Writable(e, c) == conns[c].state = "open" /\ Peer(e) \notin conns[c].closed

\* The initiations that get no response when these messages are lost.
Hopeless(msgs) ==
    {m.eph : m \in {n \in ToSet(msgs) : n.type = "init"}}
    \cup {m.answers : m \in {n \in ToSet(msgs) : n.type = "response"}}

\* The connections as they are after e has written msgs to c.
Written(cs, e, c, msgs) == [cs EXCEPT ![c].to[Peer(e)] = @ \o msgs]

\* Here and below cs are the connections as a read before has left them.
Write(e, c, cs, msgs) ==
    IF Writable(e, c)
    THEN /\ Len(cs[c].to[Peer(e)]) + Len(msgs) <= MaxOnStream
         /\ conns' = Written(cs, e, c, msgs)
         /\ UNCHANGED dropped
    ELSE /\ dropped' = dropped \cup Hopeless(msgs)
         /\ conns' = cs

\* The connection that is listed for address a.
Listed(e, a) == tcp_connections[e][a]

\* Connect without waiting, and use the connection at once.  Only within one
\* host may it be established.
ConnectAndWrite(e, a, cs, msgs) ==
    \E c \in {d \in Conns : cs[d].state = "unused"}, atOnce \in BOOLEAN :
        LET made == [cs EXCEPT ![c].maker = e, ![c].toward = a,
                               ![c].state = IF atOnce THEN "open" ELSE "connecting"]
        IN
        /\ \A d \in Conns : d < c => cs[d].state # "unused"
        /\ atOnce => a = 0 /\ device[Peer(e)] # "gone"
        /\ tcp_connections' = [tcp_connections EXCEPT ![e][a] = c]
        /\ handlers' = [handlers EXCEPT ![e] = @ \cup {c}]
        /\ conns' = IF atOnce THEN Written(made, e, c, msgs) ELSE made
        /\ dropped' = IF atOnce THEN dropped ELSE dropped \cup Hopeless(msgs)

\* maybe_connect_tcp returns None: there is no descriptor for another socket, or
\* for the copy of it that is written to.
NoSocket(cs, msgs) ==
    /\ conns' = cs
    /\ dropped' = dropped \cup Hopeless(msgs)
    /\ UNCHANGED <<tcp_connections, handlers>>

\* maybe_connect_tcp, and the write.
Send(e, a, cs, msgs) ==
    \/ /\ msgs = <<>>
       /\ conns' = cs
       /\ UNCHANGED <<tcp_connections, handlers, dropped>>
    \/ /\ msgs # <<>> /\ Listed(e, a) # 0
       /\ Write(e, Listed(e, a), cs, msgs)
       /\ UNCHANGED <<tcp_connections, handlers>>
    \/ /\ msgs # <<>> /\ Listed(e, a) = 0
       /\ ConnectAndWrite(e, a, cs, msgs) \/ NoSocket(cs, msgs)

\* Endpoint e goes from tunn[e] to t and draws the ephemerals of msgs.
Becomes(e, t, msgs) ==
    /\ DrawnIn(msgs) \subseteq Ephemerals
    /\ tunn' = [tunn EXCEPT ![e] = t]
    /\ used' = used \cup DrawnIn(msgs)

Active(e) == device[e] # "gone"

\* The tun handler: a packet is encapsulated, and sent to the peer's address.
Encapsulate(e, p) ==
    /\ Active(e) /\ e \in Talkers
    /\ p \notin submitted[e]
    /\ submitted' = [submitted EXCEPT ![e] = @ \cup {p}]
    /\ \E r \in {Encapsulated(tunn[e], p, k) : k \in Drawn(Fresh)} :
        /\ Becomes(e, r.tunn, r.out)
        /\ Send(e, 0, conns, r.out)
    /\ UNCHANGED <<heard, device, stops, derived>>

-----------------------------------------------------------------------------
(* The handler of a stream (register_tcp_stream_handler).                   *)

\* The address of the other end of c.
Address(e, c) == IF conns[c].maker = e THEN conns[c].toward ELSE c

CanRead(e, c) == Active(e) /\ c \in handlers[e] /\ conns[c].to[e] # <<>>

AfterRead(e, c) == [conns EXCEPT ![c].to[e] = Tail(@)]

\* What the tunnel refuses; and a cookie, which changes only what the next
\* initiation is sealed with.
Refused(e, m) ==
    \/ m.type = "init" /\ m.eph <= heard[e]
    \/ m.type = "response" /\ ~Opens(tunn[e], m)
    \/ m.type = "data" /\ ~Reads(tunn[e], m)
    \/ m.type = "cookie"

\* What handle_verified_packet makes of m; the new session key, if there is one.
Handled(e, m, k) ==
    IF Refused(e, m) THEN Result(tunn[e], <<>>)
    ELSE CASE m.type = "init" -> Responded(tunn[e], m, k)
           [] m.type = "response" -> Established(tunn[e], m)
           [] m.type = "data" -> Result(SetCurrent(tunn[e], m.receiver), <<>>)

KeysOf(e, m, k) ==
    IF Refused(e, m) THEN {}
    ELSE CASE m.type = "init" -> {<<m.eph, k>>}
           [] m.type = "response" -> {<<m.answers, m.eph>>}
           [] m.type = "data" -> {}

\* Read a frame, handle it, and flush the queue after it, also after a frame that
\* was refused; answer to the address of the stream.
StreamRead(e, c) ==
    LET m == Head(conns[c].to[e]) IN
    /\ CanRead(e, c)
    /\ \E k1 \in Drawn(Fresh), k2 \in Drawn(Fresh \ Drawn(Fresh)) :
        LET answers == m.type = "init" /\ ~Refused(e, m)
            r == ThenFlush(Handled(e, m, k1), IF answers THEN k2 ELSE k1)
        IN
        /\ answers => k1 # 0
        /\ Becomes(e, r.tunn, r.out)
        /\ derived' = [derived EXCEPT ![e] = @ \cup KeysOf(e, m, k1)]
        /\ Send(e, Address(e, c), AfterRead(e, c), r.out)
    /\ heard' = IF m.type = "init" /\ ~Refused(e, m)
                THEN [heard EXCEPT ![e] = m.eph] ELSE heard
    /\ UNCHANGED <<submitted, device, stops>>

\* The rate limiter is under load, from whatever peers the device has besides,
\* and mac2 is not valid: a cookie goes back on the stream itself, and the message
\* is not handled.
TurnAway(e, c) ==
    LET m == Head(conns[c].to[e]) IN
    /\ CanRead(e, c)
    /\ m.type \in {"init", "response"}
    /\ conns' = IF Writable(e, c) THEN Written(AfterRead(e, c), e, c, <<Cookie>>)
                ELSE AfterRead(e, c)
    /\ Len(conns'[c].to[Peer(e)]) <= MaxOnStream
    /\ dropped' = dropped \cup Hopeless(<<m>>)
    /\ UNCHANGED <<tunnel, tcp_connections, handlers, device, stops>>

\* Mutant: the entry is removed and the thread goes on.
GoOn(e, c) ==
    /\ tcp_connections' = [tcp_connections EXCEPT ![e][Address(e, c)] = 0]
    /\ UNCHANGED device

\* The entry of the address is removed, whatever it holds, and the thread leaves
\* its loop.  The handler stays, and another thread may be given it.
LeaveFor(e, c) ==
    /\ tcp_connections' = [tcp_connections EXCEPT ![e][Address(e, c)] = 0]
    /\ device' = [device EXCEPT ![e] = "leaving"]

\* read returns 0: the other end is gone and all it wrote has been read.
StreamEnds(e, c) ==
    /\ Active(e) /\ c \in handlers[e]
    /\ conns[c].state = "open" /\ Peer(e) \in conns[c].closed
    /\ conns[c].to[e] = <<>>
    /\ LeaveFor(e, c)
    /\ UNCHANGED <<tunnel, conns, handlers, stops, dropped>>

\* The connection breaks (a reset, or a time-out of TCP); what e had not read
\* is lost, and so is what was under way to the other end.
Broken(c) ==
    /\ conns' = [conns EXCEPT ![c].state = "closed",
                              ![c].to = [f \in Endpoints |-> <<>>]]
    /\ dropped' = dropped \cup UNION {Hopeless(conns[c].to[f]) : f \in Endpoints}

\* e notices: epoll reports EPOLLHUP and event_loop cancels the handler.  A
\* connection that could not be made ends in the same way.
StreamBreaks(e, c) ==
    /\ Active(e) /\ c \in handlers[e]
    /\ conns[c].state \in {"connecting", "open", "closed"}
    /\ Broken(c)
    /\ handlers' = [handlers EXCEPT ![e] = @ \ {c}]
    /\ UNCHANGED <<tunnel, tcp_connections, device, stops>>

\* The same, between epoll_wait and read: read returns the error.
StreamFails(e, c) ==
    /\ Active(e) /\ c \in handlers[e]
    /\ conns[c].state \in {"open", "closed"}
    /\ Broken(c)
    /\ LeaveFor(e, c)
    /\ UNCHANGED <<tunnel, handlers, stops>>

-----------------------------------------------------------------------------
(* Connections and devices.                                                *)

ConnectDone(c) ==
    /\ conns[c].state = "connecting" /\ conns[c].toward = 0
    /\ Active(Peer(conns[c].maker))
    /\ conns' = [conns EXCEPT ![c].state = "open"]
    /\ UNCHANGED <<tunnel, tcp_connections, handlers, device, stops, dropped>>

\* The accept loop of register_tcp_listener_handler.  When the descriptor cannot
\* be duplicated the stream is read all the same, without an entry.
Accept(e, c) ==
    /\ Active(e)
    /\ conns[c].state = "open" /\ conns[c].maker = Peer(e)
    /\ conns[c].accepted = "no" /\ e \notin conns[c].closed
    /\ \E how \in {"listed", "unlisted"} :
        /\ conns' = [conns EXCEPT ![c].accepted = how]
        /\ tcp_connections' = IF how = "listed"
                              THEN [tcp_connections EXCEPT ![e][c] = c]
                              ELSE tcp_connections
    /\ handlers' = [handlers EXCEPT ![e] = @ \cup {c}]
    /\ UNCHANGED <<tunnel, device, stops, dropped>>

\* The process of e ends: the kernel closes its sockets.
Gone(e) ==
    LET mine == {c \in Conns : /\ conns[c].state # "unused"
                               /\ conns[c].maker = e \/ conns[c].state # "connecting"} IN
    /\ device' = [device EXCEPT ![e] = "gone"]
    /\ conns' = [c \in Conns |->
                    IF c \in mine
                    THEN [conns[c] EXCEPT
                            !.closed = @ \cup {e}, !.to[e] = <<>>,
                            !.state = IF @ = "connecting" THEN "closed" ELSE @]
                    ELSE conns[c]]
    /\ dropped' = dropped \cup UNION {Hopeless(conns[c].to[e]) : c \in mine}
    /\ tcp_connections' = [tcp_connections EXCEPT ![e] = [a \in Addresses |-> 0]]
    /\ handlers' = [handlers EXCEPT ![e] = {}]

\* The other threads have left too.
Leave(e) ==
    /\ device[e] = "leaving"
    /\ Gone(e)
    /\ UNCHANGED <<tunnel, stops>>

Stop(e) ==
    /\ device[e] = "running"
    /\ stops < MaxStops
    /\ stops' = stops + 1
    /\ Gone(e)
    /\ UNCHANGED tunnel

\* Its owner starts it again, with a new Tunn.
Start(e) ==
    /\ device[e] = "gone"
    /\ device' = [device EXCEPT ![e] = "running"]
    /\ tunn' = [tunn EXCEPT ![e] = NewTunn]
    /\ heard' = [heard EXCEPT ![e] = 0]
    /\ UNCHANGED <<submitted, used, derived, links, stops, dropped>>

Stream(e, c) ==
    \/ StreamRead(e, c) \/ TurnAway(e, c) \/ StreamEnds(e, c)
    \/ StreamBreaks(e, c) \/ StreamFails(e, c)

Next ==
    \/ \E e \in Endpoints :
        \/ \E p \in Packets : Encapsulate(e, p)
        \/ \E c \in Conns : Stream(e, c) \/ Accept(e, c)
        \/ Leave(e) \/ Stop(e) \/ Start(e)
    \/ \E c \in Conns : ConnectDone(c)

Spec == Init /\ [][Next]_vars

-----------------------------------------------------------------------------
(* Properties.                                                             *)

\* While a device runs, what the handler of a stream answers goes out on that
\* stream, although it is sent to an address and entries are removed by address:
\* on no other connection, and never on a new one to the port the other end
\* connected from.  The exception is a stream that was accepted when its descriptor
\* could not be duplicated.
AnswersStay ==
    \A e \in Endpoints : device[e] = "running" =>
        \A c \in handlers[e] :
            conns[c].maker = e \/ conns[c].accepted = "listed" =>
                tcp_connections[e][Address(e, c)] = c

InitsOnStreams ==
    {m.eph : m \in {n \in UNION {ToSet(conns[c].to[e]) : c \in Conns, e \in Endpoints} :
                        n.type = "init"}}

AnswersTo(e) ==
    {m.answers : m \in {n \in UNION {ToSet(conns[c].to[e]) : c \in Conns} :
                        n.type = "response"}}

\* Packets wait with a handshake that is answered in the end, unless a message
\* of it was turned away under load, or was written to a connection that was not
\* established, broke or could not be made.  No crossing of handshakes, no
\* stopping of the peer and no reading order leaves a queue behind that only a
\* timer could rescue, in a mode without timers.
StuckByLossOrLoad ==
    \A e \in Endpoints :
        Active(e) /\ tunn[e].packet_queue # <<>> =>
            /\ InProgress(tunn[e])
            /\ tunn[e].state.eph \in InitsOnStreams \cup AnswersTo(e) \cup dropped

-----------------------------------------------------------------------------
(* What comments of the code say and the code does not do.                 *)

\* "Do NOT trigger exit", of the end of a stream.
StreamEndKeepsDevice ==
    \A e \in Endpoints : device[e] # "leaving"
==============================================================================
