------------------------------ MODULE TunnState ------------------------------
(***************************************************************************)
(* The state of a tunnel endpoint, a Tunn (noise/mod.rs,                   *)
(* noise/handshake.rs), and what its operations do to it, as functions of  *)
(* the state: the handshake, the ring of sessions, the queue of packets    *)
(* waiting for a session.  Modules Tunn and TcpTransport put two of them   *)
(* on a datagram network and on TCP streams.                               *)
(*                                                                         *)
(* Cryptography is symbolic: an ephemeral key is a number drawn once, a    *)
(* session key is the pair of the initiator's and the responder's          *)
(* ephemeral, and a message opens only under the key it was sealed with.   *)
(***************************************************************************)
EXTENDS Integers, Sequences, SequencesExt, FiniteSets

CONSTANTS
    A, B,               \* the two endpoints
    N_SESSIONS,         \* slots of the session ring (8)
    N_INDICES,          \* session indices of a peer before they repeat (256)
    MAX_QUEUE_DEPTH,    \* packets kept while there is no session (256)
    REJECT_AFTER,       \* timer calls after which a session is dropped
    Packets,            \* the packets each endpoint may have to send
    MaxEphemerals       \* bound: ephemeral keys available

ASSUME TunnAssumption ==
    /\ A # B
    /\ N_SESSIONS \in Nat \ {0}
    /\ N_INDICES \in Nat \ {0}
    /\ N_INDICES % N_SESSIONS = 0
    /\ MAX_QUEUE_DEPTH \in Nat \ {0}
    /\ REJECT_AFTER \in Nat
    /\ MaxEphemerals \in Nat

Endpoints == {A, B}

Peer(e) == IF e = A THEN B ELSE A

Slots == 0..(N_SESSIONS - 1)

Slot(index) == index % N_SESSIONS

\* A peer's indices share their upper 24 bits; N_INDICES stands for them.
Indices == N_INDICES..(2 * N_INDICES - 1)

Ephemerals == 1..MaxEphemerals

KeepAlive == "keepalive"

Payloads == Packets \cup {KeepAlive}

\* A keepalive is empty, and no packet read from the tun device is.
ASSUME PacketsAssumption == KeepAlive \notin Packets

-----------------------------------------------------------------------------
(* Data.                                                                   *)

Key == Ephemerals \X Ephemerals

None == [tag |-> "None", index |-> 0, eph |-> 0]
Expired == [tag |-> "Expired", index |-> 0, eph |-> 0]
InitSent(index, eph) == [tag |-> "InitSent", index |-> index, eph |-> eph]

HandshakeState ==
    {None, Expired} \cup [tag : {"InitSent"}, index : Indices, eph : Ephemerals]

\* initiator: which half of the key is the sending one.
SessionType ==
    [local : Indices, peer : Indices, key : Key, initiator : BOOLEAN]

NoSession ==
    [local |-> 0, peer |-> 0, key |-> <<0, 0>>, initiator |-> FALSE]

TunnType ==
    [state : HandshakeState,
     previous : HandshakeState,
     next_index : Indices,
     sessions : [Slots -> SessionType \cup {NoSession}],
     session_age : [Slots -> 0..REJECT_AFTER],
     current : Indices \cup {0},
     packet_queue : Seq(Payloads),
     is_initiator : BOOLEAN]

\* stale: its TAI64N timestamp is not after the last one the receiver accepted.
InitMsg(index, eph) ==
    [type |-> "init", sender |-> index, eph |-> eph, stale |-> FALSE]

\* answers is the ephemeral of the initiation it answers; a response opens only
\* with the private half of that one.
ResponseMsg(sender, receiver, answers, eph) ==
    [type |-> "response", sender |-> sender, receiver |-> receiver,
     answers |-> answers, eph |-> eph]

DataMsg(receiver, key, payload) ==
    [type |-> "data", receiver |-> receiver, key |-> key, payload |-> payload]

Message ==
    [type : {"init"}, sender : Indices, eph : Ephemerals, stale : BOOLEAN]
    \cup [type : {"response"}, sender : Indices, receiver : Indices,
          answers : Ephemerals, eph : Ephemerals]
    \cup [type : {"data"}, receiver : Indices, key : Key, payload : Payloads]

NewTunn ==
    [state |-> None, previous |-> None,
     next_index |-> N_INDICES,
     sessions |-> [i \in Slots |-> NoSession],
     session_age |-> [i \in Slots |-> 0],
     current |-> 0,
     packet_queue |-> <<>>,
     is_initiator |-> FALSE]

-----------------------------------------------------------------------------
(* The parts of a Tunn, as functions of its state t.  Those that produce    *)
(* messages return the new state and the messages in the order of sending.  *)

Result(t, out) == [tunn |-> t, out |-> out]

InProgress(t) == t.state.tag = "InitSent"

CurrentSession(t) == t.sessions[Slot(t.current)]

\* Mutant: the upper bits of the index are lost.
IncIndexBare(index) == (index + 1) % N_INDICES

IncIndex(index) == N_INDICES + ((index + 1 - N_INDICES) % N_INDICES)

\* Handshake::format_handshake_initiation.
StartHandshake(t, k) ==
    LET i == IncIndex(t.next_index) IN
    Result([t EXCEPT !.next_index = i,
                     !.previous = t.state,
                     !.state = InitSent(i, k)],
           <<InitMsg(i, k)>>)

\* Tunn::format_handshake_initiation without force_resend.
StartIfIdle(t, k) == IF InProgress(t) THEN Result(t, <<>>) ELSE StartHandshake(t, k)

\* Mutant: a full queue drops its oldest packet.
QueuePacketDropping(t, p) ==
    IF Len(t.packet_queue) < MAX_QUEUE_DEPTH
    THEN [t EXCEPT !.packet_queue = Append(@, p)]
    ELSE [t EXCEPT !.packet_queue = Append(Tail(@), p)]

QueuePacket(t, p) ==
    IF Len(t.packet_queue) < MAX_QUEUE_DEPTH
    THEN [t EXCEPT !.packet_queue = Append(@, p)]
    ELSE t

Seal(s, p) == DataMsg(s.peer, s.key, p)

\* Tunn::encapsulate.
Encapsulated(t, p, k) ==
    IF CurrentSession(t) # NoSession
    THEN Result(t, <<Seal(CurrentSession(t), p)>>)
    ELSE StartIfIdle(QueuePacket(t, p), k)

\* Mutant: the packet stays in the queue while it is sent.
SendQueuedKeeping(t, k) == Encapsulated(t, Head(t.packet_queue), k)

\* Tunn::send_queued_packet, for a queue that is not empty.
SendQueued(t, k) ==
    Encapsulated([t EXCEPT !.packet_queue = Tail(@)], Head(t.packet_queue), k)

\* The loop of the socket handlers that calls decapsulate with an empty
\* datagram until it has nothing to send.  With a session it empties the queue.
\* Without one every call puts its packet back at the end; the first may start
\* a handshake, and then the second finds it in progress and ends the loop.
Flushed(t, k) ==
    IF t.packet_queue = <<>> THEN Result(t, <<>>)
    ELSE IF CurrentSession(t) # NoSession
    THEN Result([t EXCEPT !.packet_queue = <<>>],
                [i \in DOMAIN t.packet_queue |->
                    Seal(CurrentSession(t), t.packet_queue[i])])
    ELSE LET first == SendQueued(t, k) IN
         IF first.out = <<>> THEN first
         ELSE Result(SendQueued(first.tunn, k).tunn, first.out)

\* Mutant: the handler does not call again.
ThenStop(r, k) == r

\* Send the messages of r, then whatever the flush loop sends.
ThenFlush(r, k) ==
    LET f == Flushed(r.tunn, k) IN Result(f.tunn, r.out \o f.out)

\* Tunn::set_current_session: a session becomes current unless it is older
\* than the current one.
SetCurrent(t, index) ==
    IF \/ CurrentSession(t) = NoSession
       \/ t.session_age[Slot(index)] <= t.session_age[Slot(t.current)]
    THEN [t EXCEPT !.current = index]
    ELSE t

\* Mutant: a responder uses its new session at once.
StoreAndUse(t, s) ==
    [t EXCEPT !.sessions[Slot(s.local)] = s,
              !.session_age[Slot(s.local)] = 0,
              !.current = s.local,
              !.is_initiator = s.initiator]

\* Store a session in the ring; timer_tick_session_established.
StoreSession(t, s) ==
    [t EXCEPT !.sessions[Slot(s.local)] = s,
              !.session_age[Slot(s.local)] = 0,
              !.is_initiator = s.initiator]

\* Timers::update_session_timers.  The age of an empty slot is never read.
Aged(t) ==
    LET kept == {i \in Slots : /\ t.sessions[i] # NoSession
                               /\ t.session_age[i] < REJECT_AFTER} IN
    [t EXCEPT !.sessions = [i \in Slots |-> IF i \in kept THEN @[i] ELSE NoSession],
              !.session_age = [i \in Slots |-> IF i \in kept THEN @[i] + 1 ELSE 0]]

\* Mutant: an earlier initiation is still waited for.
SetExpiredOnce(t) == [t EXCEPT !.state = Expired]

SetExpired(t) == [t EXCEPT !.state = Expired, !.previous = Expired]

ClearAll(t) ==
    [t EXCEPT !.sessions = [i \in Slots |-> NoSession],
              !.session_age = [i \in Slots |-> 0],
              !.packet_queue = <<>>]

GivenUp(t) == ClearAll(SetExpired(t))

\* Mutant: the two indices of the session are exchanged.
RespondedCrossed(t, m, k) ==
    LET i == IncIndex(t.next_index)
        s == [local |-> m.sender, peer |-> i, key |-> <<m.eph, k>>,
              initiator |-> FALSE]
        u == [t EXCEPT !.next_index = i, !.previous = t.state, !.state = None]
    IN Result(StoreSession(u, s), <<ResponseMsg(i, m.sender, m.eph, k)>>)

\* Handshake::receive_handshake_initialization, format_handshake_response and
\* the rest of handle_handshake_init.
Responded(t, m, k) ==
    LET i == IncIndex(t.next_index)
        s == [local |-> i, peer |-> m.sender, key |-> <<m.eph, k>>,
              initiator |-> FALSE]
        u == [t EXCEPT !.next_index = i, !.previous = t.state, !.state = None]
    IN Result(StoreSession(u, s), <<ResponseMsg(i, m.sender, m.eph, k)>>)

\* The handshake that receive_handshake_response looks up by index.
IsSent(h, index) == h.tag = "InitSent" /\ h.index = index

Awaited(t, m) ==
    IF IsSent(t.state, m.receiver) THEN t.state
    ELSE IF IsSent(t.previous, m.receiver) THEN t.previous
    ELSE None

\* The response opens under the handshake it was looked up with.
Opens(t, m) == Awaited(t, m).tag = "InitSent" /\ Awaited(t, m).eph = m.answers

\* Mutant: the handshake is still waited for after its response.
StillAwaiting(t, m) == t

\* The handshake that was answered is over; another may still be under way.
Answered(t, m) ==
    IF IsSent(t.state, m.receiver)
    THEN [t EXCEPT !.state = None]
    ELSE [t EXCEPT !.previous = None]

\* Handshake::receive_handshake_response and the rest of
\* handle_handshake_response, which answers with a keepalive.
Established(t, m) ==
    LET s == [local |-> m.receiver, peer |-> m.sender,
              key |-> <<m.answers, m.eph>>, initiator |-> TRUE]
    IN Result(SetCurrent(StoreSession(Answered(t, m), s), s.local),
              <<Seal(s, KeepAlive)>>)

\* receive_packet_data finds the session of the message and opens it.
Reads(t, m) ==
    LET s == t.sessions[Slot(m.receiver)] IN
    s # NoSession /\ s.local = m.receiver /\ s.key = m.key

-----------------------------------------------------------------------------
(* What is in messages, and where ephemerals come from.                    *)

TimesSealed(out, p) ==
    Cardinality({i \in DOMAIN out : out[i].type = "data" /\ out[i].payload = p})

DrawnIn(out) == {out[i].eph : i \in {j \in DOMAIN out : out[j].type # "data"}}

\* Fresh ephemerals are as good as each other, so they are drawn in order; 0
\* stands for the one that is not there when the bound is reached.
Drawn(from) ==
    IF from = {} THEN {0} ELSE {k \in from : \A j \in from : k <= j}
==============================================================================
