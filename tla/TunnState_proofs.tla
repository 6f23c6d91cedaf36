--------------------------- MODULE TunnState_proofs ---------------------------
(***************************************************************************)
(* What the operations of a Tunn return, for every size of the ring and    *)
(* the queue, every set of packets and every number of ephemerals: a Tunn, *)
(* in an expired one nothing is left, packets wait only with a handshake,  *)
(* and none is lost or sealed twice.  Lemmas for Tunn and TcpTransport.    *)
(***************************************************************************)
EXTENDS TunnState, SequenceTheorems, FiniteSetTheorems, TLAPS

-----------------------------------------------------------------------------
(* Indices and slots.                                                      *)

\* An index has a slot in the ring (index % N_SESSIONS).
LEMMA SlotType == \A i \in Indices \cup {0} : Slot(i) \in Slots
BY TunnAssumption DEF Indices, Slot, Slots

\* inc_index stays among the peer's indices: the upper 24 bits are kept.
LEMMA IncIndexType == \A i \in Indices : IncIndex(i) \in Indices
BY TunnAssumption DEF Indices, IncIndex

\* An unused slot is told from every session: indices of sessions are positive.
LEMMA NoSessionIsNone == NoSession \notin SessionType
BY TunnAssumption DEF NoSession, SessionType, Indices

\* What CurrentSession yields.
LEMMA CurrentType ==
    ASSUME NEW t \in TunnType
    PROVE  CurrentSession(t) \in SessionType \cup {NoSession}
BY SlotType DEF TunnType, CurrentSession

\* The two ends are each other's peers.
LEMMA PeerType ==
    /\ \A e \in Endpoints : Peer(e) \in Endpoints /\ Peer(e) # e
BY TunnAssumption DEF Endpoints, Peer

-----------------------------------------------------------------------------
(* The parts of a Tunn.                                                    *)

\* An expired tunnel is clean, as ExpiredIsClean says of both ends.
Clean(t) ==
    t.state = Expired =>
        /\ t.previous = Expired
        /\ t.packet_queue = <<>>
        /\ \A i \in Slots : t.sessions[i] = NoSession

\* Waiting packets have a handshake, as QueueHasHandshake says of both ends.
Waiting(t) == t.packet_queue # <<>> => InProgress(t)

Good(t) == t \in TunnType /\ Clean(t) /\ Waiting(t)

\* What a step may send.
Sendable(out) == out \in Seq(Message)

NoData(out) == \A i \in DOMAIN out : out[i].type # "data"

\* The type of the handshake states.
LEMMA StateType ==
    /\ None \in HandshakeState /\ Expired \in HandshakeState
    /\ \A i \in Indices, k \in Ephemerals : InitSent(i, k) \in HandshakeState
    /\ \A i, k : InitSent(i, k).tag = "InitSent"
    /\ None # Expired /\ None.tag # "InitSent" /\ Expired.tag # "InitSent"
BY DEF None, Expired, InitSent, HandshakeState

\* format_handshake_initiation leaves a handshake in progress.
LEMMA StartHandshakeGood ==
    ASSUME NEW t \in TunnType, NEW k,
           DrawnIn(StartHandshake(t, k).out) \subseteq Ephemerals
    PROVE  LET r == StartHandshake(t, k) IN
           /\ r.tunn \in TunnType
           /\ InProgress(r.tunn)
           /\ r.tunn.sessions = t.sessions /\ r.tunn.current = t.current
           /\ r.tunn.packet_queue = t.packet_queue
           /\ Sendable(r.out)
           /\ r.out # <<>>
<1> DEFINE i == IncIndex(t.next_index)
<1>1. StartHandshake(t, k) =
        Result([t EXCEPT !.next_index = i, !.previous = t.state,
                         !.state = InitSent(i, k)], <<InitMsg(i, k)>>)
  BY DEF StartHandshake
<1>2. i \in Indices
  BY IncIndexType DEF TunnType
<1>3. k \in Ephemerals
  <2>1. DOMAIN <<InitMsg(i, k)>> = {1} /\ <<InitMsg(i, k)>>[1] = InitMsg(i, k)
    OBVIOUS
  <2>2. InitMsg(i, k).type # "data" /\ InitMsg(i, k).eph = k
    BY DEF InitMsg
  <2>3. k \in DrawnIn(<<InitMsg(i, k)>>)
    BY <2>1, <2>2 DEF DrawnIn
  <2> QED
    BY <1>1, <2>3 DEF Result
<1>4. InitMsg(i, k) \in Message
  BY <1>2, <1>3 DEF InitMsg, Message
<1>5. InitSent(i, k) \in HandshakeState /\ InitSent(i, k).tag = "InitSent"
  BY <1>2, <1>3, StateType
<1> DEFINE u == [t EXCEPT !.next_index = i, !.previous = t.state,
                          !.state = InitSent(i, k)]
<1>6. u \in TunnType
  BY <1>2, <1>5 DEF TunnType
<1>7. /\ u.state = InitSent(i, k)
      /\ u.sessions = t.sessions /\ u.current = t.current
      /\ u.packet_queue = t.packet_queue
  BY DEF TunnType
<1> HIDE DEF i, u
<1>8. <<InitMsg(i, k)>> \in Seq(Message) /\ <<InitMsg(i, k)>> # <<>>
  BY <1>4
<1>9. StartHandshake(t, k).tunn = u /\ StartHandshake(t, k).out = <<InitMsg(i, k)>>
  BY <1>1 DEF Result, u
<1> QED
  BY <1>5, <1>6, <1>7, <1>8, <1>9 DEF InProgress, Sendable

\* queue_packet keeps the type and everything but the queue.
LEMMA QueuePacketType ==
    ASSUME NEW t \in TunnType, NEW p \in Payloads
    PROVE  /\ QueuePacket(t, p) \in TunnType
           /\ QueuePacket(t, p).state = t.state
           /\ QueuePacket(t, p).previous = t.previous
           /\ QueuePacket(t, p).sessions = t.sessions
           /\ QueuePacket(t, p).current = t.current
           /\ QueuePacket(t, p).packet_queue # <<>>
<1>1. /\ Append(t.packet_queue, p) \in Seq(Payloads)
      /\ Append(t.packet_queue, p) # <<>>
  BY AppendProperties DEF TunnType
<1>2. CASE Len(t.packet_queue) < MAX_QUEUE_DEPTH
  BY <1>1, <1>2 DEF QueuePacket, TunnType
<1>3. CASE ~(Len(t.packet_queue) < MAX_QUEUE_DEPTH)
  <2>1. Len(t.packet_queue) # 0
    BY <1>3, TunnAssumption
  <2>2. t.packet_queue # <<>>
    BY <2>1
  <2> QED
    BY <1>3, <2>2 DEF QueuePacket
<1> QED
  BY <1>2, <1>3

\* What seals a packet is a data message.
LEMMA SealType ==
    ASSUME NEW s \in SessionType, NEW p \in Payloads
    PROVE  Seal(s, p) \in Message /\ Seal(s, p).type = "data"
BY DEF Seal, DataMsg, SessionType, Message

\* encapsulate sends under the current session or leaves a handshake in
\* progress, whatever the state it starts from.
LEMMA EncapsulatedGood ==
    ASSUME NEW t \in TunnType, NEW p \in Payloads, NEW k,
           DrawnIn(Encapsulated(t, p, k).out) \subseteq Ephemerals
    PROVE  LET r == Encapsulated(t, p, k) IN
           /\ r.tunn \in TunnType
           /\ Sendable(r.out)
           /\ CurrentSession(r.tunn) = CurrentSession(t)
           /\ CurrentSession(t) # NoSession => r.tunn = t
           /\ CurrentSession(t) = NoSession =>
                InProgress(r.tunn) /\ r.tunn.packet_queue # <<>>
           /\ CurrentSession(t) = NoSession /\ ~InProgress(t) => r.out # <<>>
           /\ CurrentSession(t) = NoSession /\ InProgress(t) => r.out = <<>>
<1>1. CASE CurrentSession(t) # NoSession
  <2>1. CurrentSession(t) \in SessionType
    BY <1>1, CurrentType
  <2>2. Seal(CurrentSession(t), p) \in Message
    BY <2>1, SealType
  <2>3. <<Seal(CurrentSession(t), p)>> \in Seq(Message)
    BY <2>2
  <2>4. Encapsulated(t, p, k) = Result(t, <<Seal(CurrentSession(t), p)>>)
    BY <1>1 DEF Encapsulated
  <2> QED
    BY <1>1, <2>3, <2>4 DEF Result, Sendable
<1>2. CASE CurrentSession(t) = NoSession
  <2> DEFINE q == QueuePacket(t, p)
  <2>1. q \in TunnType /\ q.state = t.state /\ q.packet_queue # <<>>
        /\ q.sessions = t.sessions /\ q.current = t.current
    BY QueuePacketType
  <2>2. Encapsulated(t, p, k) = StartIfIdle(q, k)
    BY <1>2 DEF Encapsulated
  <2>3. InProgress(q) <=> InProgress(t)
    BY <2>1 DEF InProgress
  <2>4. CurrentSession(q) = CurrentSession(t)
    BY <2>1 DEF CurrentSession
  <2> HIDE DEF q
  <2>5. CASE InProgress(q)
    <3>1. Encapsulated(t, p, k) = Result(q, <<>>)
      BY <2>2, <2>5 DEF StartIfIdle
    <3>2. <<>> \in Seq(Message)
      OBVIOUS
    <3> QED
      BY <1>2, <2>1, <2>3, <2>4, <2>5, <3>1, <3>2 DEF Result, Sendable
  <2>6. CASE ~InProgress(q)
    <3>1. Encapsulated(t, p, k) = StartHandshake(q, k)
      BY <2>2, <2>6 DEF StartIfIdle
    <3> DEFINE r == StartHandshake(q, k)
    <3>2. /\ r.tunn \in TunnType /\ InProgress(r.tunn)
          /\ r.tunn.sessions = q.sessions /\ r.tunn.current = q.current
          /\ r.tunn.packet_queue = q.packet_queue
          /\ Sendable(r.out) /\ r.out # <<>>
      BY <2>1, <3>1, StartHandshakeGood
    <3>3. CurrentSession(r.tunn) = CurrentSession(q)
      BY <3>2 DEF CurrentSession
    <3> HIDE DEF r
    <3> QED
      BY <1>2, <2>1, <2>3, <2>4, <2>6, <3>1, <3>2, <3>3 DEF r
  <2> QED
    BY <2>5, <2>6
<1> QED
  BY <1>1, <1>2

\* send_queued_packet is encapsulate on the rest of the queue.
LEMMA TailType ==
    ASSUME NEW t \in TunnType, t.packet_queue # <<>>
    PROVE  LET u == [t EXCEPT !.packet_queue = Tail(@)] IN
           /\ u \in TunnType
           /\ u.state = t.state /\ u.previous = t.previous
           /\ u.sessions = t.sessions /\ u.current = t.current
           /\ Head(t.packet_queue) \in Payloads
<1>1. Head(t.packet_queue) \in Payloads /\ Tail(t.packet_queue) \in Seq(Payloads)
  BY HeadTailProperties DEF TunnType
<1> QED
  BY <1>1 DEF TunnType

\* The flush loop leaves no packet waiting without a handshake, whatever the
\* state it starts from: this is why QueueHasHandshake survives an initiation of
\* the peer, which ends the handshake in progress.
LEMMA FlushedGood ==
    ASSUME NEW t \in TunnType, NEW k,
           DrawnIn(Flushed(t, k).out) \subseteq Ephemerals
    PROVE  LET r == Flushed(t, k) IN
           /\ r.tunn \in TunnType
           /\ Waiting(r.tunn)
           /\ t.state # Expired => r.tunn.state # Expired
           /\ Sendable(r.out)
<1>1. CASE t.packet_queue = <<>>
  <2>1. Flushed(t, k) = Result(t, <<>>)
    BY <1>1 DEF Flushed
  <2> QED
    BY <1>1, <2>1 DEF Result, Waiting, Sendable
<1>2. CASE t.packet_queue # <<>> /\ CurrentSession(t) # NoSession
  <2> DEFINE s == CurrentSession(t)
             u == [t EXCEPT !.packet_queue = <<>>]
             out == [i \in DOMAIN t.packet_queue |-> Seal(s, t.packet_queue[i])]
  <2>1. Flushed(t, k) = Result(u, out)
    BY <1>2 DEF Flushed
  <2>2. u \in TunnType /\ u.state = t.state /\ u.packet_queue = <<>>
    <3>1. <<>> \in Seq(Payloads)
      BY EmptySeq
    <3> QED
      BY <3>1 DEF TunnType
  <2>3. s \in SessionType
    BY <1>2, CurrentType
  <2>4. t.packet_queue \in Seq(Payloads)
    BY DEF TunnType
  <2>5. \A i \in DOMAIN t.packet_queue : Seal(s, t.packet_queue[i]) \in Message
    BY <2>3, <2>4, SealType, ElementOfSeq, LenProperties
  <2>6. DOMAIN t.packet_queue = 1..Len(t.packet_queue) /\ Len(t.packet_queue) \in Nat
    BY <2>4, LenProperties
  <2> HIDE DEF s, u
  <2>7. out \in Seq(Message)
    BY <2>5, <2>6
  <2> HIDE DEF out
  <2> QED
    BY <2>1, <2>2, <2>7 DEF Result, Waiting, Sendable
<1>3. CASE t.packet_queue # <<>> /\ CurrentSession(t) = NoSession
  <2> DEFINE u == [t EXCEPT !.packet_queue = Tail(@)]
             p == Head(t.packet_queue)
             first == SendQueued(t, k)
  <2>1. u \in TunnType /\ p \in Payloads /\ CurrentSession(u) = NoSession
        /\ u.state = t.state
    BY <1>3, TailType DEF CurrentSession
  <2>2. first = Encapsulated(u, p, k)
    BY DEF SendQueued
  <2>3. Flushed(t, k) = IF first.out = <<>> THEN first
                        ELSE Result(SendQueued(first.tunn, k).tunn, first.out)
    BY <1>3 DEF Flushed
  <2>4. Flushed(t, k).out = first.out
    BY <2>3 DEF Result
  <2> HIDE DEF u, p, first
  <2>5. /\ first.tunn \in TunnType /\ Sendable(first.out)
        /\ InProgress(first.tunn) /\ CurrentSession(first.tunn) = NoSession
    BY <2>1, <2>2, <2>4, EncapsulatedGood
  <2>6. CASE first.out = <<>>
    <3>1. Flushed(t, k) = first
      BY <2>3, <2>6
    <3> QED
      BY <2>5, <3>1, StateType DEF Waiting, InProgress
  <2>7. CASE first.out # <<>> /\ first.tunn.packet_queue # <<>>
    <3> DEFINE v == [first.tunn EXCEPT !.packet_queue = Tail(@)]
               w == Encapsulated(v, Head(first.tunn.packet_queue), k)
    <3>1. v \in TunnType /\ Head(first.tunn.packet_queue) \in Payloads
          /\ CurrentSession(v) = NoSession /\ InProgress(v)
      BY <2>5, <2>7, TailType DEF CurrentSession, InProgress
    <3>2. Flushed(t, k) = Result(w.tunn, first.out)
      BY <2>3, <2>7 DEF SendQueued
    <3> HIDE DEF v
    <3>3. w = Result(QueuePacket(v, Head(first.tunn.packet_queue)), <<>>)
      <4>1. InProgress(QueuePacket(v, Head(first.tunn.packet_queue)))
        BY <3>1, QueuePacketType DEF InProgress
      <4> QED
        BY <3>1, <4>1 DEF Encapsulated, StartIfIdle
    <3>4. DrawnIn(w.out) \subseteq Ephemerals
      BY <3>3 DEF Result, DrawnIn
    <3>5. w.tunn \in TunnType /\ InProgress(w.tunn)
      BY <3>1, <3>4, EncapsulatedGood
    <3> HIDE DEF w
    <3> QED
      BY <2>5, <3>2, <3>5, StateType DEF Result, Waiting, InProgress
  <2>8. first.tunn.packet_queue # <<>>
    BY <2>1, <2>2, <2>4, EncapsulatedGood
  <2> QED
    BY <2>6, <2>7, <2>8
<1> QED
  BY <1>1, <1>2, <1>3

-----------------------------------------------------------------------------
(* The handlers, and update_timers.                                        *)

\* What a handler leaves behind and sends.
GoodResult(r) == Good(r.tunn) /\ Sendable(r.out)

\* What the flush loop sends, before it is known that k was there to be drawn.
Flushable(k) == Message \cup {InitMsg(i, k) : i \in Indices}

\* The flush loop sends a sequence.
LEMMA FlushedSeq ==
    ASSUME NEW t \in TunnType, NEW k
    PROVE  Flushed(t, k).out \in Seq(Flushable(k))
<1> DEFINE S == Flushable(k)
<1>1. Message \subseteq S /\ \A i \in Indices : InitMsg(i, k) \in S
  BY DEF Flushable
<1>0. Flushable(k) = S
  OBVIOUS
<1> HIDE DEF S
<1>2. <<>> \in Seq(S)
  BY EmptySeq
<1>3. CASE t.packet_queue = <<>>
  BY <1>0, <1>2, <1>3 DEF Flushed, Result
<1>4. CASE t.packet_queue # <<>> /\ CurrentSession(t) # NoSession
  <2> DEFINE s == CurrentSession(t)
             out == [i \in DOMAIN t.packet_queue |-> Seal(s, t.packet_queue[i])]
  <2>1. Flushed(t, k).out = out
    BY <1>4 DEF Flushed, Result
  <2>2. s \in SessionType
    BY <1>4, CurrentType
  <2>3. t.packet_queue \in Seq(Payloads)
    BY DEF TunnType
  <2>4. \A i \in DOMAIN t.packet_queue : Seal(s, t.packet_queue[i]) \in S
    BY <1>1, <2>2, <2>3, SealType, ElementOfSeq, LenProperties
  <2>5. DOMAIN t.packet_queue = 1..Len(t.packet_queue) /\ Len(t.packet_queue) \in Nat
    BY <2>3, LenProperties
  <2> HIDE DEF s
  <2>6. out \in Seq(S)
    BY <2>4, <2>5
  <2> HIDE DEF out
  <2> QED
    BY <1>0, <2>1, <2>6
<1>5. CASE t.packet_queue # <<>> /\ CurrentSession(t) = NoSession
  <2> DEFINE u == [t EXCEPT !.packet_queue = Tail(@)]
             q == QueuePacket(u, Head(t.packet_queue))
             first == SendQueued(t, k)
  <2>1. u \in TunnType /\ Head(t.packet_queue) \in Payloads /\ CurrentSession(u) = NoSession
    BY <1>5, TailType DEF CurrentSession
  <2>2. Flushed(t, k).out = first.out
    BY <1>5 DEF Flushed, Result
  <2>3. q \in TunnType
    BY <2>1, QueuePacketType
  <2>4. first = StartIfIdle(q, k)
    BY <2>1 DEF SendQueued, Encapsulated
  <2> HIDE DEF u, q, first
  <2>5. IncIndex(q.next_index) \in Indices
    BY <2>3, IncIndexType DEF TunnType
  <2>6. <<InitMsg(IncIndex(q.next_index), k)>> \in Seq(S)
    BY <1>1, <2>5
  <2> QED
    BY <1>0, <1>2, <2>2, <2>4, <2>6 DEF StartIfIdle, StartHandshake, Result
<1> QED
  BY <1>3, <1>4, <1>5

\* Both parts of what a handler sends draw ephemerals that were there.
LEMMA DrawnInConcat ==
    ASSUME NEW S, NEW x \in Seq(S), NEW y \in Seq(S),
           DrawnIn(x \o y) \subseteq Ephemerals
    PROVE  DrawnIn(x) \subseteq Ephemerals /\ DrawnIn(y) \subseteq Ephemerals
<1> DEFINE z == x \o y
<1>1. /\ z \in Seq(S) /\ Len(z) = Len(x) + Len(y)
      /\ \A i \in 1..Len(x) + Len(y) :
            z[i] = IF i <= Len(x) THEN x[i] ELSE y[i - Len(x)]
  BY ConcatProperties
<1>2. /\ DOMAIN x = 1..Len(x) /\ DOMAIN y = 1..Len(y)
      /\ Len(x) \in Nat /\ Len(y) \in Nat
  BY LenProperties
<1>3. DOMAIN z = 1..Len(z)
  BY <1>1, LenProperties
<1>4. \A i \in DOMAIN z : z[i].type # "data" => z[i].eph \in Ephemerals
  BY DEF DrawnIn
<1> HIDE DEF z
<1>5. \A i \in DOMAIN x : i \in DOMAIN z /\ z[i] = x[i]
  BY <1>1, <1>2, <1>3
<1>6. \A i \in DOMAIN y : i + Len(x) \in DOMAIN z /\ z[i + Len(x)] = y[i]
  BY <1>1, <1>2, <1>3
<1>7. \A i \in DOMAIN x : x[i].type # "data" => x[i].eph \in Ephemerals
  BY <1>4, <1>5
<1>8. \A i \in DOMAIN y : y[i].type # "data" => y[i].eph \in Ephemerals
  BY <1>4, <1>6
<1> QED
  BY <1>7, <1>8 DEF DrawnIn

\* A handler that leaves a tunnel that has not expired may leave packets
\* waiting: the flush loop that follows takes care of them.
LEMMA ThenFlushGood ==
    ASSUME NEW r, NEW k, r.tunn \in TunnType, r.tunn.state # Expired,
           Sendable(r.out),
           DrawnIn(Flushed(r.tunn, k).out) \subseteq Ephemerals
    PROVE  GoodResult(ThenFlush(r, k))
<1> DEFINE f == Flushed(r.tunn, k)
<1>1. /\ f.tunn \in TunnType /\ Waiting(f.tunn) /\ f.tunn.state # Expired
      /\ Sendable(f.out)
  BY FlushedGood
<1>2. ThenFlush(r, k) = Result(f.tunn, r.out \o f.out)
  BY DEF ThenFlush
<1> HIDE DEF f
<1>3. r.out \o f.out \in Seq(Message)
  BY <1>1, ConcatProperties DEF Sendable
<1> QED
  BY <1>1, <1>2, <1>3 DEF GoodResult, Good, Clean, Result, Sendable

\* An answer and what the flush loop sends after it.
LEMMA AnswerFlushed ==
    ASSUME NEW r, NEW k, r.tunn \in TunnType, r.tunn.state # Expired, r.out \in Seq(Message),
           DrawnIn(ThenFlush(r, k).out) \subseteq Ephemerals
    PROVE  DrawnIn(Flushed(r.tunn, k).out) \subseteq Ephemerals /\ GoodResult(ThenFlush(r, k))
<1> DEFINE f == Flushed(r.tunn, k)
<1>1. f.out \in Seq(Flushable(k))
  BY FlushedSeq
<1>2. r.out \in Seq(Flushable(k))
  <2>1. Message \subseteq Flushable(k)
    BY DEF Flushable
  <2> QED
    BY <2>1, SeqMonotonic
<1>3. DrawnIn(r.out \o f.out) \subseteq Ephemerals
  BY DEF ThenFlush, Result
<1> HIDE DEF f
<1>4. DrawnIn(f.out) \subseteq Ephemerals
  BY <1>1, <1>2, <1>3, DrawnInConcat
<1> QED
  BY <1>4, ThenFlushGood DEF Sendable, f

\* Storing a session keeps the type and everything but the ring.
LEMMA StoreSessionType ==
    ASSUME NEW t \in TunnType, NEW s \in SessionType
    PROVE  /\ StoreSession(t, s) \in TunnType
           /\ StoreSession(t, s).state = t.state
           /\ StoreSession(t, s).previous = t.previous
           /\ StoreSession(t, s).packet_queue = t.packet_queue
<1>1. Slot(s.local) \in Slots /\ s.initiator \in BOOLEAN
  BY SlotType DEF SessionType
<1>2. 0 \in 0..REJECT_AFTER
  BY TunnAssumption
<1> QED
  BY <1>1, <1>2 DEF StoreSession, TunnType

\* set_current_session changes the current index only.
LEMMA SetCurrentType ==
    ASSUME NEW t \in TunnType, NEW index \in Indices
    PROVE  /\ SetCurrent(t, index) \in TunnType
           /\ SetCurrent(t, index).state = t.state
           /\ SetCurrent(t, index).previous = t.previous
           /\ SetCurrent(t, index).sessions = t.sessions
           /\ SetCurrent(t, index).packet_queue = t.packet_queue
BY DEF SetCurrent, TunnType

\* A responder's session and its response.
Responds(t, r) ==
    /\ r.tunn \in TunnType /\ r.tunn.state # Expired
    /\ r.tunn.packet_queue = t.packet_queue
    /\ r.out \in Seq(Message) /\ NoData(r.out)

LEMMA RespondedType ==
    ASSUME NEW t \in TunnType, NEW m \in Message, m.type = "init", NEW k \in Ephemerals
    PROVE  Responds(t, Responded(t, m, k)) /\ <<m.eph, k>> \in Key
<1> DEFINE i == IncIndex(t.next_index)
           s == [local |-> i, peer |-> m.sender, key |-> <<m.eph, k>>,
                 initiator |-> FALSE]
           u == [t EXCEPT !.next_index = i, !.previous = t.state, !.state = None]
           x == ResponseMsg(i, m.sender, m.eph, k)
           r == Responded(t, m, k)
<1>1. r = Result(StoreSession(u, s), <<x>>)
  BY DEF Responded
<1>2. i \in Indices
  BY IncIndexType DEF TunnType
<1>3. m.sender \in Indices /\ m.eph \in Ephemerals
  BY DEF Message
<1>4. u \in TunnType /\ u.state = None /\ u.packet_queue = t.packet_queue
  BY <1>2, StateType DEF TunnType
<1>5. s \in SessionType /\ <<m.eph, k>> \in Key
  BY <1>2, <1>3 DEF SessionType, Key
<1>6. x \in Message /\ x.type = "response"
  BY <1>2, <1>3 DEF ResponseMsg, Message
<1> HIDE DEF u, s, x
<1>7. r.tunn = StoreSession(u, s) /\ r.out = <<x>>
  BY <1>1 DEF Result
<1>8. /\ r.tunn \in TunnType /\ r.tunn.state # Expired
      /\ r.tunn.packet_queue = t.packet_queue
  BY <1>4, <1>5, <1>7, StoreSessionType, StateType
<1>9. r.out \in Seq(Message) /\ NoData(r.out)
  BY <1>6, <1>7 DEF NoData
<1> HIDE DEF r
<1> QED
  BY <1>5, <1>8, <1>9 DEF Responds, r

\* handle_handshake_init, whatever the state it is called in.
LEMMA RespondedGood ==
    ASSUME NEW t \in TunnType, NEW m \in Message, m.type = "init",
           NEW k1 \in Ephemerals, NEW k2,
           DrawnIn(ThenFlush(Responded(t, m, k1), k2).out) \subseteq Ephemerals
    PROVE  /\ GoodResult(ThenFlush(Responded(t, m, k1), k2))
           /\ <<m.eph, k1>> \in Key
<1> DEFINE r == Responded(t, m, k1)
<1>1. Responds(t, r) /\ <<m.eph, k1>> \in Key
  BY RespondedType
<1> HIDE DEF r
<1>2. GoodResult(ThenFlush(r, k2))
  BY <1>1, AnswerFlushed DEF Responds, r
<1> QED
  BY <1>1, <1>2 DEF r

\* An initiator's session and the keepalive that tells the responder of it: only
\* a tunnel with a handshake under way accepts a response, so an expired one
\* stays expired.
Establishes(t, r) ==
    /\ r.tunn \in TunnType /\ r.tunn.state # Expired
    /\ r.tunn.packet_queue = t.packet_queue
    /\ r.out \in Seq(Message)
    /\ \E s : r.out = <<Seal(s, KeepAlive)>>

LEMMA EstablishedType ==
    ASSUME NEW t \in TunnType, Clean(t), NEW m \in Message, m.type = "response", Opens(t, m)
    PROVE  Establishes(t, Established(t, m)) /\ <<m.answers, m.eph>> \in Key
<1> DEFINE s == [local |-> m.receiver, peer |-> m.sender,
                 key |-> <<m.answers, m.eph>>, initiator |-> TRUE]
           u == Answered(t, m)
           x == Seal(s, KeepAlive)
           r == Established(t, m)
<1>1. /\ m.receiver \in Indices /\ m.sender \in Indices
      /\ m.answers \in Ephemerals /\ m.eph \in Ephemerals
  BY DEF Message
<1>2. s \in SessionType /\ s.local = m.receiver /\ <<m.answers, m.eph>> \in Key
  BY <1>1 DEF SessionType, Key
<1>3. x \in Message
  BY <1>2, SealType DEF Payloads
<1>4. u \in TunnType /\ u.state # Expired /\ u.packet_queue = t.packet_queue
  <2>1. CASE IsSent(t.state, m.receiver)
    BY <2>1, StateType DEF Answered, TunnType
  <2>2. CASE ~IsSent(t.state, m.receiver)
    <3>1. t.previous.tag = "InitSent"
      BY <2>2, StateType DEF Opens, Awaited, IsSent
    <3>2. t.state # Expired
      BY <3>1, StateType DEF Clean
    <3> QED
      BY <2>2, <3>2, StateType DEF Answered, TunnType
  <2> QED
    BY <2>1, <2>2
<1>5. r = Result(SetCurrent(StoreSession(u, s), m.receiver), <<x>>)
  BY <1>2 DEF Established
<1> HIDE DEF u, s, r
<1> DEFINE v == StoreSession(u, s)
<1>6. v \in TunnType /\ v.state # Expired /\ v.packet_queue = t.packet_queue
  BY <1>2, <1>4, StoreSessionType
<1>7. r.tunn = SetCurrent(v, m.receiver) /\ r.out = <<x>>
  BY <1>5 DEF Result
<1> HIDE DEF v
<1>8. /\ r.tunn \in TunnType /\ r.tunn.state # Expired
      /\ r.tunn.packet_queue = t.packet_queue
  BY <1>1, <1>6, <1>7, SetCurrentType
<1>9. r.out \in Seq(Message) /\ \E y : r.out = <<Seal(y, KeepAlive)>>
  BY <1>3, <1>7
<1> QED
  BY <1>2, <1>8, <1>9 DEF Establishes, r

\* handle_handshake_response and the flush loop after it.
LEMMA EstablishedGood ==
    ASSUME NEW t, Good(t), NEW m \in Message, m.type = "response", NEW k,
           Opens(t, m),
           DrawnIn(ThenFlush(Established(t, m), k).out) \subseteq Ephemerals
    PROVE  /\ GoodResult(ThenFlush(Established(t, m), k))
           /\ <<m.answers, m.eph>> \in Key
<1> DEFINE r == Established(t, m)
<1>1. Establishes(t, r) /\ <<m.answers, m.eph>> \in Key
  BY EstablishedType DEF Good
<1> HIDE DEF r
<1>2. GoodResult(ThenFlush(r, k))
  BY <1>1, AnswerFlushed DEF Establishes, r
<1> QED
  BY <1>1, <1>2 DEF r

\* update_session_timers.
LEMMA AgedGood ==
    ASSUME NEW t, Good(t)
    PROVE  /\ Good(Aged(t))
           /\ Aged(t).state = t.state
           /\ Aged(t).packet_queue = t.packet_queue
<1> DEFINE kept == {i \in Slots : /\ t.sessions[i] # NoSession
                                  /\ t.session_age[i] < REJECT_AFTER}
<1>1. Aged(t) =
        [t EXCEPT
            !.sessions = [i \in Slots |-> IF i \in kept THEN @[i] ELSE NoSession],
            !.session_age = [i \in Slots |-> IF i \in kept THEN @[i] + 1 ELSE 0]]
  BY DEF Aged
<1>2. t \in TunnType
  BY DEF Good
<1>3. [i \in Slots |-> IF i \in kept THEN t.sessions[i] ELSE NoSession]
        \in [Slots -> SessionType \cup {NoSession}]
  BY <1>2 DEF TunnType
<1>4. [i \in Slots |-> IF i \in kept THEN t.session_age[i] + 1 ELSE 0]
        \in [Slots -> 0..REJECT_AFTER]
  BY <1>2, TunnAssumption DEF TunnType
<1> HIDE DEF kept
<1>5. Aged(t) \in TunnType
  BY <1>1, <1>2, <1>3, <1>4 DEF TunnType
<1>6. /\ Aged(t).state = t.state /\ Aged(t).previous = t.previous
      /\ Aged(t).packet_queue = t.packet_queue
      /\ Aged(t).sessions = [i \in Slots |-> IF i \in kept THEN t.sessions[i] ELSE NoSession]
  BY <1>1, <1>2 DEF TunnType
<1> QED
  BY <1>5, <1>6 DEF Good, Clean, Waiting, InProgress

\* ConnectionExpired: set_expired and clear_all leave a clean tunnel.
LEMMA GivenUpGood ==
    ASSUME NEW t \in TunnType
    PROVE  Good(GivenUp(t))
<1> DEFINE u == SetExpired(t)
<1>1. u \in TunnType /\ u.state = Expired /\ u.previous = Expired
  BY StateType DEF SetExpired, TunnType
<1> HIDE DEF u
<1>2. /\ [i \in Slots |-> NoSession] \in [Slots -> SessionType \cup {NoSession}]
      /\ [i \in Slots |-> 0] \in [Slots -> 0..REJECT_AFTER]
      /\ <<>> \in Seq(Payloads)
  BY TunnAssumption, EmptySeq
<1>3. ClearAll(u) \in TunnType
  BY <1>1, <1>2 DEF ClearAll, TunnType
<1>4. /\ ClearAll(u).state = Expired /\ ClearAll(u).previous = Expired
      /\ ClearAll(u).packet_queue = <<>>
      /\ ClearAll(u).sessions = [i \in Slots |-> NoSession]
  BY <1>1 DEF ClearAll, TunnType
<1> QED
  BY <1>3, <1>4 DEF GivenUp, u, Good, Clean, Waiting

\* The tunnel of Tunn::new.
LEMMA NewTunnGood == Good(NewTunn)
<1>1. /\ N_INDICES \in Indices /\ 0 \in 0..REJECT_AFTER
      /\ <<>> \in Seq(Payloads)
  BY TunnAssumption, EmptySeq DEF Indices
<1>2. NewTunn \in TunnType
  BY <1>1, StateType DEF NewTunn, TunnType
<1> QED
  BY <1>2, StateType DEF NewTunn, Good, Clean, Waiting

\* encapsulate and the start of a handshake, as steps of a tunnel on its own.
LEMMA SendingGood ==
    ASSUME NEW t, Good(t), NEW k
    PROVE  /\ \A p \in Payloads :
                DrawnIn(Encapsulated(t, p, k).out) \subseteq Ephemerals
                  => GoodResult(Encapsulated(t, p, k))
           /\ DrawnIn(StartHandshake(t, k).out) \subseteq Ephemerals
                => GoodResult(StartHandshake(t, k))
<1>1. t \in TunnType
  BY DEF Good
<1>2. ASSUME NEW p \in Payloads,
             DrawnIn(Encapsulated(t, p, k).out) \subseteq Ephemerals
      PROVE  GoodResult(Encapsulated(t, p, k))
  <2> DEFINE r == Encapsulated(t, p, k)
  <2>1. /\ r.tunn \in TunnType /\ Sendable(r.out)
        /\ CurrentSession(t) # NoSession => r.tunn = t
        /\ CurrentSession(t) = NoSession => InProgress(r.tunn)
    BY <1>1, <1>2, EncapsulatedGood
  <2> HIDE DEF r
  <2>2. CASE CurrentSession(t) # NoSession
    BY <2>1, <2>2 DEF GoodResult, r
  <2>3. CASE CurrentSession(t) = NoSession
    <3>1. GoodResult(r)
      BY <2>1, <2>3, StateType DEF GoodResult, Good, Clean, Waiting, InProgress
    <3> QED
      BY <3>1 DEF r
  <2> QED
    BY <2>2, <2>3
<1>3. ASSUME DrawnIn(StartHandshake(t, k).out) \subseteq Ephemerals
      PROVE  GoodResult(StartHandshake(t, k))
  <2> DEFINE r == StartHandshake(t, k)
  <2>1. r.tunn \in TunnType /\ Sendable(r.out) /\ InProgress(r.tunn)
    BY <1>1, <1>3, StartHandshakeGood
  <2> HIDE DEF r
  <2>2. GoodResult(r)
    BY <2>1, StateType DEF GoodResult, Good, Clean, Waiting, InProgress
  <2> QED
    BY <2>2 DEF r
<1> QED
  BY <1>2, <1>3

\* A tunnel without an answer to send, and what the flush loop sends of it: an
\* expired one has nothing to send.
LEMMA SilentFlushed ==
    ASSUME NEW t, Good(t), NEW k,
           DrawnIn(ThenFlush(Result(t, <<>>), k).out) \subseteq Ephemerals
    PROVE  GoodResult(ThenFlush(Result(t, <<>>), k))
<1> DEFINE r == Result(t, <<>>)
<1>1. r.tunn = t /\ r.out = <<>> /\ t \in TunnType /\ <<>> \in Seq(Message)
  BY EmptySeq DEF Result, Good
<1> HIDE DEF r
<1>2. CASE t.state # Expired
  BY <1>1, <1>2, AnswerFlushed DEF r
<1>3. CASE t.state = Expired
  <2>1. t.packet_queue = <<>>
    BY <1>3 DEF Good, Clean
  <2>2. Flushed(t, k) = Result(t, <<>>)
    BY <2>1 DEF Flushed
  <2>3. <<>> \o <<>> = <<>>
    BY EmptySeq, ConcatEmptySeq
  <2>4. ThenFlush(r, k) = r
    BY <1>1, <2>2, <2>3 DEF ThenFlush, Result, r
  <2> QED
    BY <1>1, <2>4 DEF GoodResult, Sendable, r
<1> QED
  BY <1>2, <1>3

-----------------------------------------------------------------------------
(* Sequences of messages.                                                  *)

\* Taking a message, or losing it, leaves a sequence of messages no longer than
\* before.
LEMMA RemoveAtType ==
    ASSUME NEW q \in Seq(Message), NEW i \in DOMAIN q
    PROVE  RemoveAt(q, i) \in Seq(Message) /\ Len(RemoveAt(q, i)) <= Len(q)
<1>1. DOMAIN q = 1..Len(q) /\ Len(q) \in Nat /\ i \in 1..Len(q)
  BY LenProperties
<1>2. \A j \in 1..Len(q) : q[j] \in Message
  BY ElementOfSeq
<1> DEFINE x == SubSeq(q, 1, i - 1)
           y == SubSeq(q, i + 1, Len(q))
<1>3. x \in Seq(Message) /\ Len(x) = i - 1
  <2>1. \A j \in 1..(i - 1) : q[j] \in Message
    BY <1>1, <1>2
  <2> QED
    BY <1>1, <2>1, SubSeqProperties
<1>4. y \in Seq(Message) /\ Len(y) = Len(q) - i
  <2>1. \A j \in (i + 1)..Len(q) : q[j] \in Message
    BY <1>1, <1>2
  <2>2. y \in Seq(Message) /\ Len(y) = IF i + 1 <= Len(q) THEN Len(q) - (i + 1) + 1 ELSE 0
    BY <1>1, <2>1, SubSeqProperties
  <2> QED
    BY <1>1, <2>2
<1>5. RemoveAt(q, i) = x \o y
  BY DEF RemoveAt
<1> HIDE DEF x, y
<1>6. x \o y \in Seq(Message) /\ Len(x \o y) = Len(x) + Len(y)
  BY <1>3, <1>4, ConcatProperties
<1> QED
  BY <1>1, <1>3, <1>4, <1>5, <1>6

\* How often a packet is sealed is a number.
LEMMA TimesSealedType ==
    ASSUME NEW out \in Seq(Message), NEW p
    PROVE  TimesSealed(out, p) \in Nat
<1> DEFINE S == {i \in DOMAIN out : out[i].type = "data" /\ out[i].payload = p}
<1>1. S \in SUBSET (1..Len(out)) /\ Len(out) \in Nat
  BY LenProperties
<1>2. IsFiniteSet(1..Len(out))
  BY <1>1, FS_Interval
<1> HIDE DEF S
<1>3. IsFiniteSet(S)
  BY <1>1, <1>2, FS_Subset
<1>4. Cardinality(S) \in Nat
  BY <1>3, FS_CardinalityType
<1> QED
  BY <1>4 DEF TimesSealed, S

-----------------------------------------------------------------------------
(* Counting the places of a sequence that hold something of a set W: how   *)
(* often a packet waits in a queue, or is sealed in messages.              *)

Places(q, W) == {i \in DOMAIN q : q[i] \in W}

Count(q, W) == Cardinality(Places(q, W))

\* Places are finitely many.
LEMMA CountType ==
    ASSUME NEW S, NEW q \in Seq(S), NEW W
    PROVE  /\ IsFiniteSet(Places(q, W)) /\ Count(q, W) \in Nat
           /\ q = <<>> => Count(q, W) = 0
<1>1. DOMAIN q = 1..Len(q) /\ Len(q) \in Nat
  BY LenProperties
<1>2. IsFiniteSet(1..Len(q))
  BY <1>1, FS_Interval
<1>3. Places(q, W) \in SUBSET (1..Len(q))
  BY <1>1 DEF Places
<1>4. IsFiniteSet(Places(q, W))
  BY <1>2, <1>3, FS_Subset
<1>5. ASSUME q = <<>> PROVE Places(q, W) = {}
  BY <1>5 DEF Places
<1> QED
  BY <1>4, <1>5, FS_CardinalityType, FS_EmptySet DEF Count

\* One element is one place or none.
LEMMA CountOne ==
    ASSUME NEW x, NEW W
    PROVE  Count(<<x>>, W) = IF x \in W THEN 1 ELSE 0
<1> DEFINE q == <<x>>
<1>1. DOMAIN q = {1} /\ q[1] = x
  OBVIOUS
<1> HIDE DEF q
<1>2. Places(q, W) = IF x \in W THEN {1} ELSE {}
  BY <1>1 DEF Places
<1> QED
  BY <1>2, FS_Singleton, FS_EmptySet DEF Count, q

\* The places of a concatenation are those of its parts.
LEMMA CountConcat ==
    ASSUME NEW S, NEW x \in Seq(S), NEW y \in Seq(S), NEW W
    PROVE  Count(x \o y, W) = Count(x, W) + Count(y, W)
<1> DEFINE z == x \o y
           n == Len(x)
           P == Places(x, W)
           R == Places(y, W)
           Q == {i \in DOMAIN z : i > n /\ z[i] \in W}
           shift == [i \in R |-> i + n]
<1>1. /\ DOMAIN x = 1..n /\ DOMAIN y = 1..Len(y) /\ n \in Nat /\ Len(y) \in Nat
      /\ DOMAIN z = 1..(n + Len(y))
      /\ \A i \in 1..(n + Len(y)) : z[i] = IF i <= n THEN x[i] ELSE y[i - n]
  <2>1. z \in Seq(S) /\ Len(z) = n + Len(y)
    BY ConcatProperties
  <2> QED
    BY <2>1, ConcatProperties, LenProperties
<1> HIDE DEF z, n
<1>2. IsFiniteSet(P) /\ IsFiniteSet(R)
  BY CountType
<1>3. shift \in Bijection(R, Q)
  <2>1. ASSUME NEW i \in R PROVE shift[i] \in Q
    <3>1. i \in 1..Len(y) /\ y[i] \in W
      BY <1>1 DEF Places
    <3>2. i + n \in 1..(n + Len(y)) /\ i + n > n /\ (i + n) - n = i
      BY <1>1, <3>1
    <3>3. z[i + n] = y[i]
      BY <1>1, <3>2
    <3> QED
      BY <1>1, <3>1, <3>2, <3>3
  <2>2. ASSUME NEW i \in R, NEW j \in R, shift[i] = shift[j] PROVE i = j
    <3>1. i \in Int /\ j \in Int
      BY <1>1 DEF Places
    <3> QED
      BY <1>1, <2>2, <3>1
  <2>3. ASSUME NEW j \in Q PROVE \E i \in R : shift[i] = j
    <3>1. j \in 1..(n + Len(y)) /\ j > n /\ z[j] \in W
      BY <1>1
    <3>2. j - n \in 1..Len(y) /\ z[j] = y[j - n] /\ (j - n) + n = j
      BY <1>1, <3>1
    <3>3. j - n \in R
      BY <1>1, <3>1, <3>2 DEF Places
    <3> QED
      BY <3>2, <3>3
  <2> HIDE DEF Q, R
  <2>4. shift \in [R -> Q]
    BY <2>1
  <2> HIDE DEF shift
  <2> QED
    BY <2>2, <2>3, <2>4 DEF Bijection, Injection, Surjection, IsInjective
<1>4. IsFiniteSet(Q) /\ Cardinality(Q) = Cardinality(R)
  <2> HIDE DEF Q, R, shift
  <2> QED
    BY <1>2, <1>3, FS_Bijection DEF ExistsBijection
<1>5. Places(z, W) = P \cup Q /\ P \cap Q = {}
  BY <1>1 DEF Places
<1> HIDE DEF P, Q, R
<1>6. Cardinality(P \cup Q) = Cardinality(P) + Cardinality(Q)
  <2>1. Cardinality(P \cup Q) = Cardinality(P) + Cardinality(Q) - Cardinality({})
    BY <1>2, <1>4, <1>5, FS_Union
  <2>2. Cardinality({}) = 0 /\ Cardinality(P) \in Nat /\ Cardinality(Q) \in Nat
    BY <1>2, <1>4, FS_EmptySet, FS_CardinalityType
  <2> QED
    BY <2>1, <2>2
<1> QED
  BY <1>4, <1>5, <1>6 DEF Count, P, R, z

\* Taking an element out takes one place away.
LEMMA CountRemoveAt ==
    ASSUME NEW S, NEW q \in Seq(S), NEW i \in DOMAIN q, NEW W
    PROVE  Count(q, W) = Count(RemoveAt(q, i), W) + (IF q[i] \in W THEN 1 ELSE 0)
<1> DEFINE x == SubSeq(q, 1, i - 1)
           y == SubSeq(q, i + 1, Len(q))
           m == <<q[i]>>
<1>1. DOMAIN q = 1..Len(q) /\ Len(q) \in Nat /\ i \in 1..Len(q)
  BY LenProperties
<1>2. \A j \in 1..Len(q) : q[j] \in S
  BY ElementOfSeq
<1>3. x \in Seq(S) /\ y \in Seq(S) /\ m \in Seq(S)
  <2>1. x \in Seq(S)
    <3>1. \A j \in 1..(i - 1) : q[j] \in S
      BY <1>1, <1>2
    <3> QED
      BY <1>1, <3>1, SubSeqProperties
  <2>2. y \in Seq(S)
    <3>1. \A j \in (i + 1)..Len(q) : q[j] \in S
      BY <1>1, <1>2
    <3> QED
      BY <1>1, <3>1, SubSeqProperties
  <2> QED
    BY <1>1, <1>2, <2>1, <2>2
<1>4. q = (x \o m) \o y
  <2>1. SubSeq(q, 1, i) = x \o m
    <3>1. 1 \in 1..Len(q) /\ i \in 1..Len(q)
      BY <1>1
    <3> QED
      BY <3>1, SubSeqRecursiveSecond
  <2>2. SubSeq(q, 1, i) \o y = SubSeq(q, 1, Len(q))
    <3>1. 1 \in 1..Len(q) + 1 /\ i \in (1 - 1)..Len(q) /\ Len(q) \in i..Len(q)
      BY <1>1
    <3> QED
      BY <3>1, ConcatAdjacentSubSeq
  <2>3. SubSeq(q, 1, Len(q)) = q
    BY SubSeqFull
  <2> QED
    BY <2>1, <2>2, <2>3
<1>5. RemoveAt(q, i) = x \o y
  BY DEF RemoveAt
<1> HIDE DEF x, y
<1>6. Count(m, W) = IF q[i] \in W THEN 1 ELSE 0
  BY CountOne, Zenon
<1> HIDE DEF m
<1>7. x \o m \in Seq(S)
  BY <1>3, ConcatProperties
<1>8. Count(q, W) = Count(x, W) + Count(m, W) + Count(y, W)
  <2>1. Count(x \o m, W) = Count(x, W) + Count(m, W)
    BY <1>3, CountConcat
  <2>2. Count((x \o m) \o y, W) = Count(x \o m, W) + Count(y, W)
    BY <1>3, <1>7, CountConcat
  <2> QED
    BY <1>4, <2>1, <2>2
<1>9. Count(x \o y, W) = Count(x, W) + Count(y, W)
  BY <1>3, CountConcat
<1>10. Count(x, W) \in Nat /\ Count(y, W) \in Nat /\ Count(m, W) \in Nat
  BY <1>3, CountType
<1> QED
  BY <1>5, <1>6, <1>8, <1>9, <1>10

\* A part from the beginning has no more.
LEMMA CountPrefix ==
    ASSUME NEW S, NEW q \in Seq(S), NEW n \in 1..Len(q), NEW W
    PROVE  SubSeq(q, 1, n) \in Seq(S) /\ Count(SubSeq(q, 1, n), W) <= Count(q, W)
<1> DEFINE x == SubSeq(q, 1, n)
<1>1. DOMAIN q = 1..Len(q) /\ Len(q) \in Nat
  BY LenProperties
<1>2. x \in Seq(S)
  <2>1. \A j \in 1..n : q[j] \in S
    BY <1>1, ElementOfSeq
  <2> QED
    BY <2>1, SubSeqProperties
<1>3. Places(x, W) \in SUBSET Places(q, W)
  <2>1. DOMAIN x = 1..n /\ \A j \in 1..n : x[j] = q[j]
    <3>1. \A j \in 1..n : q[j] \in S
      BY <1>1, ElementOfSeq
    <3>2. Len(x) = n /\ \A j \in 1..n - 1 + 1 : x[j] = q[1 + j - 1]
      BY <1>1, <3>1, SubSeqProperties
    <3> HIDE DEF x
    <3>3. DOMAIN x = 1..n
      BY <1>2, <3>2, LenProperties
    <3> QED
      BY <1>1, <3>2, <3>3
  <2> HIDE DEF x
  <2> QED
    BY <1>1, <2>1 DEF Places
<1> HIDE DEF x
<1> QED
  BY <1>2, <1>3, CountType, FS_Subset DEF Count, x

-----------------------------------------------------------------------------
(* What the operations do to the packets: what goes out is what was waiting *)
(* or came in.                                                             *)

\* The messages that carry p.
Carriers(p) == {m \in Message : m.type = "data" /\ m.payload = p}

\* Sealing counts the messages that carry the packet.
LEMMA TimesSealedIs ==
    ASSUME NEW p
    PROVE  /\ \A out \in Seq(Message) : TimesSealed(out, p) = Count(out, Carriers(p))
           /\ \A out : NoData(out) => TimesSealed(out, p) = 0
           /\ \A s, x : TimesSealed(<<Seal(s, x)>>, p) = IF x = p THEN 1 ELSE 0
<1>1. ASSUME NEW out \in Seq(Message) PROVE TimesSealed(out, p) = Count(out, Carriers(p))
  <2>1. \A i \in DOMAIN out : out[i] \in Message
    BY ElementOfSeq, LenProperties
  <2>2. {i \in DOMAIN out : out[i].type = "data" /\ out[i].payload = p} = Places(out, Carriers(p))
    BY <2>1 DEF Places, Carriers
  <2> QED
    BY <2>2 DEF TimesSealed, Count
<1>2. ASSUME NEW out, NoData(out) PROVE TimesSealed(out, p) = 0
  <2>1. {i \in DOMAIN out : out[i].type = "data" /\ out[i].payload = p} = {}
    BY <1>2 DEF NoData
  <2> QED
    BY <2>1, FS_EmptySet DEF TimesSealed
<1>3. ASSUME NEW s, NEW x PROVE TimesSealed(<<Seal(s, x)>>, p) = IF x = p THEN 1 ELSE 0
  <2> DEFINE out == <<Seal(s, x)>>
  <2>1. DOMAIN out = {1} /\ out[1].type = "data" /\ out[1].payload = x
    BY DEF Seal, DataMsg
  <2> HIDE DEF out
  <2>2. {i \in DOMAIN out : out[i].type = "data" /\ out[i].payload = p} =
            IF x = p THEN {1} ELSE {}
    BY <2>1
  <2> QED
    BY <2>2, FS_EmptySet, FS_Singleton DEF TimesSealed, out
<1> QED
  BY <1>1, <1>2, <1>3

\* encapsulate seals the packet, lets it wait, or finds the queue full.
SealsOrQueues(t, x, r) ==
    LET q == t.packet_queue IN
    /\ CurrentSession(t) # NoSession =>
            r.tunn.packet_queue = q /\ r.out = <<Seal(CurrentSession(t), x)>>
    /\ CurrentSession(t) = NoSession =>
            /\ NoData(r.out)
            /\ r.tunn.packet_queue =
                    IF Len(q) < MAX_QUEUE_DEPTH THEN Append(q, x) ELSE q

LEMMA EncapsulatedQueue ==
    ASSUME NEW t \in TunnType, NEW x, NEW k
    PROVE  SealsOrQueues(t, x, Encapsulated(t, x, k))
<1> DEFINE u == QueuePacket(t, x)
           q == t.packet_queue
<1>1. u.packet_queue = IF Len(q) < MAX_QUEUE_DEPTH THEN Append(q, x) ELSE q
  BY DEF QueuePacket, TunnType
<1>2. StartHandshake(u, k).tunn.packet_queue = u.packet_queue
  <2>1. u = [t EXCEPT !.packet_queue = u.packet_queue]
    BY DEF QueuePacket, TunnType
  <2> QED
    BY <2>1 DEF StartHandshake, Result, TunnType
<1>3. NoData(StartHandshake(u, k).out) /\ NoData(<<>>)
  BY DEF NoData, StartHandshake, Result, InitMsg
<1> HIDE DEF u
<1> QED
  BY <1>1, <1>2, <1>3 DEF Encapsulated, StartIfIdle, Result, SealsOrQueues, u

\* A packet put at the end of a queue counts as one.
LEMMA CountAppend ==
    ASSUME NEW S, NEW q \in Seq(S), NEW x \in S, NEW W
    PROVE  /\ Count(Append(q, x), W) = Count(q, W) + (IF x \in W THEN 1 ELSE 0)
           /\ Len(Append(q, x)) = Len(q) + 1
<1> DEFINE m == <<x>>
<1>1. m \in Seq(S)
  OBVIOUS
<1>2. Append(q, x) = q \o m
  BY AppendIsConcat
<1>3. Count(m, W) = IF x \in W THEN 1 ELSE 0
  BY CountOne
<1> HIDE DEF m
<1>4. Count(q \o m, W) = Count(q, W) + Count(m, W)
  BY <1>1, CountConcat
<1> QED
  BY <1>2, <1>3, <1>4, AppendProperties

\* So does the one at its head.
LEMMA CountTail ==
    ASSUME NEW S, NEW q \in Seq(S), q # <<>>, NEW W
    PROVE  /\ Count(q, W) = Count(Tail(q), W) + (IF Head(q) \in W THEN 1 ELSE 0)
           /\ Tail(q) \in Seq(S) /\ Head(q) \in S /\ Len(Tail(q)) = Len(q) - 1
<1>1. DOMAIN q = 1..Len(q) /\ Len(q) \in Nat /\ Len(q) # 0
  BY LenProperties, EmptySeq
<1>2. 1 \in DOMAIN q /\ q[1] = Head(q)
  BY <1>1
<1>3. RemoveAt(q, 1) = Tail(q)
  <2>1. Tail(q) = SubSeq(q, 2, Len(q)) /\ Tail(q) \in Seq(S)
    BY TailIsSubSeq, HeadTailProperties
  <2>2. SubSeq(q, 1, 1 - 1) = <<>>
    BY SubSeqEmpty
  <2>3. <<>> \o Tail(q) = Tail(q)
    BY <2>1, ConcatEmptySeq
  <2> QED
    BY <2>1, <2>2, <2>3 DEF RemoveAt
<1>4. Count(q, W) = Count(RemoveAt(q, 1), W) + (IF q[1] \in W THEN 1 ELSE 0)
  BY <1>2, CountRemoveAt
<1> QED
  BY <1>2, <1>3, <1>4, HeadTailProperties

\* send_queued_packet without a session turns the queue by one.
LEMMA SendQueuedTurns ==
    ASSUME NEW t \in TunnType, CurrentSession(t) = NoSession,
           t.packet_queue # <<>>, Len(t.packet_queue) <= MAX_QUEUE_DEPTH, NEW k, NEW W
    PROVE  /\ NoData(SendQueued(t, k).out)
           /\ Count(SendQueued(t, k).tunn.packet_queue, W) = Count(t.packet_queue, W)
           /\ Len(SendQueued(t, k).tunn.packet_queue) = Len(t.packet_queue)
<1> DEFINE q == t.packet_queue
           u == [t EXCEPT !.packet_queue = Tail(@)]
           r == SendQueued(t, k)
<1>1. /\ u \in TunnType /\ CurrentSession(u) = NoSession /\ u.packet_queue = Tail(q)
      /\ q \in Seq(Payloads)
  BY TailType DEF CurrentSession, TunnType
<1>2. r = Encapsulated(u, Head(q), k)
  BY DEF SendQueued
<1> HIDE DEF u, r, q
<1>3. q # <<>> /\ Len(q) <= MAX_QUEUE_DEPTH /\ Len(q) \in Nat /\ MAX_QUEUE_DEPTH \in Nat
  BY <1>1, LenProperties, TunnAssumption DEF q
<1>4. /\ Tail(q) \in Seq(Payloads) /\ Head(q) \in Payloads /\ Len(Tail(q)) = Len(q) - 1
      /\ Count(q, W) = Count(Tail(q), W) + (IF Head(q) \in W THEN 1 ELSE 0)
  BY <1>1, <1>3, CountTail
<1>5. Len(Tail(q)) < MAX_QUEUE_DEPTH
  BY <1>3, <1>4
<1>6. NoData(r.out) /\ r.tunn.packet_queue = Append(Tail(q), Head(q))
  <2> DEFINE x == Head(q)
  <2>1. r = Encapsulated(u, x, k)
    BY <1>2
  <2> HIDE DEF x
  <2>2. /\ NoData(r.out)
        /\ r.tunn.packet_queue = IF Len(u.packet_queue) < MAX_QUEUE_DEPTH
                                 THEN Append(u.packet_queue, x) ELSE u.packet_queue
    <3>1. SealsOrQueues(u, x, r)
      BY <1>1, <2>1, EncapsulatedQueue
    <3> QED
      BY <1>1, <3>1 DEF SealsOrQueues
  <2> QED
    BY <1>1, <1>5, <2>2 DEF x
<1>7. /\ Count(Append(Tail(q), Head(q)), W) = Count(Tail(q), W) + (IF Head(q) \in W THEN 1 ELSE 0)
      /\ Len(Append(Tail(q), Head(q))) = Len(Tail(q)) + 1
  <2> DEFINE y == Tail(q)
             x == Head(q)
  <2>1. y \in Seq(Payloads) /\ x \in Payloads
    BY <1>4
  <2> HIDE DEF y, x
  <2>2. /\ Count(Append(y, x), W) = Count(y, W) + (IF x \in W THEN 1 ELSE 0)
        /\ Len(Append(y, x)) = Len(y) + 1
    BY ONLY <2>1, CountAppend
  <2> QED
    BY <2>2 DEF y, x
<1>8. NoData(r.out) /\ Count(r.tunn.packet_queue, W) = Count(q, W)
  <2>1. Count(Append(Tail(q), Head(q)), W) = Count(q, W)
    BY <1>4, <1>7
  <2> QED
    BY <1>6, <2>1
<1>9. Len(r.tunn.packet_queue) = Len(q)
  BY <1>3, <1>4, <1>6, <1>7
<1> QED
  BY <1>8, <1>9 DEF q, r

\* Of packet p, n more wait or were sealed than before, and the queue keeps its
\* bound.
Conserves(t, r, p, n) ==
    /\ Len(r.tunn.packet_queue) <= MAX_QUEUE_DEPTH
    /\ Count(r.tunn.packet_queue, {p}) + TimesSealed(r.out, p) = Count(t.packet_queue, {p}) + n

\* encapsulate takes what it is given, unless there is no session and no room.
LEMMA EncapsulatedConserves ==
    ASSUME NEW t \in TunnType, Len(t.packet_queue) <= MAX_QUEUE_DEPTH,
           NEW x \in Payloads, NEW k, NEW p
    PROVE  Conserves(t, Encapsulated(t, x, k), p,
                     IF x = p /\ (\/ CurrentSession(t) # NoSession
                                  \/ Len(t.packet_queue) < MAX_QUEUE_DEPTH)
                     THEN 1 ELSE 0)
<1> DEFINE q == t.packet_queue
           r == Encapsulated(t, x, k)
<1>1. /\ q \in Seq(Payloads) /\ Len(q) \in Nat /\ MAX_QUEUE_DEPTH \in Nat
      /\ Count(q, {p}) \in Nat
  <2>1. q \in Seq(Payloads)
    BY DEF TunnType
  <2> HIDE DEF q
  <2> QED
    BY <2>1, LenProperties, CountType, TunnAssumption
<1>2. SealsOrQueues(t, x, r)
  BY EncapsulatedQueue
<1> HIDE DEF r
<1>3. CASE CurrentSession(t) # NoSession
  <2>1. r.tunn.packet_queue = q /\ r.out = <<Seal(CurrentSession(t), x)>>
    BY <1>2, <1>3 DEF SealsOrQueues
  <2>2. TimesSealed(r.out, p) = IF x = p THEN 1 ELSE 0
    <3>1. TimesSealed(<<Seal(CurrentSession(t), x)>>, p) = IF x = p THEN 1 ELSE 0
      BY TimesSealedIs, Zenon
    <3> QED
      BY <2>1, <3>1
  <2> QED
    BY <1>1, <1>3, <2>1, <2>2 DEF Conserves, r
<1>4. CASE CurrentSession(t) = NoSession /\ Len(q) < MAX_QUEUE_DEPTH
  <2>1. r.tunn.packet_queue = Append(q, x) /\ NoData(r.out)
    BY <1>2, <1>4 DEF SealsOrQueues
  <2>2. TimesSealed(r.out, p) = 0
    BY <2>1, TimesSealedIs
  <2> HIDE DEF q
  <2>3. /\ Count(Append(q, x), {p}) = Count(q, {p}) + (IF x = p THEN 1 ELSE 0)
        /\ Len(Append(q, x)) = Len(q) + 1
    <3>1. /\ Count(Append(q, x), {p}) = Count(q, {p}) + (IF x \in {p} THEN 1 ELSE 0)
          /\ Len(Append(q, x)) = Len(q) + 1
      BY <1>1, CountAppend
    <3> QED
      BY <3>1
  <2>4. /\ Len(r.tunn.packet_queue) <= MAX_QUEUE_DEPTH
        /\ Count(r.tunn.packet_queue, {p}) + TimesSealed(r.out, p)
                = Count(q, {p}) + (IF x = p THEN 1 ELSE 0)
    BY <1>1, <1>4, <2>1, <2>2, <2>3
  <2> QED
    BY <1>4, <2>4 DEF Conserves, r, q
<1>5. CASE CurrentSession(t) = NoSession /\ ~(Len(q) < MAX_QUEUE_DEPTH)
  <2>1. r.tunn.packet_queue = q /\ NoData(r.out)
    BY <1>2, <1>5 DEF SealsOrQueues
  <2>2. TimesSealed(r.out, p) = 0
    BY <2>1, TimesSealedIs
  <2> QED
    BY <1>1, <1>5, <2>1, <2>2 DEF Conserves, r
<1> QED
  BY <1>3, <1>4, <1>5

\* The flush loop sends what waits, or turns the queue, and loses nothing.
LEMMA FlushedConserves ==
    ASSUME NEW t \in TunnType, Len(t.packet_queue) <= MAX_QUEUE_DEPTH, NEW k, NEW p,
           DrawnIn(Flushed(t, k).out) \subseteq Ephemerals
    PROVE  Conserves(t, Flushed(t, k), p, 0)
<1> DEFINE q == t.packet_queue
           r == Flushed(t, k)
<1>1. /\ q \in Seq(Payloads) /\ Len(q) \in Nat /\ MAX_QUEUE_DEPTH \in Nat
      /\ Count(q, {p}) \in Nat
  <2>1. q \in Seq(Payloads)
    BY DEF TunnType
  <2> HIDE DEF q
  <2> QED
    BY <2>1, LenProperties, CountType, TunnAssumption
<1>2. NoData(<<>>)
  BY DEF NoData
<1>3. CASE q = <<>>
  <2>1. r.tunn = t /\ r.out = <<>>
    BY <1>3 DEF Flushed, Result
  <2>2. TimesSealed(r.out, p) = 0
    BY <1>2, <2>1, TimesSealedIs
  <2> HIDE DEF r
  <2> QED
    BY <1>1, <2>1, <2>2 DEF Conserves, r
<1>4. CASE q # <<>> /\ CurrentSession(t) # NoSession
  <2> DEFINE out == [i \in DOMAIN q |-> Seal(CurrentSession(t), q[i])]
  <2>1. r.tunn.packet_queue = <<>> /\ r.out = out
    BY <1>4 DEF Flushed, Result, TunnType
  <2> HIDE DEF q, r
  <2>2. {i \in DOMAIN out : out[i].type = "data" /\ out[i].payload = p} = Places(q, {p})
    BY DEF Places, Seal, DataMsg
  <2> HIDE DEF out
  <2>3. TimesSealed(r.out, p) = Count(q, {p})
    BY <2>1, <2>2 DEF TimesSealed, Count
  <2>4. <<>> \in Seq(Payloads) /\ Len(<<>>) = 0
    BY EmptySeq
  <2>5. Count(<<>>, {p}) = 0
    BY <2>4, CountType
  <2>6. /\ Len(r.tunn.packet_queue) <= MAX_QUEUE_DEPTH
        /\ Count(r.tunn.packet_queue, {p}) + TimesSealed(r.out, p) = Count(q, {p}) + 0
    BY <1>1, <2>1, <2>3, <2>4, <2>5
  <2> QED
    BY <2>6 DEF Conserves, q, r
<1>5. CASE q # <<>> /\ CurrentSession(t) = NoSession
  <2> DEFINE first == SendQueued(t, k)
             u == first.tunn
             second == SendQueued(u, k)
  <2>1. r = IF first.out = <<>> THEN first ELSE Result(second.tunn, first.out)
    BY <1>5 DEF Flushed
  <2>2. r.out = first.out
    BY <2>1 DEF Result
  <2>3. /\ NoData(first.out)
        /\ Count(u.packet_queue, {p}) = Count(q, {p})
        /\ Len(u.packet_queue) = Len(q)
    BY <1>5, SendQueuedTurns
  <2>4. /\ u \in TunnType /\ CurrentSession(u) = NoSession /\ u.packet_queue # <<>>
    <3> DEFINE v == [t EXCEPT !.packet_queue = Tail(@)]
               x == Head(q)
    <3>1. v \in TunnType /\ x \in Payloads /\ CurrentSession(v) = NoSession
      BY <1>5, TailType DEF CurrentSession
    <3>2. first = Encapsulated(v, x, k)
      BY DEF SendQueued
    <3> HIDE DEF v, x, q, r, first
    <3>3. first.tunn \in TunnType /\ CurrentSession(first.tunn) = NoSession
          /\ first.tunn.packet_queue # <<>>
      BY <2>2, <3>1, <3>2, EncapsulatedGood DEF r
    <3> QED
      BY <3>3
  <2>5. TimesSealed(r.out, p) = 0
    BY <2>2, <2>3, TimesSealedIs
  <2>6. /\ Count(second.tunn.packet_queue, {p}) = Count(q, {p})
        /\ Len(second.tunn.packet_queue) = Len(q)
    <3> HIDE DEF u, q
    <3>1. Len(u.packet_queue) <= MAX_QUEUE_DEPTH
      BY <2>3 DEF q
    <3> QED
      BY <2>3, <2>4, <3>1, SendQueuedTurns
  <2>7. r.tunn.packet_queue \in {u.packet_queue, second.tunn.packet_queue}
    BY <2>1 DEF Result
  <2> HIDE DEF first, u, second, r, q
  <2>8. /\ Len(r.tunn.packet_queue) <= MAX_QUEUE_DEPTH
        /\ Count(r.tunn.packet_queue, {p}) + TimesSealed(r.out, p) = Count(q, {p}) + 0
    <3>1. Len(q) <= MAX_QUEUE_DEPTH
      BY DEF q
    <3> QED
      BY <1>1, <2>3, <2>5, <2>6, <2>7, <3>1
  <2> QED
    BY <2>8 DEF Conserves, q, r
<1> QED
  BY <1>3, <1>4, <1>5
==============================================================================
