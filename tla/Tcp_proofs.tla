----------------------------- MODULE Tcp_proofs ------------------------------
(***************************************************************************)
(* Proofs about the TCP mode.  First TcpTransport: for every number of     *)
(* packets, connections, frames under way and stops of devices, and every  *)
(* size of the tunnels.  Then TcpStream: for every size of the buffers,    *)
(* every set of packets that fit, any number of writers and any division   *)
(* of the bytes into reads.                                                *)
(***************************************************************************)
EXTENDS TcpTransport, TcpStream, TunnState_proofs

-----------------------------------------------------------------------------
(* Sequences of messages, as far as the properties tell them apart.        *)

IsSeq(s) == \E T : s \in Seq(T)

\* What ToSet says of it.
LEMMA SetOf ==
    ASSUME NEW T, NEW s \in Seq(T)
    PROVE  /\ DOMAIN s = 1..Len(s) /\ Len(s) \in Nat
           /\ ToSet(s) = {s[i] : i \in 1..Len(s)}
BY DEF ToSet

\* Nothing, and one message.
LEMMA FewIs ==
    /\ IsSeq(<<>>) /\ ToSet(<<>>) = {}
    /\ \A m : IsSeq(<<m>>) /\ ToSet(<<m>>) = {m}
<1>1. IsSeq(<<>>) /\ ToSet(<<>>) = {}
  BY DEF IsSeq, ToSet
<1>2. ASSUME NEW m PROVE IsSeq(<<m>>) /\ ToSet(<<m>>) = {m}
  <2>1. <<m>> \in Seq({m})
    OBVIOUS
  <2>2. ToSet(<<m>>) = {m}
    BY DEF ToSet
  <2> QED
    BY <2>1, <2>2 DEF IsSeq
<1> QED
  BY <1>1, <1>2

\* One sequence after another.
LEMMA JoinIs ==
    ASSUME NEW s, NEW t, IsSeq(s), IsSeq(t)
    PROVE  IsSeq(s \o t) /\ ToSet(s \o t) = ToSet(s) \cup ToSet(t)
<1>1. PICK S, T : s \in Seq(S) /\ t \in Seq(T)
  BY DEF IsSeq
<1>2. s \in Seq(S \cup T) /\ t \in Seq(S \cup T)
  BY <1>1, SeqMonotonic
<1>3. /\ s \o t \in Seq(S \cup T) /\ Len(s \o t) = Len(s) + Len(t)
      /\ \A i \in 1..(Len(s) + Len(t)) :
            (s \o t)[i] = IF i <= Len(s) THEN s[i] ELSE t[i - Len(s)]
  BY <1>2, ConcatProperties
<1>4. ToSet(s \o t) = {(s \o t)[i] : i \in 1..(Len(s) + Len(t))}
  BY <1>3, SetOf
<1>5. /\ ToSet(s) = {s[i] : i \in 1..Len(s)} /\ ToSet(t) = {t[i] : i \in 1..Len(t)}
      /\ Len(s) \in Nat /\ Len(t) \in Nat
  BY <1>1, SetOf
<1>6. ASSUME NEW x \in ToSet(s) PROVE x \in ToSet(s \o t)
  <2>1. PICK i \in 1..Len(s) : x = s[i]
    BY <1>5
  <2>2. i \in 1..(Len(s) + Len(t)) /\ (s \o t)[i] = x
    BY <1>3, <1>5, <2>1
  <2> QED
    BY <1>4, <2>2
<1>7. ASSUME NEW x \in ToSet(t) PROVE x \in ToSet(s \o t)
  <2>1. PICK i \in 1..Len(t) : x = t[i]
    BY <1>5
  <2>2. Len(s) + i \in 1..(Len(s) + Len(t)) /\ (s \o t)[Len(s) + i] = x
    BY <1>3, <1>5, <2>1
  <2> QED
    BY <1>4, <2>2
<1>8. ASSUME NEW x \in ToSet(s \o t) PROVE x \in ToSet(s) \cup ToSet(t)
  <2>1. PICK i \in 1..(Len(s) + Len(t)) : x = (s \o t)[i]
    BY <1>4
  <2>2. i <= Len(s) => i \in 1..Len(s) /\ x = s[i]
    BY <1>3, <1>5, <2>1
  <2>3. ~(i <= Len(s)) => i - Len(s) \in 1..Len(t) /\ x = t[i - Len(s)]
    BY <1>3, <1>5, <2>1
  <2> QED
    BY <1>5, <2>2, <2>3
<1> QED
  BY <1>3, <1>6, <1>7, <1>8 DEF IsSeq

\* The first message, and the others.
LEMMA HeadIs ==
    ASSUME NEW s, IsSeq(s), s # <<>>
    PROVE  IsSeq(Tail(s)) /\ ToSet(s) = {Head(s)} \cup ToSet(Tail(s))
<1>1. PICK S : s \in Seq(S)
  BY DEF IsSeq
<1>2. /\ Tail(s) \in Seq(S) /\ Len(Tail(s)) = Len(s) - 1
      /\ Head(s) = s[1] /\ Len(s) \in Nat \ {0}
      /\ \A i \in 1..(Len(s) - 1) : Tail(s)[i] = s[i + 1]
  BY <1>1
<1>3. /\ ToSet(s) = {s[i] : i \in 1..Len(s)}
      /\ ToSet(Tail(s)) = {Tail(s)[i] : i \in 1..(Len(s) - 1)}
  <2>1. ToSet(s) = {s[i] : i \in 1..Len(s)}
    BY <1>1, SetOf
  <2>2. ToSet(Tail(s)) = {Tail(s)[i] : i \in 1..Len(Tail(s))}
    BY <1>2, SetOf
  <2> QED
    BY <1>2, <2>1, <2>2
<1>4. ASSUME NEW x \in ToSet(s) PROVE x \in {Head(s)} \cup ToSet(Tail(s))
  <2>1. PICK i \in 1..Len(s) : x = s[i]
    BY <1>3
  <2>2. CASE i = 1
    BY <1>2, <2>1, <2>2
  <2>3. CASE i # 1
    <3>1. i - 1 \in 1..(Len(s) - 1) /\ Tail(s)[i - 1] = x
      BY <1>2, <2>1, <2>3
    <3> QED
      BY <1>3, <3>1
  <2> QED
    BY <2>2, <2>3
<1>5. ASSUME NEW x \in ToSet(Tail(s)) PROVE x \in ToSet(s)
  <2>1. PICK i \in 1..(Len(s) - 1) : x = Tail(s)[i]
    BY <1>3
  <2>2. i + 1 \in 1..Len(s) /\ s[i + 1] = x
    BY <1>2, <2>1
  <2> QED
    BY <1>3, <2>2
<1>6. Head(s) \in ToSet(s)
  <2>1. 1 \in 1..Len(s)
    BY <1>2
  <2> QED
    BY <1>2, <1>3, <2>1
<1> QED
  BY <1>2, <1>4, <1>5, <1>6 DEF IsSeq

-----------------------------------------------------------------------------
(* The operations of a Tunn: what they do to the handshake and the queue.  *)

Fields == {"state", "previous", "next_index", "sessions", "session_age",
           "current", "packet_queue", "is_initiator"}

Shaped(t) == DOMAIN t = Fields /\ IsSeq(t.packet_queue)

Waits(t) == t.packet_queue # <<>> => InProgress(t)

DataOnly(out) == \A m \in ToSet(out) : m.type = "data"

\* The handshake is left alone, or a new one is begun with k and sent.
Outcome(t, r, k) ==
    /\ Shaped(r.tunn) /\ Waits(r.tunn) /\ IsSeq(r.out)
    /\ \/ r.tunn.state = t.state /\ DataOnly(r.out)
       \/ \E j : r.tunn.state = InitSent(j, k) /\ ToSet(r.out) = {InitMsg(j, k)}

\* A handshake is begun unless one is in progress.
LEMMA StartIfIdleOutcome ==
    ASSUME NEW t, NEW k, Shaped(t)
    PROVE  /\ Outcome(t, StartIfIdle(t, k), k)
           /\ InProgress(StartIfIdle(t, k).tunn)
           /\ StartIfIdle(t, k).tunn.packet_queue = t.packet_queue
           /\ CurrentSession(StartIfIdle(t, k).tunn) = CurrentSession(t)
           /\ InProgress(t) => StartIfIdle(t, k).tunn = t
<1>0. PICK r, j : r = StartIfIdle(t, k) /\ j = IncIndex(t.next_index)
  OBVIOUS
<1>1. CASE InProgress(t)
  <2>1. r.tunn = t /\ r.out = <<>>
    BY <1>0, <1>1 DEF StartIfIdle, Result
  <2>2. Outcome(t, r, k)
    BY <1>1, <2>1, FewIs DEF Outcome, Waits, DataOnly
  <2> QED
    BY <1>0, <1>1, <2>1, <2>2
<1>2. CASE ~InProgress(t)
  <2>1. /\ r.tunn = [t EXCEPT !.next_index = j, !.previous = t.state,
                              !.state = InitSent(j, k)]
        /\ r.out = <<InitMsg(j, k)>>
    BY <1>0, <1>2 DEF StartIfIdle, StartHandshake, Result
  <2>2. /\ DOMAIN r.tunn = Fields /\ r.tunn.state = InitSent(j, k)
        /\ r.tunn.packet_queue = t.packet_queue
        /\ r.tunn.sessions = t.sessions /\ r.tunn.current = t.current
    BY <2>1 DEF Shaped, Fields
  <2>3. InProgress(r.tunn)
    BY <2>2 DEF InProgress, InitSent
  <2>4. IsSeq(r.out) /\ ToSet(r.out) = {InitMsg(j, k)} /\ r.out # <<>>
    BY <2>1, FewIs
  <2>5. Outcome(t, r, k)
    BY <2>2, <2>3, <2>4 DEF Outcome, Shaped, Waits
  <2>6. CurrentSession(r.tunn) = CurrentSession(t)
    BY <2>2 DEF CurrentSession
  <2> QED
    BY <1>0, <1>2, <2>2, <2>3, <2>4, <2>5, <2>6
<1> QED
  BY <1>1, <1>2

\* What an operation that is not part of a handshake may do to a Tunn.
SameHandshake(t, u) ==
    /\ Shaped(u) /\ u.state = t.state
    /\ CurrentSession(u) = CurrentSession(t)

\* A queue with another packet at its end, or the same.
LEMMA QueuedIs ==
    ASSUME NEW t, NEW p, Shaped(t)
    PROVE  SameHandshake(t, QueuePacket(t, p)) /\ QueuePacket(t, p).packet_queue # <<>>
<1>1. PICK T : t.packet_queue \in Seq(T)
  BY DEF Shaped, IsSeq
<1>2. Append(t.packet_queue, p) \in Seq(T \cup {p})
  <2>1. t.packet_queue \in Seq(T \cup {p})
    BY <1>1, SeqMonotonic
  <2> QED
    BY <2>1
<1>3. CASE ~(Len(t.packet_queue) < MAX_QUEUE_DEPTH)
  <2>1. QueuePacket(t, p) = t
    BY <1>3 DEF QueuePacket
  <2>2. t.packet_queue # <<>>
    BY <1>3, TunnAssumption
  <2> QED
    BY <2>1, <2>2 DEF SameHandshake
<1>4. CASE Len(t.packet_queue) < MAX_QUEUE_DEPTH
  <2>1. PICK u : u = QueuePacket(t, p)
    OBVIOUS
  <2>2. u = [t EXCEPT !.packet_queue = Append(@, p)]
    BY <1>4, <2>1 DEF QueuePacket
  <2>3. /\ DOMAIN u = Fields /\ u.packet_queue = Append(t.packet_queue, p)
        /\ u.state = t.state /\ u.sessions = t.sessions /\ u.current = t.current
    BY <2>2 DEF Shaped, Fields
  <2>4. Append(t.packet_queue, p) # <<>>
    BY <1>1
  <2> QED
    BY <1>2, <2>1, <2>3, <2>4 DEF SameHandshake, Shaped, IsSeq, CurrentSession
<1> QED
  BY <1>3, <1>4

\* Without a session a packet waits, and a handshake is in progress.
LEMMA WaitingOutcome ==
    ASSUME NEW t, NEW p, NEW k, Shaped(t), CurrentSession(t) = NoSession
    PROVE  /\ Outcome(t, Encapsulated(t, p, k), k)
           /\ InProgress(Encapsulated(t, p, k).tunn)
           /\ CurrentSession(Encapsulated(t, p, k).tunn) = NoSession
           /\ Encapsulated(t, p, k).tunn.packet_queue # <<>>
           /\ InProgress(t) => Encapsulated(t, p, k).tunn.state = t.state
<1>1. PICK u : u = QueuePacket(t, p)
  OBVIOUS
<1>2. SameHandshake(t, u) /\ u.packet_queue # <<>>
  BY <1>1, QueuedIs
<1>3. Encapsulated(t, p, k) = StartIfIdle(u, k)
  BY <1>1 DEF Encapsulated
<1>4. PICK r : r = StartIfIdle(u, k)
  OBVIOUS
<1>5. /\ Outcome(u, r, k) /\ InProgress(r.tunn)
      /\ CurrentSession(r.tunn) = CurrentSession(u)
      /\ r.tunn.packet_queue = u.packet_queue
      /\ InProgress(u) => r.tunn = u
  BY <1>2, <1>4, StartIfIdleOutcome DEF SameHandshake
<1>6. Outcome(t, r, k)
  BY <1>2, <1>5 DEF Outcome, SameHandshake
<1>7. InProgress(t) => r.tunn.state = t.state
  BY <1>2, <1>5 DEF SameHandshake, InProgress
<1> QED
  BY <1>2, <1>3, <1>4, <1>5, <1>6, <1>7 DEF SameHandshake

\* Tunn::encapsulate.
LEMMA EncapsulatedOutcome ==
    ASSUME NEW t, NEW p, NEW k, Shaped(t), Waits(t)
    PROVE  Outcome(t, Encapsulated(t, p, k), k)
<1>1. CASE CurrentSession(t) = NoSession
  BY <1>1, WaitingOutcome
<1>2. CASE CurrentSession(t) # NoSession
  <2>1. PICK m : m = Seal(CurrentSession(t), p)
    OBVIOUS
  <2>2. m.type = "data"
    BY <2>1 DEF Seal, DataMsg
  <2>3. Encapsulated(t, p, k) = Result(t, <<m>>)
    BY <1>2, <2>1 DEF Encapsulated
  <2> QED
    BY <2>2, <2>3, FewIs DEF Outcome, Result, DataOnly
<1> QED
  BY <1>1, <1>2

\* The queue without its first packet.
LEMMA TailIs ==
    ASSUME NEW t, Shaped(t), t.packet_queue # <<>>
    PROVE  SameHandshake(t, [t EXCEPT !.packet_queue = Tail(@)])
<1>1. PICK u : u = [t EXCEPT !.packet_queue = Tail(@)]
  OBVIOUS
<1>2. IsSeq(Tail(t.packet_queue))
  BY HeadIs DEF Shaped
<1>3. /\ DOMAIN u = Fields /\ u.packet_queue = Tail(t.packet_queue)
      /\ u.state = t.state /\ u.sessions = t.sessions /\ u.current = t.current
  BY <1>1 DEF Shaped, Fields
<1> QED
  BY <1>1, <1>2, <1>3 DEF SameHandshake, Shaped, CurrentSession

\* The loop that flushes the queue: what waits afterwards has a handshake.
LEMMA FlushedOutcome ==
    ASSUME NEW t, NEW k, Shaped(t)
    PROVE  Outcome(t, Flushed(t, k), k)
<1>1. CASE t.packet_queue = <<>>
  <2>1. Flushed(t, k) = Result(t, <<>>)
    BY <1>1 DEF Flushed
  <2> QED
    BY <1>1, <2>1, FewIs DEF Outcome, Result, DataOnly, Waits
<1>2. CASE t.packet_queue # <<>> /\ CurrentSession(t) # NoSession
  <2> DEFINE q == t.packet_queue
             out == [i \in DOMAIN q |-> Seal(CurrentSession(t), q[i])]
  <2>1. PICK u : u = [t EXCEPT !.packet_queue = <<>>]
    OBVIOUS
  <2>2. Flushed(t, k) = Result(u, out)
    BY <1>2, <2>1 DEF Flushed
  <2>3. /\ DOMAIN u = Fields /\ u.packet_queue = <<>> /\ u.state = t.state
    BY <2>1 DEF Shaped, Fields
  <2>4. IsSeq(out)
    <3>1. PICK T : q \in Seq(T)
      BY DEF Shaped, IsSeq
    <3>2. DOMAIN q = 1..Len(q) /\ Len(q) \in Nat
      BY <3>1
    <3>3. out = [i \in 1..Len(q) |-> Seal(CurrentSession(t), q[i])]
      BY <3>2
    <3> HIDE DEF out, q
    <3>4. DOMAIN out = 1..Len(q) /\ out = [i \in 1..Len(q) |-> out[i]]
      BY <3>3
    <3>5. out \in [1..Len(q) -> {out[j] : j \in 1..Len(q)}]
      BY <3>4
    <3>6. out \in Seq({out[j] : j \in 1..Len(q)})
      BY <3>2, <3>5
    <3> QED
      BY <3>6 DEF IsSeq
  <2>5. DataOnly(out)
    <3>1. \A i \in DOMAIN q : Seal(CurrentSession(t), q[i]).type = "data"
      BY DEF Seal, DataMsg
    <3>2. ToSet(out) = {Seal(CurrentSession(t), q[i]) : i \in DOMAIN q}
      BY DEF ToSet
    <3> QED
      BY <3>1, <3>2 DEF DataOnly
  <2> HIDE DEF out
  <2>6. Shaped(u) /\ Waits(u)
    BY <2>3, FewIs DEF Shaped, Waits
  <2> QED
    BY <2>2, <2>3, <2>4, <2>5, <2>6 DEF Outcome, Result
<1>3. CASE t.packet_queue # <<>> /\ CurrentSession(t) = NoSession
  <2>1. PICK u, p : u = [t EXCEPT !.packet_queue = Tail(@)] /\ p = Head(t.packet_queue)
    OBVIOUS
  <2>2. SameHandshake(t, u)
    BY <1>3, <2>1, TailIs
  <2>3. PICK r : r = SendQueued(t, k)
    OBVIOUS
  <2>4. r = Encapsulated(u, p, k)
    BY <2>1, <2>3 DEF SendQueued
  <2>5. /\ Outcome(u, r, k) /\ InProgress(r.tunn)
        /\ CurrentSession(r.tunn) = NoSession /\ r.tunn.packet_queue # <<>>
    BY <1>3, <2>2, <2>4, WaitingOutcome DEF SameHandshake
  <2>6. Outcome(t, r, k)
    BY <2>2, <2>5 DEF Outcome, SameHandshake
  <2>7. CASE r.out = <<>>
    <3>1. Flushed(t, k) = r
      BY <1>3, <2>3, <2>7 DEF Flushed
    <3> QED
      BY <2>6, <3>1
  <2>8. CASE r.out # <<>>
    <3>1. PICK z : z = SendQueued(r.tunn, k)
      OBVIOUS
    <3>2. Flushed(t, k) = Result(z.tunn, r.out)
      BY <1>3, <2>3, <2>8, <3>1 DEF Flushed
    <3>3. PICK v, x : v = [r.tunn EXCEPT !.packet_queue = Tail(@)]
                      /\ x = Head(r.tunn.packet_queue)
      OBVIOUS
    <3>4. SameHandshake(r.tunn, v)
      BY <2>5, <3>3, TailIs DEF Outcome
    <3>5. z = Encapsulated(v, x, k)
      BY <3>1, <3>3 DEF SendQueued
    <3>6. Shaped(v) /\ CurrentSession(v) = NoSession /\ InProgress(v)
      BY <2>5, <3>4 DEF SameHandshake, InProgress
    <3>7. /\ Shaped(z.tunn) /\ InProgress(z.tunn)
          /\ z.tunn.state = v.state
      BY <3>5, <3>6, WaitingOutcome DEF Outcome
    <3>8. z.tunn.state = r.tunn.state
      BY <3>4, <3>7 DEF SameHandshake
    <3> QED
      BY <2>6, <3>2, <3>7, <3>8 DEF Outcome, Result, Waits
  <2> QED
    BY <2>7, <2>8
<1> QED
  BY <1>1, <1>2, <1>3

\* A session stored in the ring.
LEMMA StoredIs ==
    ASSUME NEW t, NEW s, Shaped(t)
    PROVE  Shaped(StoreSession(t, s)) /\ StoreSession(t, s).state = t.state
<1>1. PICK u : u = StoreSession(t, s)
  OBVIOUS
<1>2. DOMAIN u = Fields /\ u.packet_queue = t.packet_queue /\ u.state = t.state
  BY <1>1 DEF StoreSession, Shaped, Fields
<1> QED
  BY <1>1, <1>2 DEF Shaped

\* A session made current, which does not concern the handshake.
LEMMA CurrentIs ==
    ASSUME NEW t, NEW i, Shaped(t)
    PROVE  Shaped(SetCurrent(t, i)) /\ SetCurrent(t, i).state = t.state
<1>1. PICK u, v : u = SetCurrent(t, i) /\ v = [t EXCEPT !.current = i]
  OBVIOUS
<1>2. DOMAIN v = Fields /\ v.packet_queue = t.packet_queue /\ v.state = t.state
  BY <1>1 DEF Shaped, Fields
<1>3. u = t \/ u = v
  BY <1>1 DEF SetCurrent
<1> QED
  BY <1>1, <1>2, <1>3 DEF Shaped

\* A response ends the handshake it was looked up with.
LEMMA AnsweredIs ==
    ASSUME NEW t, NEW m, Shaped(t)
    PROVE  /\ Shaped(Answered(t, m))
           /\ Answered(t, m).state = IF IsSent(t.state, m.receiver) THEN None ELSE t.state
<1>1. PICK u, v, w : /\ u = Answered(t, m)
                     /\ v = [t EXCEPT !.state = None] /\ w = [t EXCEPT !.previous = None]
  OBVIOUS
<1>2. /\ DOMAIN v = Fields /\ v.packet_queue = t.packet_queue /\ v.state = None
      /\ DOMAIN w = Fields /\ w.packet_queue = t.packet_queue /\ w.state = t.state
  BY <1>1 DEF Shaped, Fields
<1>3. u = IF IsSent(t.state, m.receiver) THEN v ELSE w
  BY <1>1 DEF Answered
<1> QED
  BY <1>1, <1>2, <1>3 DEF Shaped

Types == {"init", "response", "data", "cookie"}

\* The response to the handshake in progress.
Answers(t, m) ==
    /\ InProgress(t) /\ m.type = "response"
    /\ m.answers = t.state.eph /\ m.receiver = t.state.index

\* What handle_verified_packet does with a message m to e, with k to draw.
HandlesInit(e, m, k, r) ==
    /\ m.type = "init" /\ ~(m.eph <= heard[e])
    /\ r.tunn.state = None
    /\ \E i : ToSet(r.out) = {ResponseMsg(i, m.sender, m.eph, k)}

HandlesOther(e, m, r) ==
    /\ m.type = "init" => m.eph <= heard[e]
    /\ DataOnly(r.out)
    /\ r.tunn.state = None \/ r.tunn.state = tunn[e].state
    /\ Answers(tunn[e], m) => r.tunn.state = None

\* Handle a response.
LEMMA EstablishedIs ==
    ASSUME NEW e, NEW m, Shaped(tunn[e]), m.type = "response"
    PROVE  LET r == Established(tunn[e], m) IN
           Shaped(r.tunn) /\ IsSeq(r.out) /\ HandlesOther(e, m, r)
<1>1. PICK s, u, v, w, r :
        /\ s = [local |-> m.receiver, peer |-> m.sender,
                key |-> <<m.answers, m.eph>>, initiator |-> TRUE]
        /\ u = Answered(tunn[e], m) /\ v = StoreSession(u, s)
        /\ w = SetCurrent(v, s.local) /\ r = Established(tunn[e], m)
  OBVIOUS
<1>2. r.tunn = w /\ r.out = <<Seal(s, KeepAlive)>>
  BY <1>1 DEF Established, Result
<1>3. Shaped(w) /\ w.state = u.state
  BY <1>1, AnsweredIs, StoredIs, CurrentIs
<1>4. u.state = IF IsSent(tunn[e].state, m.receiver) THEN None ELSE tunn[e].state
  BY <1>1, AnsweredIs
<1>5. Seal(s, KeepAlive).type = "data"
  BY DEF Seal, DataMsg
<1>6. DataOnly(r.out) /\ IsSeq(r.out)
  BY <1>2, <1>5, FewIs DEF DataOnly
<1>7. Answers(tunn[e], m) => r.tunn.state = None
  BY <1>2, <1>3, <1>4 DEF Answers, IsSent, InProgress
<1>8. r.tunn.state = None \/ r.tunn.state = tunn[e].state
  BY <1>2, <1>3, <1>4
<1> QED
  BY <1>1, <1>2, <1>3, <1>6, <1>7, <1>8 DEF HandlesOther

\* Handle an initiation.
LEMMA RespondedIs ==
    ASSUME NEW e, NEW m, NEW k, Shaped(tunn[e]), m.type = "init", ~(m.eph <= heard[e])
    PROVE  LET r == Responded(tunn[e], m, k) IN
           Shaped(r.tunn) /\ IsSeq(r.out) /\ HandlesInit(e, m, k, r)
<1>1. PICK i, s, u, v, r :
        /\ i = IncIndex(tunn[e].next_index)
        /\ s = [local |-> i, peer |-> m.sender, key |-> <<m.eph, k>>,
                initiator |-> FALSE]
        /\ u = [tunn[e] EXCEPT !.next_index = i, !.previous = tunn[e].state, !.state = None]
        /\ v = StoreSession(u, s) /\ r = Responded(tunn[e], m, k)
  OBVIOUS
<1>2. r.tunn = v /\ r.out = <<ResponseMsg(i, m.sender, m.eph, k)>>
  BY <1>1 DEF Responded, Result
<1>3. DOMAIN u = Fields /\ u.packet_queue = tunn[e].packet_queue /\ u.state = None
  BY <1>1 DEF Shaped, Fields
<1>4. Shaped(u)
  BY <1>3 DEF Shaped
<1>5. Shaped(v) /\ v.state = None
  <2>1. v = StoreSession(u, s)
    BY <1>1
  <2> QED
    BY <1>3, <1>4, <2>1, StoredIs
<1>6. IsSeq(r.out) /\ ToSet(r.out) = {ResponseMsg(i, m.sender, m.eph, k)}
  BY <1>2, FewIs
<1> QED
  BY <1>1, <1>2, <1>5, <1>6 DEF HandlesInit

\* handle_verified_packet.
LEMMA HandledIs ==
    ASSUME NEW e, NEW m, NEW k, Shaped(tunn[e]), m.type \in Types
    PROVE  LET r == Handled(e, m, k) IN
           /\ Shaped(r.tunn) /\ IsSeq(r.out)
           /\ IF m.type = "init" /\ ~Refused(e, m)
              THEN HandlesInit(e, m, k, r) ELSE HandlesOther(e, m, r)
<1>1. PICK r : r = Handled(e, m, k)
  OBVIOUS
<1>2. CASE Refused(e, m)
  <2>1. r.tunn = tunn[e] /\ r.out = <<>>
    BY <1>1, <1>2 DEF Handled, Result
  <2>2. m.type = "init" => m.eph <= heard[e]
    BY <1>2 DEF Refused
  <2>3. ~Answers(tunn[e], m)
    BY <1>2 DEF Refused, Opens, Awaited, Answers, IsSent, InProgress
  <2> QED
    BY <1>1, <1>2, <2>1, <2>2, <2>3, FewIs DEF HandlesOther, DataOnly
<1>3. CASE ~Refused(e, m) /\ m.type = "init"
  <2>1. r = Responded(tunn[e], m, k)
    BY <1>1, <1>3 DEF Handled
  <2>2. ~(m.eph <= heard[e])
    BY <1>3 DEF Refused
  <2> QED
    BY <1>1, <1>3, <2>1, <2>2, RespondedIs
<1>4. CASE ~Refused(e, m) /\ m.type = "response"
  <2>1. r = Established(tunn[e], m)
    BY <1>1, <1>4 DEF Handled
  <2> QED
    BY <1>1, <1>4, <2>1, EstablishedIs
<1>5. CASE ~Refused(e, m) /\ m.type = "data"
  <2>1. r = Result(SetCurrent(tunn[e], m.receiver), <<>>)
    BY <1>1, <1>5 DEF Handled
  <2>2. r.tunn = SetCurrent(tunn[e], m.receiver) /\ r.out = <<>>
    BY <2>1 DEF Result
  <2>3. Shaped(r.tunn) /\ r.tunn.state = tunn[e].state
    BY <2>2, CurrentIs
  <2> QED
    BY <1>1, <1>5, <2>2, <2>3, FewIs DEF HandlesOther, DataOnly, Answers
<1>6. m.type = "init" \/ m.type = "response" \/ m.type = "data" \/ Refused(e, m)
  BY DEF Types, Refused
<1> QED
  BY <1>2, <1>3, <1>4, <1>5, <1>6

-----------------------------------------------------------------------------
(* The streams.                                                            *)

ConnFields == {"maker", "toward", "state", "accepted", "closed", "to"}

WiredIn(cs) ==
    /\ DOMAIN cs = Conns
    /\ \A c \in Conns :
        /\ DOMAIN cs[c] = ConnFields /\ DOMAIN cs[c].to = Endpoints
        /\ \A e \in Endpoints : IsSeq(cs[c].to[e])

\* What is under way to e.
ToIn(cs, e) == UNION {ToSet(cs[c].to[e]) : c \in Conns}

\* The two endpoints.
LEMMA PeerIs ==
    ASSUME NEW e \in Endpoints
    PROVE  /\ Peer(e) \in Endpoints /\ Peer(e) # e /\ Peer(Peer(e)) = e
           /\ \A f \in Endpoints : f = e \/ f = Peer(e)
BY TunnAssumption DEF Endpoints, Peer

\* A stream is written.
LEMMA WrittenIs ==
    ASSUME NEW cs, WiredIn(cs), NEW e \in Endpoints, NEW c \in Conns,
           NEW msgs, IsSeq(msgs)
    PROVE  LET w == Written(cs, e, c, msgs) IN
           /\ WiredIn(w)
           /\ ToIn(w, Peer(e)) = ToIn(cs, Peer(e)) \cup ToSet(msgs)
           /\ ToIn(w, e) = ToIn(cs, e)
<1>1. PICK w : w = Written(cs, e, c, msgs)
  OBVIOUS
<1>2. PICK q : q = cs[c].to[Peer(e)] \o msgs
  OBVIOUS
<1>3. /\ DOMAIN w = Conns /\ DOMAIN w[c] = ConnFields /\ DOMAIN w[c].to = Endpoints
      /\ w[c].to[Peer(e)] = q /\ w[c].to[e] = cs[c].to[e]
      /\ \A d \in Conns \ {c} : w[d] = cs[d]
  BY <1>1, <1>2, PeerIs DEF Written, WiredIn, ConnFields
<1>4. IsSeq(q) /\ ToSet(q) = ToSet(cs[c].to[Peer(e)]) \cup ToSet(msgs)
  BY <1>2, PeerIs, JoinIs DEF WiredIn
<1>5. WiredIn(w)
  BY <1>3, <1>4, PeerIs DEF WiredIn
<1>6. ToIn(w, e) = ToIn(cs, e)
  BY <1>3 DEF ToIn
<1>7. \A d \in Conns \ {c} : ToSet(w[d].to[Peer(e)]) = ToSet(cs[d].to[Peer(e)])
  BY <1>3
<1>8. ToSet(w[c].to[Peer(e)]) = ToSet(cs[c].to[Peer(e)]) \cup ToSet(msgs)
  BY <1>3, <1>4
<1>9. ToIn(w, Peer(e)) = ToIn(cs, Peer(e)) \cup ToSet(msgs)
  BY <1>7, <1>8 DEF ToIn
<1> QED
  BY <1>1, <1>5, <1>6, <1>9

\* A frame is read.
ReadFrom(cs, e, c, w) ==
    cs[c].to[e] # <<>> /\ w = [cs EXCEPT ![c].to[e] = Tail(@)]

\* What is left of the streams.
LEMMA ReadIs ==
    ASSUME NEW cs, WiredIn(cs), NEW e \in Endpoints, NEW c \in Conns,
           NEW w, ReadFrom(cs, e, c, w)
    PROVE  /\ WiredIn(w)
           /\ ToIn(w, Peer(e)) = ToIn(cs, Peer(e))
           /\ ToIn(cs, e) = {Head(cs[c].to[e])} \cup ToIn(w, e)
<1>0. cs[c].to[e] # <<>> /\ w = [cs EXCEPT ![c].to[e] = Tail(@)]
  BY DEF ReadFrom
<1>1. PICK q : q = Tail(cs[c].to[e])
  OBVIOUS
<1>2. /\ DOMAIN w = Conns /\ DOMAIN w[c] = ConnFields /\ DOMAIN w[c].to = Endpoints
      /\ w[c].to[e] = q /\ w[c].to[Peer(e)] = cs[c].to[Peer(e)]
      /\ \A d \in Conns \ {c} : w[d] = cs[d]
  BY <1>0, <1>1, PeerIs DEF WiredIn, ConnFields
<1>3. IsSeq(q) /\ ToSet(cs[c].to[e]) = {Head(cs[c].to[e])} \cup ToSet(q)
  BY <1>0, <1>1, HeadIs DEF WiredIn
<1>4. WiredIn(w)
  BY <1>2, <1>3, PeerIs DEF WiredIn
<1>5. ToIn(w, Peer(e)) = ToIn(cs, Peer(e))
  BY <1>2 DEF ToIn
<1>6. \A d \in Conns \ {c} : ToSet(w[d].to[e]) = ToSet(cs[d].to[e])
  BY <1>2
<1>7. ToSet(cs[c].to[e]) = {Head(cs[c].to[e])} \cup ToSet(w[c].to[e])
  BY <1>2, <1>3
<1>8. ToIn(cs, e) = {Head(cs[c].to[e])} \cup ToIn(w, e)
  BY <1>6, <1>7 DEF ToIn
<1> QED
  BY <1>4, <1>5, <1>8

\* The fields of a connection other than its streams change.
SameStreams(cs, w) ==
    /\ DOMAIN w = Conns
    /\ \A c \in Conns : DOMAIN w[c] = ConnFields /\ w[c].to = cs[c].to

\* They have the same messages.
LEMMA SameStreamsIs ==
    ASSUME NEW cs, NEW w, WiredIn(cs), SameStreams(cs, w)
    PROVE  WiredIn(w) /\ \A e : ToIn(w, e) = ToIn(cs, e)
BY DEF WiredIn, SameStreams, ToIn

\* With x its handshake is lost.
Loses(x, ds) ==
    /\ x.type = "init" => x.eph \in ds
    /\ x.type = "response" => x.answers \in ds

\* What is hopeless is counted with dropped.
LEMMA HopelessIs ==
    ASSUME NEW msgs, NEW ds, Hopeless(msgs) \subseteq ds, NEW x \in ToSet(msgs)
    PROVE  Loses(x, ds)
BY DEF Hopeless, Loses

\* Streams are emptied, and what was on them is lost.
Emptied(cs, w, ds) ==
    /\ DOMAIN w = Conns
    /\ \A c \in Conns :
        /\ DOMAIN w[c] = ConnFields /\ DOMAIN w[c].to = Endpoints
        /\ \A f \in Endpoints :
            \/ w[c].to[f] = cs[c].to[f]
            \/ w[c].to[f] = <<>> /\ Hopeless(cs[c].to[f]) \subseteq ds

\* Nothing is added, and what is gone is counted.
LEMMA EmptiedIs ==
    ASSUME NEW cs, NEW w, NEW ds, WiredIn(cs), Emptied(cs, w, ds)
    PROVE  /\ WiredIn(w)
           /\ \A f \in Endpoints : \A x \in ToIn(w, f) : x \in ToIn(cs, f)
           /\ \A f \in Endpoints : \A x \in ToIn(cs, f) : x \in ToIn(w, f) \/ Loses(x, ds)
<1>1. WiredIn(w)
  BY FewIs DEF WiredIn, Emptied
<1>2. ASSUME NEW f \in Endpoints, NEW x \in ToIn(w, f) PROVE x \in ToIn(cs, f)
  <2>1. PICK c \in Conns : x \in ToSet(w[c].to[f])
    BY <1>2 DEF ToIn
  <2>2. w[c].to[f] = cs[c].to[f]
    BY <2>1, FewIs DEF Emptied
  <2> QED
    BY <2>1, <2>2 DEF ToIn
<1>3. ASSUME NEW f \in Endpoints, NEW x \in ToIn(cs, f)
      PROVE x \in ToIn(w, f) \/ Loses(x, ds)
  <2>1. PICK c \in Conns : x \in ToSet(cs[c].to[f])
    BY <1>3 DEF ToIn
  <2>2. CASE w[c].to[f] = cs[c].to[f]
    BY <2>1, <2>2 DEF ToIn
  <2>3. CASE Hopeless(cs[c].to[f]) \subseteq ds
    BY <2>1, <2>3, HopelessIs
  <2> QED
    BY <2>2, <2>3 DEF Emptied
<1> QED
  BY <1>1, <1>2, <1>3

\* e has read the messages read, and sent those in sent, or they are lost.
Delivered(cs, ds, e, read, sent) ==
    /\ WiredIn(cs)
    /\ \A x \in ToIn(conns, Peer(e)) : x \in ToIn(cs, Peer(e))
    /\ \A x \in ToIn(cs, Peer(e)) : x \in ToIn(conns, Peer(e)) \/ x \in sent
    /\ \A x \in ToIn(cs, e) : x \in ToIn(conns, e)
    /\ \A x \in ToIn(conns, e) : x \in ToIn(cs, e) \/ x \in read
    /\ \A x \in sent : x \in ToIn(cs, Peer(e)) \/ Loses(x, ds)
    /\ \A x \in dropped : x \in ds

-----------------------------------------------------------------------------
(* The inductive invariant.                                                *)

Whole ==
    /\ DOMAIN tunn = Endpoints /\ DOMAIN heard = Endpoints /\ WiredIn(conns)
    /\ \A e \in Endpoints : Shaped(tunn[e]) /\ Waits(tunn[e])

\* Ephemerals are drawn in order.
Counted == \E n \in Nat : used = 1..n

\* What refers to an ephemeral refers to one that was drawn.
Known ==
    \A e \in Endpoints :
        /\ \A m \in ToIn(conns, e) :
            /\ m.type \in Types
            /\ m.type = "init" => m.eph \in used
            /\ m.type = "response" => m.answers \in used
        /\ heard[e] \in used \cup {0}
        /\ InProgress(tunn[e]) => tunn[e].state.eph \in used

\* No initiation is later than the handshake of its sender, and what belongs to
\* that handshake has its index.
Paired(e) ==
    LET h == tunn[e].state IN
    InProgress(tunn[e]) =>
        /\ \A m \in ToIn(conns, Peer(e)) :
            m.type = "init" => m.eph <= h.eph /\ (m.eph = h.eph => m.sender = h.index)
        /\ \A m \in ToIn(conns, e) :
            m.type = "response" /\ m.answers = h.eph => m.receiver = h.index

\* Where the handshake of e is: lost, on the way to a peer that will accept it,
\* or answered.
Tracked(e) ==
    LET k == tunn[e].state.eph IN
    InProgress(tunn[e]) =>
        \/ k \in dropped
        \/ /\ ~(k <= heard[Peer(e)])
           /\ \E m \in ToIn(conns, Peer(e)) : m.type = "init" /\ m.eph = k
        \/ \E m \in ToIn(conns, e) : m.type = "response" /\ m.answers = k

StuckInv ==
    /\ Whole /\ Counted /\ Known
    /\ \A e \in Endpoints : Paired(e)
    /\ \A e \in Endpoints : Tracked(e)

-----------------------------------------------------------------------------
(* A step in which e reads the messages in read and sends those in sent.   *)

Newer(k) == k \in Nat /\ 0 < k /\ \A i \in used : i < k

Sends(sent, type) == \E x \in sent : x.type = type

Continues(e, sent) ==
    /\ tunn'[e].state = tunn[e].state
    /\ ~Sends(sent, "init")

Ends(e, sent) ==
    /\ ~InProgress(tunn'[e])
    /\ ~Sends(sent, "init")

Begins(e, sent) ==
    \E j, k :
        /\ tunn'[e].state = InitSent(j, k)
        /\ k \in used' /\ Newer(k)
        /\ InitMsg(j, k) \in sent
        /\ \A x \in sent : x.type = "init" => x = InitMsg(j, k)

Accepts(e, read, sent) ==
    \E m, i, k :
        /\ m \in ToIn(conns, e)
        /\ read = {m} /\ m.type = "init"
        /\ ~(m.eph <= heard[e]) /\ heard' = [heard EXCEPT ![e] = m.eph]
        /\ ResponseMsg(i, m.sender, m.eph, k) \in sent
        /\ \A x \in sent : x.type = "response" => x = ResponseMsg(i, m.sender, m.eph, k)

Passes(e, read, sent) ==
    /\ heard' = heard
    /\ ~Sends(sent, "response")
    /\ \A m \in read :
        /\ m.type = "init" => m.eph <= heard[e]
        /\ Answers(tunn[e], m) => tunn'[e].state # tunn[e].state

Move(e, read, sent) ==
    /\ Delivered(conns', dropped', e, read, sent)
    /\ DOMAIN tunn' = Endpoints /\ tunn'[Peer(e)] = tunn[Peer(e)]
    /\ Shaped(tunn'[e]) /\ Waits(tunn'[e])
    /\ used \subseteq used' /\ Counted'
    /\ \A x \in sent : x.type \in Types
    /\ Continues(e, sent) \/ Ends(e, sent) \/ Begins(e, sent)
    /\ Accepts(e, read, sent) \/ Passes(e, read, sent)

\* Numbers that can be compared.
LEMMA UsedIs ==
    ASSUME Counted
    PROVE  \A k \in used \cup {0} : k \in Nat
BY DEF Counted

\* Accepting changes what e has heard, and nothing else does.
LEMMA HeardIs ==
    ASSUME NEW e \in Endpoints, NEW read, NEW sent, Move(e, read, sent), StuckInv
    PROVE  /\ DOMAIN heard' = Endpoints /\ heard'[Peer(e)] = heard[Peer(e)]
           /\ heard'[e] \in used \cup {0}
<1>1. DOMAIN heard = Endpoints /\ heard[e] \in used \cup {0}
  BY DEF StuckInv, Whole, Known
<1>2. CASE Passes(e, read, sent)
  BY <1>1, <1>2 DEF Passes
<1>3. CASE Accepts(e, read, sent)
  <2>1. PICK m \in ToIn(conns, e) : m.type = "init" /\ heard' = [heard EXCEPT ![e] = m.eph]
    BY <1>3 DEF Accepts
  <2>2. m.eph \in used
    BY <2>1 DEF StuckInv, Known
  <2> QED
    BY <1>1, <2>1, <2>2, PeerIs
<1> QED
  BY <1>2, <1>3 DEF Move

\* What is on the streams after the step has been there before, or was sent.
LEMMA OnStreams ==
    ASSUME NEW e \in Endpoints, NEW read, NEW sent, Move(e, read, sent)
    PROVE  /\ \A x \in ToIn(conns', Peer(e)) : x \in ToIn(conns, Peer(e)) \/ x \in sent
           /\ \A x \in ToIn(conns', e) : x \in ToIn(conns, e)
           /\ \A x \in ToIn(conns, Peer(e)) : x \in ToIn(conns', Peer(e))
           /\ \A x \in ToIn(conns, e) : x \in ToIn(conns', e) \/ x \in read
           /\ \A x \in sent : x \in ToIn(conns', Peer(e)) \/ Loses(x, dropped')
           /\ \A x \in dropped : x \in dropped'
BY DEF Move, Delivered

\* The parts of the invariant that relate messages to what was drawn.
LEMMA KnownKept ==
    ASSUME NEW e \in Endpoints, NEW read, NEW sent, Move(e, read, sent), StuckInv
    PROVE  Whole' /\ Known'
<1>1. /\ \A f \in Endpoints : f = e \/ f = Peer(e)
      /\ Peer(e) \in Endpoints /\ Peer(e) # e
  BY PeerIs
<1>2. used \subseteq used'
  BY DEF Move
<1>3. Whole'
  BY <1>1, HeardIs DEF Move, Delivered, StuckInv, Whole
<1>4. ASSUME NEW f \in Endpoints, NEW x \in ToIn(conns, f)
      PROVE /\ x.type \in Types /\ (x.type = "init" => x.eph \in used')
            /\ x.type = "response" => x.answers \in used'
  BY <1>2, <1>4 DEF StuckInv, Known
<1>5. ASSUME NEW x \in sent
      PROVE /\ x.type \in Types /\ (x.type = "init" => x.eph \in used')
            /\ x.type = "response" => x.answers \in used'
  <2>1. x.type \in Types
    BY DEF Move
  <2>2. x.type = "init" => x.eph \in used'
    <3>1. ASSUME x.type = "init" PROVE \E j, k : x = InitMsg(j, k) /\ k \in used'
      <4>1. Begins(e, sent)
        BY <1>5, <3>1 DEF Move, Continues, Ends, Sends
      <4> QED
        BY <3>1, <4>1 DEF Begins
    <3> QED
      BY <3>1 DEF InitMsg
  <2>3. x.type = "response" => x.answers \in used'
    <3>1. ASSUME x.type = "response"
          PROVE \E m, i, k :
                    /\ m \in ToIn(conns, e)
                    /\ m.type = "init" /\ x = ResponseMsg(i, m.sender, m.eph, k)
      <4>1. Accepts(e, read, sent)
        BY <1>5, <3>1 DEF Move, Passes, Sends
      <4> QED
        BY <3>1, <4>1 DEF Accepts
    <3> QED
      BY <1>4, <3>1 DEF ResponseMsg
  <2> QED
    BY <2>1, <2>2, <2>3
<1>6. ASSUME NEW f \in Endpoints, NEW x \in ToIn(conns', f)
      PROVE /\ x.type \in Types /\ (x.type = "init" => x.eph \in used')
            /\ x.type = "response" => x.answers \in used'
  <2>1. x \in ToIn(conns, f) \/ x \in sent
    BY <1>1, <1>6, OnStreams
  <2> QED
    BY <1>4, <1>5, <2>1
<1>7. ASSUME NEW f \in Endpoints PROVE heard'[f] \in used' \cup {0}
  BY <1>1, <1>2, HeardIs DEF StuckInv, Known
<1>8. ASSUME NEW f \in Endpoints, InProgress(tunn'[f])
      PROVE tunn'[f].state.eph \in used'
  <2>1. CASE f = Peer(e)
    BY <1>2, <1>8, <2>1 DEF Move, StuckInv, Known
  <2>2. CASE f = e /\ Continues(e, sent)
    BY <1>2, <1>8, <2>2 DEF Continues, InProgress, StuckInv, Known
  <2>3. CASE f = e /\ Begins(e, sent)
    BY <2>3 DEF Begins, InitSent
  <2> QED
    BY <1>1, <1>8, <2>1, <2>2, <2>3 DEF Move, Ends
<1>9. Known'
  BY <1>6, <1>7, <1>8 DEF Known
<1> QED
  BY <1>3, <1>9

\* The handshake of e itself.
LEMMA OwnPairKept ==
    ASSUME NEW e \in Endpoints, NEW read, NEW sent, Move(e, read, sent), StuckInv
    PROVE  Paired(e)'
<1>1. SUFFICES ASSUME InProgress(tunn'[e])
               PROVE  /\ \A m \in ToIn(conns', Peer(e)) : m.type = "init" =>
                            /\ m.eph <= tunn'[e].state.eph
                            /\ m.eph = tunn'[e].state.eph => m.sender = tunn'[e].state.index
                      /\ \A m \in ToIn(conns', e) :
                            m.type = "response" /\ m.answers = tunn'[e].state.eph =>
                                m.receiver = tunn'[e].state.index
  BY DEF Paired
<1>2. CASE Continues(e, sent)
  <2>1. /\ tunn'[e].state = tunn[e].state /\ InProgress(tunn[e])
        /\ \A x \in sent : x.type # "init"
    BY <1>1, <1>2 DEF Continues, Sends, InProgress
  <2>2. Paired(e)
    BY DEF StuckInv
  <2> QED
    BY <2>1, <2>2, OnStreams DEF Paired
<1>3. CASE Begins(e, sent)
  <2>1. PICK j, k : /\ tunn'[e].state.eph = k /\ tunn'[e].state.index = j /\ Newer(k)
                    /\ \A x \in sent : x.type = "init" => x.eph = k /\ x.sender = j
    BY <1>3 DEF Begins, InitSent, InitMsg
  <2>2. ASSUME NEW m \in ToIn(conns', Peer(e)), m.type = "init"
        PROVE  m.eph <= k /\ (m.eph = k => m.sender = j)
    <3>1. CASE m \in sent
      BY <2>1, <2>2, <3>1 DEF Newer
    <3>2. CASE m \in ToIn(conns, Peer(e))
      <4>1. m.eph \in used
        BY <2>2, <3>2, PeerIs DEF StuckInv, Known
      <4>2. m.eph \in Nat /\ k \in Nat /\ m.eph < k
        BY <2>1, <4>1, UsedIs DEF StuckInv, Newer
      <4> QED
        BY <4>2
    <3> QED
      BY <2>2, <3>1, <3>2, OnStreams
  <2>3. ASSUME NEW m \in ToIn(conns', e), m.type = "response", m.answers = k PROVE FALSE
    <3>1. m.answers \in used
      BY <2>3, OnStreams DEF StuckInv, Known
    <3>2. k \in Nat /\ k < k
      BY <2>1, <2>3, <3>1 DEF Newer
    <3> QED
      BY <3>2
  <2> QED
    BY <2>1, <2>2, <2>3
<1> QED
  BY <1>1, <1>2, <1>3 DEF Move, Ends

\* The handshake of its peer.
LEMMA OtherPairKept ==
    ASSUME NEW e \in Endpoints, NEW read, NEW sent, Move(e, read, sent), StuckInv
    PROVE  Paired(Peer(e))'
<1>1. PICK f \in Endpoints : f = Peer(e) /\ Peer(f) = e
  BY PeerIs
<1>2. Paired(f) /\ tunn'[f] = tunn[f]
  BY <1>1 DEF StuckInv, Move
<1>3. SUFFICES ASSUME InProgress(tunn[f])
               PROVE  /\ \A m \in ToIn(conns', e) : m.type = "init" =>
                            /\ m.eph <= tunn[f].state.eph
                            /\ m.eph = tunn[f].state.eph => m.sender = tunn[f].state.index
                      /\ \A m \in ToIn(conns', f) :
                            m.type = "response" /\ m.answers = tunn[f].state.eph =>
                                m.receiver = tunn[f].state.index
  BY <1>1, <1>2 DEF Paired
<1>4. \A m \in ToIn(conns, e) : m.type = "init" =>
        /\ m.eph <= tunn[f].state.eph
        /\ m.eph = tunn[f].state.eph => m.sender = tunn[f].state.index
  BY <1>1, <1>2, <1>3 DEF Paired
<1>5. ASSUME NEW m \in ToIn(conns', f), m.type = "response", m.answers = tunn[f].state.eph
      PROVE  m.receiver = tunn[f].state.index
  <2>1. CASE m \in ToIn(conns, f)
    BY <1>2, <1>3, <1>5, <2>1 DEF Paired
  <2>2. CASE m \in sent
    <3>1. Accepts(e, read, sent)
      BY <1>5, <2>2 DEF Move, Passes, Sends
    <3>2. PICK x, i, k :
            x \in ToIn(conns, e) /\ x.type = "init" /\ m = ResponseMsg(i, x.sender, x.eph, k)
      BY <1>5, <2>2, <3>1 DEF Accepts
    <3>3. m.answers = x.eph /\ m.receiver = x.sender
      BY <3>2 DEF ResponseMsg
    <3> QED
      BY <1>4, <1>5, <3>2, <3>3
  <2> QED
    BY <1>1, <1>5, <2>1, <2>2, OnStreams
<1> QED
  BY <1>4, <1>5, OnStreams

\* The handshake of e can still be answered, or is lost.
LEMMA OwnTrackKept ==
    ASSUME NEW e \in Endpoints, NEW read, NEW sent, Move(e, read, sent), StuckInv
    PROVE  Tracked(e)'
<1>1. SUFFICES ASSUME InProgress(tunn'[e])
               PROVE  \/ tunn'[e].state.eph \in dropped'
                      \/ /\ ~(tunn'[e].state.eph <= heard'[Peer(e)])
                         /\ \E m \in ToIn(conns', Peer(e)) :
                                m.type = "init" /\ m.eph = tunn'[e].state.eph
                      \/ \E m \in ToIn(conns', e) :
                            m.type = "response" /\ m.answers = tunn'[e].state.eph
  BY DEF Tracked
<1>2. heard'[Peer(e)] = heard[Peer(e)]
  BY HeardIs
<1>3. CASE Continues(e, sent)
  <2>1. /\ tunn'[e].state = tunn[e].state /\ InProgress(tunn[e])
    BY <1>1, <1>3 DEF Continues, InProgress
  <2>2. Tracked(e) /\ Paired(e)
    BY DEF StuckInv
  <2>3. CASE tunn[e].state.eph \in dropped
    BY <2>1, <2>3, OnStreams
  <2>4. CASE /\ ~(tunn[e].state.eph <= heard[Peer(e)])
             /\ \E m \in ToIn(conns, Peer(e)) : m.type = "init" /\ m.eph = tunn[e].state.eph
    BY <1>2, <2>1, <2>4, OnStreams
  <2>5. ASSUME NEW m \in ToIn(conns, e), m.type = "response", m.answers = tunn[e].state.eph
        PROVE  m \in ToIn(conns', e)
    <3>1. m.receiver = tunn[e].state.index
      BY <2>1, <2>2, <2>5 DEF Paired
    <3>2. Answers(tunn[e], m)
      BY <2>1, <2>5, <3>1 DEF Answers
    <3>3. m \notin read
      <4>1. Passes(e, read, sent) => m \notin read
        BY <2>1, <3>2 DEF Passes
      <4>2. Accepts(e, read, sent) => m \notin read
        BY <2>5 DEF Accepts
      <4> QED
        BY <4>1, <4>2 DEF Move
    <3> QED
      BY <2>5, <3>3, OnStreams
  <2> QED
    BY <2>1, <2>2, <2>3, <2>4, <2>5 DEF Tracked
<1>4. CASE Begins(e, sent)
  <2>1. PICK j, k : /\ tunn'[e].state.eph = k /\ Newer(k)
                    /\ InitMsg(j, k) \in sent
    BY <1>4 DEF Begins, InitSent
  <2>2. InitMsg(j, k).type = "init" /\ InitMsg(j, k).eph = k
    BY DEF InitMsg
  <2>3. InitMsg(j, k) \in ToIn(conns', Peer(e)) \/ k \in dropped'
    BY <2>1, <2>2, OnStreams DEF Loses
  <2>4. ~(k <= heard[Peer(e)])
    <3>1. heard[Peer(e)] \in used \cup {0}
      BY PeerIs DEF StuckInv, Known
    <3>2. heard[Peer(e)] \in Nat /\ k \in Nat /\ heard[Peer(e)] < k
      BY <2>1, <3>1, UsedIs DEF StuckInv, Newer
    <3> QED
      BY <3>2
  <2> QED
    BY <1>2, <2>1, <2>2, <2>3, <2>4
<1> QED
  BY <1>1, <1>3, <1>4 DEF Move, Ends

\* So can that of its peer: e answers it, or refuses only an earlier one.
LEMMA OtherTrackKept ==
    ASSUME NEW e \in Endpoints, NEW read, NEW sent, Move(e, read, sent), StuckInv
    PROVE  Tracked(Peer(e))'
<1>1. PICK f \in Endpoints : f = Peer(e) /\ Peer(f) = e
  BY PeerIs
<1>2. Tracked(f) /\ Paired(f) /\ tunn'[f] = tunn[f]
  BY <1>1 DEF StuckInv, Move
<1>3. PICK k : k = tunn[f].state.eph
  OBVIOUS
<1>4. SUFFICES ASSUME InProgress(tunn[f])
               PROVE  \/ k \in dropped'
                      \/ /\ ~(k <= heard'[e])
                         /\ \E m \in ToIn(conns', e) : m.type = "init" /\ m.eph = k
                      \/ \E m \in ToIn(conns', f) : m.type = "response" /\ m.answers = k
  BY <1>1, <1>2, <1>3 DEF Tracked
<1>5. CASE k \in dropped \/ \E m \in ToIn(conns, f) : m.type = "response" /\ m.answers = k
  BY <1>1, <1>5, OnStreams
<1>6. ASSUME ~(k <= heard[e]),
             NEW m \in ToIn(conns, e), m.type = "init", m.eph = k
      PROVE  \/ k \in dropped'
             \/ /\ ~(k <= heard'[e])
                /\ \E x \in ToIn(conns', e) : x.type = "init" /\ x.eph = k
             \/ \E x \in ToIn(conns', f) : x.type = "response" /\ x.answers = k
  <2>1. CASE Passes(e, read, sent)
    <3>1. m \notin read /\ heard'[e] = heard[e]
      BY <1>6, <2>1 DEF Passes
    <3> QED
      BY <1>6, <3>1, OnStreams
  <2>2. CASE Accepts(e, read, sent)
    <3>1. PICK x, i, q :
            /\ x \in ToIn(conns, e)
            /\ read = {x} /\ x.type = "init" /\ heard' = [heard EXCEPT ![e] = x.eph]
            /\ ResponseMsg(i, x.sender, x.eph, q) \in sent
      BY <2>2 DEF Accepts
    <3>2. CASE x.eph = k
      <4>0. PICK y : y = ResponseMsg(i, x.sender, x.eph, q)
        OBVIOUS
      <4>1. y.type = "response" /\ y.answers = k
        BY <3>2, <4>0 DEF ResponseMsg
      <4>2. y \in ToIn(conns', f) \/ k \in dropped'
        BY <1>1, <3>1, <4>0, <4>1, OnStreams DEF Loses
      <4> QED
        BY <4>1, <4>2
    <3>3. CASE x.eph # k
      <4>1. x.eph <= k
        BY <1>1, <1>2, <1>3, <1>4, <3>1 DEF Paired
      <4>2. x.eph \in Nat /\ k \in Nat
        BY <1>6, <3>1, UsedIs DEF StuckInv, Known
      <4>3. heard'[e] = x.eph
        BY <3>1 DEF StuckInv, Whole
      <4>4. ~(k <= heard'[e])
        BY <3>3, <4>1, <4>2, <4>3
      <4>5. m \in ToIn(conns', e)
        BY <1>6, <3>1, <3>3, OnStreams
      <4> QED
        BY <1>6, <4>4, <4>5
    <3> QED
      BY <3>2, <3>3
  <2> QED
    BY <2>1, <2>2 DEF Move
<1> QED
  BY <1>1, <1>2, <1>3, <1>4, <1>5, <1>6 DEF Tracked

\* What such a step keeps.
LEMMA MoveKeeps ==
    ASSUME NEW e \in Endpoints, NEW read, NEW sent, Move(e, read, sent), StuckInv
    PROVE  StuckInv'
<1>1. Whole' /\ Known' /\ Counted'
  BY KnownKept DEF Move
<1>2. ASSUME NEW f \in Endpoints PROVE Paired(f)' /\ Tracked(f)'
  <2>1. f = e \/ f = Peer(e)
    BY PeerIs
  <2> QED
    BY <2>1, OwnPairKept, OwnTrackKept, OtherPairKept, OtherTrackKept
<1> QED
  BY <1>1, <1>2 DEF StuckInv

-----------------------------------------------------------------------------
(* Ephemerals.                                                             *)

\* The next one, if it is there.
LEMMA FirstFresh ==
    ASSUME NEW n \in Nat, used = 1..n, NEW k \in Drawn(Fresh), k \in Ephemerals
    PROVE  k = n + 1
<1>1. MaxEphemerals \in Nat
  BY TunnAssumption
<1>2. \A i : i \in Fresh <=> i \in Nat /\ n < i /\ i <= MaxEphemerals
  BY <1>1 DEF Fresh, Ephemerals
<1>3. Fresh # {}
  BY <1>1 DEF Drawn, Ephemerals
<1>4. k \in Fresh /\ \A i \in Fresh : k <= i
  BY <1>3 DEF Drawn
<1>5. n + 1 \in Fresh
  BY <1>1, <1>2, <1>4
<1>6. k <= n + 1 /\ k \in Nat /\ n < k
  BY <1>2, <1>4, <1>5
<1> QED
  BY <1>6

\* The one after it.
LEMMA SecondFresh ==
    ASSUME NEW n \in Nat, used = 1..n, NEW k \in Drawn(Fresh), k # 0,
           NEW l \in Drawn(Fresh \ Drawn(Fresh)), l \in Ephemerals
    PROVE  k = n + 1 /\ l = n + 2
<1>1. MaxEphemerals \in Nat
  BY TunnAssumption
<1>2. \A i : i \in Fresh <=> i \in Nat /\ n < i /\ i <= MaxEphemerals
  BY <1>1 DEF Fresh, Ephemerals
<1>3. Fresh # {}
  BY DEF Drawn
<1>4. \A i \in Drawn(Fresh) : i = n + 1
  <2>1. \A i \in Drawn(Fresh) : i \in Fresh
    BY <1>3 DEF Drawn
  <2>2. \A i \in Fresh : i \in Ephemerals
    BY DEF Fresh
  <2> QED
    BY <2>1, <2>2, FirstFresh
<1>5. \A i : i \in Fresh \ Drawn(Fresh) <=> i \in Nat /\ n + 1 < i /\ i <= MaxEphemerals
  <2>1. n + 1 \in Drawn(Fresh)
    BY <1>4
  <2> QED
    BY <1>1, <1>2, <1>4, <2>1
<1>6. PICK rest : rest = Fresh \ Drawn(Fresh)
  OBVIOUS
<1>7. rest # {}
  BY <1>1, <1>6 DEF Drawn, Ephemerals
<1>8. l \in rest /\ \A i \in rest : l <= i
  BY <1>6, <1>7 DEF Drawn
<1>9. n + 2 \in rest
  BY <1>1, <1>5, <1>6, <1>8
<1>10. l <= n + 2 /\ l \in Nat /\ n + 1 < l
  BY <1>5, <1>6, <1>8, <1>9
<1> QED
  BY <1>4, <1>10

\* What messages draw are the ephemerals of those that carry no packet.
LEMMA DrawnInIs ==
    ASSUME NEW out
    PROVE  /\ \A x \in ToSet(out) : x.type # "data" => x.eph \in DrawnIn(out)
           /\ \A k \in DrawnIn(out) : \E x \in ToSet(out) : x.type # "data" /\ x.eph = k
BY DEF DrawnIn, ToSet

\* Messages one after another draw what each of them draws.
LEMMA DrawnInJoin ==
    ASSUME NEW h, NEW g, IsSeq(h), IsSeq(g)
    PROVE  /\ DrawnIn(h \o g) = DrawnIn(h) \cup DrawnIn(g)
           /\ DataOnly(h) => DrawnIn(h) = {}
<1>1. PICK out : out = h \o g
  OBVIOUS
<1>2. ToSet(out) = ToSet(h) \cup ToSet(g)
  BY <1>1, JoinIs
<1>3. DataOnly(h) => DrawnIn(h) = {}
  BY DrawnInIs DEF DataOnly
<1>4. ASSUME NEW k \in DrawnIn(out) PROVE k \in DrawnIn(h) \cup DrawnIn(g)
  BY <1>2, <1>4, DrawnInIs
<1>5. ASSUME NEW k \in DrawnIn(h) \cup DrawnIn(g) PROVE k \in DrawnIn(out)
  BY <1>2, <1>5, DrawnInIs
<1> QED
  BY <1>1, <1>3, <1>4, <1>5

\* A handshake that is begun draws one.
LEMMA OutcomeDraws ==
    ASSUME NEW t, NEW r, NEW k, Outcome(t, r, k)
    PROVE  DrawnIn(r.out) = {} \/ DrawnIn(r.out) = {k}
<1>1. CASE DataOnly(r.out)
  BY <1>1, DrawnInIs DEF DataOnly
<1>2. ASSUME NEW j, ToSet(r.out) = {InitMsg(j, k)}
      PROVE  DrawnIn(r.out) = {k}
  <2>1. InitMsg(j, k).type = "init" /\ InitMsg(j, k).eph = k
    BY DEF InitMsg
  <2> QED
    BY <1>2, <2>1, DrawnInIs
<1> QED
  BY <1>1, <1>2 DEF Outcome

-----------------------------------------------------------------------------
(* Writing.                                                                *)

\* What was on the streams before the messages in read were taken from those to e.
TakenFrom(cs, e, read) ==
    /\ WiredIn(cs)
    /\ ToIn(cs, Peer(e)) = ToIn(conns, Peer(e))
    /\ ToIn(conns, e) = read \cup ToIn(cs, e)

\* On a connection there is.
LEMMA WriteDelivers ==
    ASSUME NEW e \in Endpoints, NEW c \in Conns, NEW cs, NEW msgs, IsSeq(msgs),
           NEW read, TakenFrom(cs, e, read), Write(e, c, cs, msgs)
    PROVE  Delivered(conns', dropped', e, read, ToSet(msgs))
<1>1. CASE Writable(e, c)
  <2>1. conns' = Written(cs, e, c, msgs) /\ dropped' = dropped
    BY <1>1 DEF Write
  <2> QED
    BY <2>1, WrittenIs DEF Delivered, TakenFrom
<1>2. CASE ~Writable(e, c)
  <2>1. conns' = cs /\ dropped' = dropped \cup Hopeless(msgs)
    BY <1>2 DEF Write
  <2>2. \A x \in ToSet(msgs) : Loses(x, dropped')
    BY <2>1, HopelessIs
  <2> QED
    BY <2>1, <2>2 DEF Delivered, TakenFrom
<1> QED
  BY <1>1, <1>2

\* On a new one.
LEMMA ConnectDelivers ==
    ASSUME NEW e \in Endpoints, NEW a, NEW cs, NEW msgs, IsSeq(msgs),
           NEW read, TakenFrom(cs, e, read), ConnectAndWrite(e, a, cs, msgs)
    PROVE  Delivered(conns', dropped', e, read, ToSet(msgs))
<1>1. PICK c, atOnce, made :
        /\ c \in Conns /\ atOnce \in BOOLEAN
        /\ made = [cs EXCEPT ![c].maker = e, ![c].toward = a,
                             ![c].state = IF atOnce THEN "open" ELSE "connecting"]
        /\ conns' = IF atOnce THEN Written(made, e, c, msgs) ELSE made
        /\ dropped' = IF atOnce THEN dropped ELSE dropped \cup Hopeless(msgs)
  BY DEF ConnectAndWrite
<1>2. SameStreams(cs, made)
  BY <1>1 DEF TakenFrom, WiredIn, SameStreams, ConnFields
<1>3. WiredIn(made) /\ \A f : ToIn(made, f) = ToIn(cs, f)
  BY <1>2, SameStreamsIs DEF TakenFrom
<1>4. CASE atOnce
  <2>1. conns' = Written(made, e, c, msgs) /\ dropped' = dropped
    BY <1>1, <1>4
  <2>2. /\ WiredIn(conns') /\ ToIn(conns', e) = ToIn(made, e)
        /\ ToIn(conns', Peer(e)) = ToIn(made, Peer(e)) \cup ToSet(msgs)
    <3>1. c \in Conns
      BY <1>1
    <3> QED
      BY <1>3, <2>1, <3>1, WrittenIs
  <2> QED
    BY <1>3, <2>1, <2>2 DEF Delivered, TakenFrom
<1>5. CASE ~atOnce
  <2>1. conns' = made /\ dropped' = dropped \cup Hopeless(msgs)
    BY <1>1, <1>5
  <2>2. \A x \in ToSet(msgs) : Loses(x, dropped')
    BY <2>1, HopelessIs
  <2> QED
    BY <1>3, <2>1, <2>2 DEF Delivered, TakenFrom
<1> QED
  BY <1>4, <1>5

\* On whatever is listed for the address, or nowhere.
LEMMA SendDelivers ==
    ASSUME NEW e \in Endpoints, NEW a, Listed(e, a) \in Conns \cup {0},
           NEW cs, NEW msgs, IsSeq(msgs), NEW read, TakenFrom(cs, e, read),
           Send(e, a, cs, msgs)
    PROVE  Delivered(conns', dropped', e, read, ToSet(msgs))
<1>1. CASE msgs = <<>>
  BY <1>1, FewIs DEF Send, Delivered, TakenFrom
<1>2. CASE Listed(e, a) # 0 /\ Write(e, Listed(e, a), cs, msgs)
  <2>1. PICK c \in Conns : c = Listed(e, a)
    BY <1>2
  <2> QED
    BY <1>2, <2>1, WriteDelivers
<1>3. CASE ConnectAndWrite(e, a, cs, msgs)
  BY <1>3, ConnectDelivers
<1>4. CASE NoSocket(cs, msgs)
  <2>1. conns' = cs /\ dropped' = dropped \cup Hopeless(msgs)
    BY <1>4 DEF NoSocket
  <2>2. \A x \in ToSet(msgs) : Loses(x, dropped')
    BY <2>1, HopelessIs
  <2> QED
    BY <2>1, <2>2 DEF Delivered, TakenFrom
<1> QED
  BY <1>1, <1>2, <1>3, <1>4 DEF Send

\* What the flush, or the packet, does to the handshake of e: it leaves v as it is,
\* or begins another one with k; first was sent before.
Steered(e, v, f, k, first) ==
    /\ Outcome(v, f, k) /\ tunn'[e] = f.tunn
    /\ v.state \in {None, tunn[e].state}
    /\ ~Sends(first, "init")
    /\ k \in DrawnIn(f.out) => k \in used' /\ Newer(k)

\* Then e continues with its handshake, is done with it or begins another.
LEMMA HandshakeOf ==
    ASSUME NEW e, NEW v, NEW f, NEW k, NEW first, Steered(e, v, f, k, first),
           NEW sent, sent = first \cup ToSet(f.out)
    PROVE  /\ Continues(e, sent) \/ Ends(e, sent) \/ Begins(e, sent)
           /\ \A x \in sent : x.type = "response" => x \in first
           /\ \A x \in ToSet(f.out) : x.type \in Types
           /\ v.state = None /\ ~Newer(tunn[e].state.eph) =>
                 ~InProgress(tunn[e]) \/ tunn'[e].state # tunn[e].state
<1>0. /\ Outcome(v, f, k) /\ tunn'[e] = f.tunn
      /\ v.state \in {None, tunn[e].state}
      /\ ~Sends(first, "init")
      /\ k \in DrawnIn(f.out) => k \in used' /\ Newer(k)
  BY DEF Steered
<1>1. CASE f.tunn.state = v.state /\ DataOnly(f.out)
  <2>1. \A x \in ToSet(f.out) : x.type = "data"
    BY <1>0, <1>1 DEF DataOnly
  <2>2. ~Sends(sent, "init")
    BY <1>0, <2>1 DEF Sends
  <2>3. ~InProgress(tunn'[e]) \/ tunn'[e].state = tunn[e].state
    BY <1>0, <1>1 DEF InProgress, None
  <2>4. v.state = None => ~InProgress(tunn'[e])
    BY <1>0, <1>1 DEF InProgress, None
  <2> QED
    BY <1>0, <2>1, <2>2, <2>3, <2>4 DEF Continues, Ends, Types, InProgress
<1>2. ASSUME NEW j, f.tunn.state = InitSent(j, k), ToSet(f.out) = {InitMsg(j, k)}
      PROVE  /\ Begins(e, sent)
             /\ \A x \in ToSet(f.out) : x.type = "init"
             /\ Newer(tunn'[e].state.eph)
  <2>1. InitMsg(j, k).type = "init" /\ InitMsg(j, k).eph = k /\ InitSent(j, k).eph = k
    BY DEF InitMsg, InitSent
  <2>2. k \in used' /\ Newer(k)
    BY <1>0, <1>2, <2>1, DrawnInIs
  <2>3. InitMsg(j, k) \in sent /\ \A x \in sent : x.type = "init" => x = InitMsg(j, k)
    BY <1>0, <1>2 DEF Sends
  <2> QED
    BY <1>0, <1>2, <2>1, <2>2, <2>3 DEF Begins
<1> QED
  BY <1>0, <1>1, <1>2 DEF Outcome, Types

-----------------------------------------------------------------------------
(* The entries of connections.                                             *)

\* A port is known when the connection from it was accepted.
AddressKnown(a) == a = 0 \/ (a \in Conns /\ conns[a].accepted # "no")

Entries ==
    /\ tcp_connections \in [Endpoints -> [Addresses -> Conns \cup {0}]]
    /\ handlers \in [Endpoints -> SUBSET Conns]
    /\ DOMAIN device = Endpoints
    /\ \A c \in Conns : AddressKnown(conns[c].toward)
    /\ \A e \in Endpoints : \A c \in handlers[e] :
        conns[c].state # "unused" /\ (conns[c].maker = e \/ conns[c].accepted # "no")
    /\ \A e \in Endpoints : device[e] = "gone" => handlers[e] = {}
    /\ AnswersStay

\* Connections have the addresses they had.
SameEnds(cs, w) ==
    \A c \in Conns :
        /\ w[c].maker = cs[c].maker /\ w[c].toward = cs[c].toward
        /\ w[c].accepted = cs[c].accepted
        /\ w[c].state = "unused" <=> cs[c].state = "unused"

\* Numbers of connections are addresses.
LEMMA ConnsAre == 0 \notin Conns /\ Conns \subseteq Addresses /\ 0 \in Addresses
BY TcpAssumption DEF Conns, Addresses

\* The address of a stream has an entry, or none.
LEMMA ListedIs ==
    ASSUME Entries, NEW e \in Endpoints
    PROVE  /\ \A a \in Addresses : Listed(e, a) \in Conns \cup {0}
           /\ \A c \in Conns : Address(e, c) \in Addresses
BY ConnsAre DEF Entries, AddressKnown, Listed, Address

-----------------------------------------------------------------------------
(* The actions.                                                            *)

\* A packet is sent, or waits.
LEMMA EncapsulateKeeps ==
    ASSUME StuckInv, Entries, NEW e \in Endpoints, NEW p \in Packets, Encapsulate(e, p)
    PROVE  StuckInv'
<1>1. PICK k, r :
        /\ k \in Drawn(Fresh)
        /\ r = Encapsulated(tunn[e], p, k)
        /\ Becomes(e, r.tunn, r.out) /\ heard' = heard
        /\ Send(e, 0, conns, r.out)
  BY DEF Encapsulate
<1>2. /\ DOMAIN tunn = Endpoints /\ Shaped(tunn[e]) /\ Waits(tunn[e]) /\ WiredIn(conns)
  BY DEF StuckInv, Whole
<1>3. Outcome(tunn[e], r, k) /\ IsSeq(r.out)
  <2>1. Outcome(tunn[e], r, k)
    BY <1>1, <1>2, EncapsulatedOutcome
  <2> QED
    BY <2>1 DEF Outcome
<1>4. /\ DrawnIn(r.out) \subseteq Ephemerals /\ used' = used \cup DrawnIn(r.out)
      /\ tunn' = [tunn EXCEPT ![e] = r.tunn]
  BY <1>1 DEF Becomes
<1>5. /\ DOMAIN tunn' = Endpoints /\ tunn'[e] = r.tunn /\ tunn'[Peer(e)] = tunn[Peer(e)]
  BY <1>2, <1>4, PeerIs
<1>6. PICK n \in Nat : used = 1..n
  BY DEF StuckInv, Counted
<1>7. DrawnIn(r.out) = {} \/ (DrawnIn(r.out) = {k} /\ k = n + 1)
  <2>1. DrawnIn(r.out) = {} \/ DrawnIn(r.out) = {k}
    BY <1>3, OutcomeDraws
  <2>2. k \in Ephemerals => k = n + 1
    BY <1>1, <1>6, FirstFresh
  <2> QED
    BY <1>4, <2>1, <2>2
<1>8. used' = 1..n \/ (used' = 1..(n + 1) /\ k = n + 1)
  BY <1>4, <1>6, <1>7
<1>9. Counted'
  BY <1>8 DEF Counted
<1>10. k \in DrawnIn(r.out) => k \in used' /\ Newer(k)
  BY <1>4, <1>6, <1>7 DEF Newer
<1>11. Delivered(conns', dropped', e, {}, ToSet(r.out))
  <2>1. TakenFrom(conns, e, {})
    BY <1>2 DEF TakenFrom
  <2>2. Listed(e, 0) \in Conns \cup {0}
    BY ListedIs, ConnsAre
  <2> QED
    BY <1>1, <1>3, <2>1, <2>2, SendDelivers
<1>12. PICK sent : sent = {} \cup ToSet(r.out)
  OBVIOUS
<1>13. /\ Continues(e, sent) \/ Ends(e, sent) \/ Begins(e, sent)
       /\ \A x \in sent : x.type # "response" /\ x.type \in Types
  <2>1. Steered(e, tunn[e], r, k, {})
    BY <1>3, <1>5, <1>10 DEF Steered, Sends
  <2>3. /\ Continues(e, sent) \/ Ends(e, sent) \/ Begins(e, sent)
        /\ \A x \in sent : x.type = "response" => x \in {}
        /\ \A x \in ToSet(r.out) : x.type \in Types
    BY <1>12, <2>1, HandshakeOf
  <2> QED
    BY <1>12, <2>3
<1>14. Move(e, {}, sent)
  <2>1. Shaped(tunn'[e]) /\ Waits(tunn'[e])
    BY <1>3, <1>5 DEF Outcome
  <2>2. Passes(e, {}, sent)
    BY <1>1, <1>13 DEF Passes, Sends
  <2> QED
    BY <1>4, <1>5, <1>9, <1>11, <1>12, <1>13, <2>1, <2>2 DEF Move
<1> QED
  BY <1>14, MoveKeeps

\* A frame that draws nothing is handled; the flush may draw k.
LEMMA OtherDraws ==
    ASSUME NEW n \in Nat, used = 1..n, NEW k \in Drawn(Fresh),
           NEW v, NEW h, NEW f, NEW out, IsSeq(h), IsSeq(f.out), out = h \o f.out,
           DrawnIn(out) \subseteq Ephemerals, used' = used \cup DrawnIn(out),
           DataOnly(h), Outcome(v, f, k)
    PROVE  Counted' /\ (k \in DrawnIn(f.out) => k \in used' /\ Newer(k))
<1>2. DrawnIn(out) = DrawnIn(f.out)
  <2>1. DrawnIn(out) = DrawnIn(h) \cup DrawnIn(f.out) /\ DrawnIn(h) = {}
    BY ONLY IsSeq(h), IsSeq(f.out), out = h \o f.out, DataOnly(h), DrawnInJoin
  <2> QED
    BY <2>1
<1>3. DrawnIn(f.out) = {} \/ (DrawnIn(f.out) = {k} /\ k = n + 1)
  <2>1. DrawnIn(f.out) = {} \/ DrawnIn(f.out) = {k}
    BY OutcomeDraws
  <2>2. k \in Ephemerals => k = n + 1
    BY FirstFresh
  <2> QED
    BY <1>2, <2>1, <2>2
<1>4. used' = 1..n \/ used' = 1..(n + 1)
  BY <1>2, <1>3
<1>5. Counted'
  BY <1>4 DEF Counted
<1> QED
  BY <1>2, <1>3, <1>5 DEF Newer

\* An initiation is handled, which draws k; the flush may draw l.
LEMMA InitDraws ==
    ASSUME NEW n \in Nat, used = 1..n, NEW k \in Drawn(Fresh), k # 0,
           NEW l \in Drawn(Fresh \ Drawn(Fresh)),
           NEW v, NEW h, NEW f, NEW out, IsSeq(h), IsSeq(f.out), out = h \o f.out,
           DrawnIn(out) \subseteq Ephemerals, used' = used \cup DrawnIn(out),
           NEW i, NEW j, NEW q, ToSet(h) = {ResponseMsg(i, j, q, k)}, Outcome(v, f, l)
    PROVE  Counted' /\ (l \in DrawnIn(f.out) => l \in used' /\ Newer(l))
<1>2. ResponseMsg(i, j, q, k).type = "response" /\ ResponseMsg(i, j, q, k).eph = k
  BY DEF ResponseMsg
<1>3. DrawnIn(out) = {k} \cup DrawnIn(f.out)
  <2>1. DrawnIn(h) = {k}
    BY <1>2, DrawnInIs
  <2> QED
    BY <2>1, DrawnInJoin
<1>4. k = n + 1
  <2>1. k \in Ephemerals
    BY <1>3
  <2> QED
    BY <2>1, FirstFresh
<1>5. DrawnIn(f.out) = {} \/ (DrawnIn(f.out) = {l} /\ l = n + 2)
  <2>1. DrawnIn(f.out) = {} \/ DrawnIn(f.out) = {l}
    BY OutcomeDraws
  <2>2. l \in Ephemerals => l = n + 2
    BY SecondFresh
  <2> QED
    BY <1>3, <2>1, <2>2
<1>6. used' = 1..(n + 1) \/ used' = 1..(n + 2)
  BY <1>3, <1>4, <1>5
<1>7. Counted'
  BY <1>6 DEF Counted
<1> QED
  BY <1>3, <1>5, <1>7 DEF Newer

\* A frame is read, handled and answered.
LEMMA StreamReadKeeps ==
    ASSUME StuckInv, Entries, NEW e \in Endpoints, NEW c \in Conns, StreamRead(e, c)
    PROVE  StuckInv'
<1> DEFINE m == Head(conns[c].to[e])
           accepts == m.type = "init" /\ ~Refused(e, m)
<1> PICK rest : rest = AfterRead(e, c)
  OBVIOUS
<1>1. m = Head(conns[c].to[e]) /\ rest = [conns EXCEPT ![c].to[e] = Tail(@)]
  BY DEF AfterRead
<1>2. PICK k \in Drawn(Fresh), l \in Drawn(Fresh \ Drawn(Fresh)) :
        LET r == ThenFlush(Handled(e, m, k), IF accepts THEN l ELSE k) IN
        /\ accepts => k # 0
        /\ Becomes(e, r.tunn, r.out)
        /\ Send(e, Address(e, c), rest, r.out)
  BY DEF StreamRead
<1>3. PICK h, f, r :
        /\ h = Handled(e, m, k)
        /\ f = Flushed(h.tunn, IF accepts THEN l ELSE k)
        /\ r = Result(f.tunn, h.out \o f.out)
        /\ accepts => k # 0
        /\ Becomes(e, r.tunn, r.out)
        /\ Send(e, Address(e, c), rest, r.out)
  BY <1>2 DEF ThenFlush
<1>4. /\ conns[c].to[e] # <<>>
      /\ heard' = IF accepts THEN [heard EXCEPT ![e] = m.eph] ELSE heard
  BY DEF StreamRead, CanRead
<1> HIDE DEF m
<1>5. DOMAIN tunn = Endpoints /\ Shaped(tunn[e]) /\ WiredIn(conns)
  BY DEF StuckInv, Whole
<1>6. /\ WiredIn(rest) /\ ToIn(rest, Peer(e)) = ToIn(conns, Peer(e))
      /\ ToIn(conns, e) = {m} \cup ToIn(rest, e)
  <2>1. ReadFrom(conns, e, c, rest)
    BY <1>1, <1>4 DEF ReadFrom
  <2>2. /\ WiredIn(rest) /\ ToIn(rest, Peer(e)) = ToIn(conns, Peer(e))
        /\ ToIn(conns, e) = {Head(conns[c].to[e])} \cup ToIn(rest, e)
    BY ONLY e \in Endpoints, c \in Conns, <1>5, <2>1, ReadIs
  <2> QED
    BY <1>1, <2>2
<1>7. m \in ToIn(conns, e) /\ m.type \in Types
  BY <1>6 DEF StuckInv, Known
<1>8. /\ Shaped(h.tunn) /\ IsSeq(h.out)
      /\ IF accepts THEN HandlesInit(e, m, k, h) ELSE HandlesOther(e, m, h)
  BY <1>2, <1>3, <1>5, <1>7, HandledIs
<1>9. PICK d : d = IF accepts THEN l ELSE k
  OBVIOUS
<1>10. Outcome(h.tunn, f, d) /\ IsSeq(f.out)
  BY <1>3, <1>8, <1>9, FlushedOutcome DEF Outcome
<1>11. /\ r.tunn = f.tunn /\ r.out = h.out \o f.out
       /\ IsSeq(r.out) /\ ToSet(r.out) = ToSet(h.out) \cup ToSet(f.out)
  <2>1. r.tunn = f.tunn /\ r.out = h.out \o f.out
    BY <1>3 DEF Result
  <2> QED
    BY <1>8, <1>10, <2>1, JoinIs
<1>12. /\ DrawnIn(r.out) \subseteq Ephemerals /\ used' = used \cup DrawnIn(r.out)
       /\ tunn' = [tunn EXCEPT ![e] = f.tunn]
  BY <1>3, <1>11 DEF Becomes
<1>13. /\ DOMAIN tunn' = Endpoints /\ tunn'[e] = f.tunn /\ tunn'[Peer(e)] = tunn[Peer(e)]
  BY <1>5, <1>12, PeerIs
<1>14. PICK sent : sent = ToSet(r.out)
  OBVIOUS
<1>15. Delivered(conns', dropped', e, {m}, sent)
  <2>1. TakenFrom(rest, e, {m})
    BY <1>6 DEF TakenFrom
  <2>2. Listed(e, Address(e, c)) \in Conns \cup {0}
    BY ListedIs
  <2> QED
    BY <1>3, <1>11, <1>14, <2>1, <2>2, SendDelivers
<1>16. PICK n \in Nat : used = 1..n
  BY DEF StuckInv, Counted
<1>17. /\ Counted' /\ (d \in DrawnIn(f.out) => d \in used' /\ Newer(d))
       /\ h.tunn.state \in {None, tunn[e].state}
       /\ ~Sends(ToSet(h.out), "init") /\ \A x \in ToSet(h.out) : x.type \in Types
  <2>1. CASE accepts
    <3>1. PICK i : ToSet(h.out) = {ResponseMsg(i, m.sender, m.eph, k)}
      BY <1>8, <2>1 DEF HandlesInit
    <3>2. ResponseMsg(i, m.sender, m.eph, k).type = "response"
      BY DEF ResponseMsg
    <3>3. ~Sends(ToSet(h.out), "init") /\ \A x \in ToSet(h.out) : x.type \in Types
      BY <3>1, <3>2 DEF Sends, Types
    <3>4. Counted' /\ (l \in DrawnIn(f.out) => l \in used' /\ Newer(l))
      <4>1. k # 0 /\ Outcome(h.tunn, f, l)
        BY <1>3, <1>9, <1>10, <2>1
      <4> QED
        BY <1>8, <1>10, <1>11, <1>12, <1>16, <3>1, <4>1, InitDraws
    <3> QED
      BY <1>8, <1>9, <2>1, <3>3, <3>4 DEF HandlesInit
  <2>2. CASE ~accepts
    <3>1. DataOnly(h.out)
      BY <1>8, <2>2 DEF HandlesOther
    <3>2. ~Sends(ToSet(h.out), "init") /\ \A x \in ToSet(h.out) : x.type \in Types
      BY <3>1 DEF DataOnly, Sends, Types
    <3>3. Counted' /\ (k \in DrawnIn(f.out) => k \in used' /\ Newer(k))
      BY <1>8, <1>9, <1>10, <1>11, <1>12, <1>16, <2>2, <3>1, OtherDraws
    <3> QED
      BY <1>8, <1>9, <2>2, <3>2, <3>3 DEF HandlesOther
  <2> QED
    BY <2>1, <2>2
<1>18. /\ Continues(e, sent) \/ Ends(e, sent) \/ Begins(e, sent)
       /\ \A x \in sent : x.type = "response" => x \in ToSet(h.out)
       /\ \A x \in sent : x.type \in Types
       /\ h.tunn.state = None /\ ~Newer(tunn[e].state.eph) =>
                 ~InProgress(tunn[e]) \/ tunn'[e].state # tunn[e].state
  <2>1. sent = ToSet(h.out) \cup ToSet(f.out)
    BY <1>11, <1>14
  <2>2. Steered(e, h.tunn, f, d, ToSet(h.out))
    BY <1>10, <1>13, <1>17 DEF Steered
  <2> QED
    BY <1>17, <2>1, <2>2, HandshakeOf
<1>19. Accepts(e, {m}, sent) \/ Passes(e, {m}, sent)
  <2>1. CASE accepts
    <3>1. PICK i : ToSet(h.out) = {ResponseMsg(i, m.sender, m.eph, k)}
      BY <1>8, <2>1 DEF HandlesInit
    <3>2. ResponseMsg(i, m.sender, m.eph, k) \in sent
      BY <1>11, <1>14, <3>1
    <3> QED
      BY <1>4, <1>7, <1>8, <1>18, <2>1, <3>1, <3>2 DEF Accepts, HandlesInit
  <2>2. CASE ~accepts
    <3>1. HandlesOther(e, m, h) /\ heard' = heard
      BY <1>4, <1>8, <2>2
    <3>2. ~Sends(sent, "response")
      BY <1>18, <3>1 DEF Sends, HandlesOther, DataOnly
    <3>3. ASSUME Answers(tunn[e], m) PROVE tunn'[e].state # tunn[e].state
      <4>1. h.tunn.state = None /\ InProgress(tunn[e])
        BY <3>1, <3>3 DEF HandlesOther, Answers
      <4>2. tunn[e].state.eph \in used
        BY <4>1 DEF StuckInv, Known
      <4>3. ~Newer(tunn[e].state.eph)
        BY <4>2, UsedIs DEF Newer, StuckInv
      <4> QED
        BY <1>18, <4>1, <4>3
    <3> QED
      BY <3>1, <3>2, <3>3 DEF Passes, HandlesOther
  <2> QED
    BY <2>1, <2>2
<1>20. Move(e, {m}, sent)
  <2>1. Shaped(tunn'[e]) /\ Waits(tunn'[e])
    BY <1>10, <1>13 DEF Outcome
  <2> QED
    BY <1>12, <1>13, <1>15, <1>17, <1>18, <1>19, <2>1 DEF Move
<1> QED
  BY <1>20, MoveKeeps

\* Nothing is handled: what is on the streams stays or is counted, and cookies may
\* be added.
Fades(cs, w, ds) ==
    /\ WiredIn(w)
    /\ \A f \in Endpoints : \A x \in ToIn(w, f) : x \in ToIn(cs, f) \/ x = Cookie
    /\ \A f \in Endpoints : \A x \in ToIn(cs, f) : x \in ToIn(w, f) \/ Loses(x, ds)

LEMMA FadeKeeps ==
    ASSUME StuckInv, tunn' = tunn, heard' = heard, used' = used,
           dropped \subseteq dropped', Fades(conns, conns', dropped')
    PROVE  StuckInv'
<1>1. /\ WiredIn(conns')
      /\ \A f \in Endpoints : \A x \in ToIn(conns', f) : x \in ToIn(conns, f) \/ x = Cookie
      /\ \A f \in Endpoints : \A x \in ToIn(conns, f) :
            x \in ToIn(conns', f) \/ Loses(x, dropped')
      /\ Cookie.type = "cookie" /\ Cookie.type \in Types
  BY DEF Fades, Cookie, Types
<1>2. Whole' /\ Counted' /\ Known'
  BY <1>1 DEF StuckInv, Whole, Counted, Known
<1>3. ASSUME NEW e \in Endpoints PROVE Paired(e)'
  <2>1. Paired(e) /\ Peer(e) \in Endpoints
    BY PeerIs DEF StuckInv
  <2> QED
    BY <1>1, <2>1 DEF Paired
<1>4. ASSUME NEW e \in Endpoints PROVE Tracked(e)'
  <2>1. Tracked(e) /\ Peer(e) \in Endpoints
    BY PeerIs DEF StuckInv
  <2>2. PICK k : k = tunn[e].state.eph
    OBVIOUS
  <2>3. SUFFICES ASSUME InProgress(tunn[e])
                 PROVE  \/ k \in dropped'
                        \/ /\ ~(k <= heard[Peer(e)])
                           /\ \E m \in ToIn(conns', Peer(e)) : m.type = "init" /\ m.eph = k
                        \/ \E m \in ToIn(conns', e) : m.type = "response" /\ m.answers = k
    BY <2>2 DEF Tracked
  <2> QED
    BY <1>1, <2>1, <2>2, <2>3 DEF Tracked, Loses
<1> QED
  BY <1>2, <1>3, <1>4 DEF StuckInv

\* Nothing is read or sent, and what is on the streams stays or is lost.
LEMMA LossKeeps ==
    ASSUME StuckInv, tunn' = tunn, heard' = heard, used' = used,
           dropped \subseteq dropped', Emptied(conns, conns', dropped')
    PROVE  StuckInv'
<1>1. Fades(conns, conns', dropped')
  BY EmptiedIs DEF StuckInv, Whole, Fades
<1> QED
  BY <1>1, FadeKeeps

\* The rate limiter turns a message away.
LEMMA TurnAwayKeeps ==
    ASSUME StuckInv, NEW e \in Endpoints, NEW c \in Conns, TurnAway(e, c)
    PROVE  StuckInv'
<1>1. PICK m, rest, back :
        /\ m = Head(conns[c].to[e]) /\ rest = AfterRead(e, c) /\ back = <<Cookie>>
        /\ conns' = IF Writable(e, c) THEN Written(rest, e, c, back) ELSE rest
        /\ dropped' = dropped \cup Hopeless(<<m>>)
        /\ conns[c].to[e] # <<>> /\ UNCHANGED tunnel
  BY DEF TurnAway, CanRead
<1>2. WiredIn(conns)
  BY DEF StuckInv, Whole
<1>3. /\ WiredIn(rest) /\ ToIn(rest, Peer(e)) = ToIn(conns, Peer(e))
      /\ ToIn(conns, e) = {m} \cup ToIn(rest, e)
  <2>1. ReadFrom(conns, e, c, rest)
    BY <1>1 DEF ReadFrom, AfterRead
  <2>2. /\ WiredIn(rest) /\ ToIn(rest, Peer(e)) = ToIn(conns, Peer(e))
        /\ ToIn(conns, e) = {Head(conns[c].to[e])} \cup ToIn(rest, e)
    BY ONLY e \in Endpoints, c \in Conns, <1>2, <2>1, ReadIs
  <2> QED
    BY <1>1, <2>2
<1>4. IsSeq(back) /\ ToSet(back) = {Cookie}
  BY <1>1, FewIs
<1>5. /\ WiredIn(conns') /\ ToIn(conns', e) = ToIn(rest, e)
      /\ \A x \in ToIn(conns', Peer(e)) : x \in ToIn(rest, Peer(e)) \/ x = Cookie
      /\ \A x \in ToIn(rest, Peer(e)) : x \in ToIn(conns', Peer(e))
  <2>1. CASE Writable(e, c)
    <3>1. conns' = Written(rest, e, c, back)
      BY <1>1, <2>1
    <3> QED
      BY <1>3, <1>4, <3>1, WrittenIs
  <2>2. CASE ~Writable(e, c)
    BY <1>1, <1>3, <2>2
  <2> QED
    BY <2>1, <2>2
<1>6. Loses(m, dropped')
  <2>1. m \in ToSet(<<m>>)
    BY FewIs
  <2> QED
    BY <1>1, <2>1, HopelessIs
<1>7. Fades(conns, conns', dropped')
  BY <1>3, <1>5, <1>6, PeerIs DEF Fades
<1> QED
  BY <1>1, <1>7, FadeKeeps DEF tunnel

\* A connection breaks.
LEMMA BrokenIs ==
    ASSUME NEW c \in Conns, WiredIn(conns), Broken(c)
    PROVE  dropped \subseteq dropped' /\ Emptied(conns, conns', dropped')
<1>1. PICK none : none = [f \in Endpoints |-> <<>>]
  OBVIOUS
<1>2. /\ conns' = [conns EXCEPT ![c].state = "closed", ![c].to = none]
      /\ dropped' = dropped \cup UNION {Hopeless(conns[c].to[f]) : f \in Endpoints}
  BY <1>1 DEF Broken
<1>3. DOMAIN none = Endpoints /\ \A f \in Endpoints : none[f] = <<>>
  BY <1>1
<1>4. /\ DOMAIN conns' = Conns /\ DOMAIN conns'[c] = ConnFields /\ conns'[c].to = none
      /\ \A d \in Conns \ {c} : conns'[d] = conns[d]
  BY <1>2 DEF WiredIn, ConnFields
<1>5. \A f \in Endpoints : Hopeless(conns[c].to[f]) \subseteq dropped'
  BY <1>2
<1>6. ASSUME NEW d \in Conns
      PROVE  /\ DOMAIN conns'[d] = ConnFields /\ DOMAIN conns'[d].to = Endpoints
             /\ \A f \in Endpoints :
                    \/ conns'[d].to[f] = conns[d].to[f]
                    \/ conns'[d].to[f] = <<>> /\ Hopeless(conns[d].to[f]) \subseteq dropped'
  <2>1. CASE d = c
    BY <1>3, <1>4, <1>5, <2>1
  <2>2. CASE d # c
    BY <1>4, <2>2 DEF WiredIn
  <2> QED
    BY <2>1, <2>2
<1> QED
  BY <1>2, <1>4, <1>6 DEF Emptied

\* A process ends.
LEMMA GoneIs ==
    ASSUME NEW e \in Endpoints, WiredIn(conns), Gone(e)
    PROVE  dropped \subseteq dropped' /\ Emptied(conns, conns', dropped')
<1>1. PICK mine \in SUBSET Conns :
        /\ conns' = [c \in Conns |->
                        IF c \in mine
                        THEN [conns[c] EXCEPT
                                !.closed = @ \cup {e}, !.to[e] = <<>>,
                                !.state = IF @ = "connecting" THEN "closed" ELSE @]
                        ELSE conns[c]]
        /\ dropped' = dropped \cup UNION {Hopeless(conns[c].to[e]) : c \in mine}
  <2> DEFINE mine == {c \in Conns : /\ conns[c].state # "unused"
                                    /\ conns[c].maker = e \/ conns[c].state # "connecting"}
  <2>1. /\ conns' = [c \in Conns |->
                        IF c \in mine
                        THEN [conns[c] EXCEPT
                                !.closed = @ \cup {e}, !.to[e] = <<>>,
                                !.state = IF @ = "connecting" THEN "closed" ELSE @]
                        ELSE conns[c]]
        /\ dropped' = dropped \cup UNION {Hopeless(conns[c].to[e]) : c \in mine}
    BY DEF Gone
  <2>2. mine \in SUBSET Conns
    OBVIOUS
  <2> HIDE DEF mine
  <2> QED
    BY <2>1, <2>2
<1>2. ASSUME NEW c \in mine
      PROVE  /\ DOMAIN conns'[c] = ConnFields /\ DOMAIN conns'[c].to = Endpoints
             /\ conns'[c].to[e] = <<>> /\ conns'[c].to[Peer(e)] = conns[c].to[Peer(e)]
  <2>1. c \in Conns
    BY <1>2
  <2>2. conns'[c] = [conns[c] EXCEPT
                        !.closed = @ \cup {e}, !.to[e] = <<>>,
                        !.state = IF @ = "connecting" THEN "closed" ELSE @]
    BY <1>1, <1>2, <2>1
  <2> QED
    BY <2>1, <2>2, PeerIs DEF WiredIn, ConnFields
<1>3. DOMAIN conns' = Conns /\ \A c \in Conns \ mine : conns'[c] = conns[c]
  BY <1>1
<1>4. \A c \in mine : Hopeless(conns[c].to[e]) \subseteq dropped'
  BY <1>1
<1>5. ASSUME NEW d \in Conns
      PROVE  /\ DOMAIN conns'[d] = ConnFields /\ DOMAIN conns'[d].to = Endpoints
             /\ \A f \in Endpoints :
                    \/ conns'[d].to[f] = conns[d].to[f]
                    \/ conns'[d].to[f] = <<>> /\ Hopeless(conns[d].to[f]) \subseteq dropped'
  <2>1. CASE d \in mine
    BY <1>2, <1>4, <2>1, PeerIs
  <2>2. CASE d \notin mine
    BY <1>3, <2>2 DEF WiredIn
  <2> QED
    BY <2>1, <2>2
<1> QED
  BY <1>1, <1>3, <1>5 DEF Emptied

\* A device is started again, and has heard nothing.
LEMMA StartKeeps ==
    ASSUME StuckInv, NEW e \in Endpoints, Start(e)
    PROVE  StuckInv'
<1>1. /\ tunn' = [tunn EXCEPT ![e] = NewTunn] /\ heard' = [heard EXCEPT ![e] = 0]
      /\ conns' = conns /\ used' = used /\ dropped' = dropped
  BY DEF Start, links
<1>2. /\ DOMAIN tunn' = Endpoints /\ DOMAIN heard' = Endpoints
      /\ tunn'[e] = NewTunn /\ heard'[e] = 0
      /\ \A f \in Endpoints : f # e => tunn'[f] = tunn[f] /\ heard'[f] = heard[f]
  BY <1>1 DEF StuckInv, Whole
<1>3. Shaped(NewTunn) /\ Waits(NewTunn) /\ ~InProgress(NewTunn)
  BY FewIs DEF Shaped, Waits, InProgress, NewTunn, Fields, None
<1>4. Whole' /\ Counted' /\ Known'
  BY <1>1, <1>2, <1>3 DEF StuckInv, Whole, Counted, Known
<1>5. ASSUME NEW f \in Endpoints PROVE Paired(f)'
  <2>1. Paired(f)
    BY DEF StuckInv
  <2> QED
    BY <1>1, <1>2, <1>3, <2>1 DEF Paired
<1>6. ASSUME NEW f \in Endpoints PROVE Tracked(f)'
  <2>1. CASE f = e
    BY <1>2, <1>3, <2>1 DEF Tracked
  <2>2. CASE f # e
    <3>1. PICK k : k = tunn[f].state.eph
      OBVIOUS
    <3>2. SUFFICES ASSUME InProgress(tunn[f])
                   PROVE  \/ k \in dropped
                          \/ /\ ~(k <= heard'[Peer(f)])
                             /\ \E m \in ToIn(conns, Peer(f)) : m.type = "init" /\ m.eph = k
                          \/ \E m \in ToIn(conns, f) : m.type = "response" /\ m.answers = k
      BY <1>1, <1>2, <2>2, <3>1 DEF Tracked
    <3>3. Tracked(f)
      BY DEF StuckInv
    <3>4. k \in used
      BY <3>1, <3>2 DEF StuckInv, Known
    <3>5. k \in Nat /\ 0 < k
      BY <3>4 DEF StuckInv, Counted
    <3>6. heard'[Peer(f)] = 0
      BY <1>2, <2>2, PeerIs
    <3>7. ~(k <= heard'[Peer(f)])
      BY <3>5, <3>6
    <3> QED
      BY <3>1, <3>2, <3>3, <3>7 DEF Tracked
  <2> QED
    BY <2>1, <2>2
<1> QED
  BY <1>4, <1>5, <1>6 DEF StuckInv

-----------------------------------------------------------------------------
(* The theorems.                                                           *)

\* There is no connection at first.
LEMMA EntriesInit ==
    ASSUME Init
    PROVE  Entries
BY ConnsAre DEF Init, Entries, AddressKnown, AnswersStay, Unused

\* A write, a read, a break and the end of a process leave addresses alone.
LEMMA WrittenEnds ==
    ASSUME NEW cs, WiredIn(cs), NEW e \in Endpoints, NEW c \in Conns, NEW msgs
    PROVE  SameEnds(cs, Written(cs, e, c, msgs))
BY DEF SameEnds, Written, WiredIn, ConnFields

LEMMA ReadEnds ==
    ASSUME WiredIn(conns), NEW e \in Endpoints, NEW c \in Conns
    PROVE  SameEnds(conns, AfterRead(e, c))
BY DEF SameEnds, AfterRead, WiredIn, ConnFields

LEMMA BrokenEnds ==
    ASSUME WiredIn(conns), NEW c \in Conns, conns[c].state # "unused", Broken(c)
    PROVE  SameEnds(conns, conns')
<1>1. PICK none : none = [f \in Endpoints |-> <<>>]
  OBVIOUS
<1>2. conns' = [conns EXCEPT ![c].state = "closed", ![c].to = none]
  BY <1>1 DEF Broken
<1> QED
  BY <1>2 DEF SameEnds, WiredIn, ConnFields

LEMMA GoneEnds ==
    ASSUME WiredIn(conns), NEW e \in Endpoints, Gone(e)
    PROVE  SameEnds(conns, conns')
<1>1. PICK mine :
        conns' = [c \in Conns |->
                    IF c \in mine
                    THEN [conns[c] EXCEPT
                            !.closed = @ \cup {e}, !.to[e] = <<>>,
                            !.state = IF @ = "connecting" THEN "closed" ELSE @]
                    ELSE conns[c]]
  BY DEF Gone
<1> QED
  BY <1>1 DEF SameEnds, WiredIn, ConnFields

\* No device that runs gets or loses an entry or a handler.
LEMMA EntriesSame ==
    ASSUME Entries, SameEnds(conns, conns'),
           tcp_connections' \in [Endpoints -> [Addresses -> Conns \cup {0}]],
           handlers' \in [Endpoints -> SUBSET Conns],
           \A e \in Endpoints : handlers'[e] \subseteq handlers[e],
           DOMAIN device' = Endpoints,
           \A e \in Endpoints : device'[e] = "gone" => handlers'[e] = {},
           \A e \in Endpoints : device'[e] = "running" =>
              \/ handlers'[e] = {}
              \/ device[e] = "running" /\ tcp_connections'[e] = tcp_connections[e]
    PROVE  Entries'
<1>1. /\ \A c \in Conns : AddressKnown(conns[c].toward)'
      /\ \A e \in Endpoints : \A c \in handlers'[e] :
            /\ conns'[c].state # "unused"
            /\ conns'[c].maker = e \/ conns'[c].accepted # "no"
  <2>1. \A e \in Endpoints : handlers'[e] \subseteq handlers[e] /\ handlers'[e] \subseteq Conns
    OBVIOUS
  <2> QED
    BY SMTT(20), <2>1 DEF Entries, SameEnds, AddressKnown
<1>2. ASSUME NEW e \in Endpoints, device'[e] = "running", NEW c \in handlers'[e],
             conns'[c].maker = e \/ conns'[c].accepted = "listed"
      PROVE  tcp_connections'[e][Address(e, c)'] = c
  <2>1. c \in Conns /\ c \in handlers[e]
    BY <1>2
  <2>2. device[e] = "running" /\ tcp_connections'[e] = tcp_connections[e]
    BY <1>2
  <2>3. conns[c].maker = e \/ conns[c].accepted = "listed"
    BY <1>2, <2>1 DEF SameEnds
  <2>4. Address(e, c)' = Address(e, c)
    BY <2>1 DEF Address, SameEnds
  <2> QED
    BY <2>1, <2>2, <2>3, <2>4 DEF Entries, AnswersStay
<1> QED
  BY <1>1, <1>2 DEF Entries, AnswersStay

\* A new connection is listed for an address that had none.
LEMMA EntriesConnect ==
    ASSUME Entries, NEW e \in Endpoints, NEW a, AddressKnown(a), Listed(e, a) = 0,
           device[e] # "gone",
           NEW cs, WiredIn(cs), SameEnds(conns, cs), NEW msgs,
           ConnectAndWrite(e, a, cs, msgs), device' = device
    PROVE  Entries'
<1>1. PICK c, made, atOnce :
        /\ c \in Conns /\ cs[c].state = "unused"
        /\ made = [cs EXCEPT ![c].maker = e, ![c].toward = a,
                             ![c].state = IF atOnce THEN "open" ELSE "connecting"]
        /\ tcp_connections' = [tcp_connections EXCEPT ![e][a] = c]
        /\ handlers' = [handlers EXCEPT ![e] = @ \cup {c}]
        /\ conns' = IF atOnce THEN Written(made, e, c, msgs) ELSE made
  BY DEF ConnectAndWrite
<1>0. a \in Addresses
  BY ConnsAre DEF AddressKnown
<1>2. /\ SameStreams(cs, made)
      /\ made[c].maker = e /\ made[c].toward = a /\ made[c].accepted = cs[c].accepted
      /\ made[c].state # "unused"
      /\ \A d \in Conns \ {c} : made[d] = cs[d]
  BY <1>1 DEF SameStreams, WiredIn, ConnFields
<1>3. SameEnds(made, conns')
  <2>1. CASE atOnce
    <3>1. WiredIn(made) /\ conns' = Written(made, e, c, msgs)
      BY <1>1, <1>2, <2>1, SameStreamsIs
    <3>2. c \in Conns /\ WiredIn(made)
      BY <1>1, <3>1
    <3>3. SameEnds(made, Written(made, e, c, msgs))
      BY ONLY e \in Endpoints, <3>2, WrittenEnds
    <3> QED
      BY <3>1, <3>3
  <2>2. CASE ~atOnce
    BY <1>1, <2>2 DEF SameEnds
  <2> QED
    BY <2>1, <2>2
<1>4. /\ conns'[c].maker = e /\ conns'[c].toward = a
      /\ conns'[c].accepted = conns[c].accepted /\ conns'[c].state # "unused"
      /\ conns[c].state = "unused"
      /\ \A d \in Conns \ {c} :
            /\ conns'[d].state = "unused" <=> conns[d].state = "unused"
            /\ conns'[d].maker = conns[d].maker /\ conns'[d].toward = conns[d].toward
            /\ conns'[d].accepted = conns[d].accepted
  <2>1. /\ conns'[c].maker = e /\ conns'[c].toward = a
        /\ conns'[c].accepted = conns[c].accepted /\ conns'[c].state # "unused"
        /\ conns[c].state = "unused"
    BY <1>1, <1>2, <1>3 DEF SameEnds
  <2>2. ASSUME NEW d \in Conns \ {c}
        PROVE  /\ conns'[d].state = "unused" <=> conns[d].state = "unused"
               /\ conns'[d].maker = conns[d].maker /\ conns'[d].toward = conns[d].toward
               /\ conns'[d].accepted = conns[d].accepted
    BY <1>2, <1>3 DEF SameEnds
  <2> QED
    BY <2>1, <2>2
<1>5. /\ tcp_connections' \in [Endpoints -> [Addresses -> Conns \cup {0}]]
      /\ handlers' \in [Endpoints -> SUBSET Conns]
      /\ tcp_connections'[e][a] = c
      /\ \A b \in Addresses \ {a} : tcp_connections'[e][b] = tcp_connections[e][b]
      /\ \A f \in Endpoints \ {e} : /\ tcp_connections'[f] = tcp_connections[f]
                                    /\ handlers'[f] = handlers[f]
      /\ handlers'[e] = handlers[e] \cup {c}
  BY <1>0, <1>1 DEF Entries
<1>6. ASSUME NEW f \in Endpoints, device[f] = "running", NEW d \in handlers'[f],
             conns'[d].maker = f \/ conns'[d].accepted = "listed"
      PROVE  tcp_connections'[f][Address(f, d)'] = d
  <2>1. d \in Conns
    BY <1>5, <1>6
  <2>2. CASE f = e /\ d = c
    BY <1>4, <1>5, <2>2 DEF Address
  <2>3. CASE f = e /\ d # c
    <3>1. d \in handlers[e] /\ Address(e, d)' = Address(e, d)
      BY <1>4, <1>5, <1>6, <2>1, <2>3 DEF Address
    <3>2. conns[d].maker = e \/ conns[d].accepted = "listed"
      BY <1>4, <1>6, <2>1, <2>3
    <3>3. tcp_connections[e][Address(e, d)] = d
      BY <1>6, <2>3, <3>1, <3>2 DEF Entries, AnswersStay
    <3>4. Address(e, d) # a
      BY <2>1, <3>3, ConnsAre DEF Listed
    <3> QED
      BY <1>5, <2>1, <2>3, <3>1, <3>3, <3>4, ListedIs
  <2>4. CASE f # e
    <3>1. d \in handlers[f]
      BY <1>5, <1>6, <2>4
    <3>0. d # c
      BY <1>4, <3>1 DEF Entries
    <3>2. conns[d].maker = f \/ conns[d].accepted = "listed"
      BY <1>4, <1>6, <2>1, <3>0
    <3>3. tcp_connections[f][Address(f, d)] = d
      BY <1>6, <3>1, <3>2 DEF Entries, AnswersStay
    <3>4. Address(f, d)' = Address(f, d)
      BY <1>4, <2>1, <3>0 DEF Address
    <3> QED
      BY <1>5, <2>4, <3>3, <3>4
  <2> QED
    BY <2>2, <2>3, <2>4
<1>7. \A d \in Conns : AddressKnown(conns[d].toward)'
  BY <1>4 DEF Entries, AddressKnown
<1>8. ASSUME NEW f \in Endpoints, NEW d \in handlers'[f]
      PROVE  /\ conns'[d].state # "unused"
             /\ conns'[d].maker = f \/ conns'[d].accepted # "no"
  <2>1. d \in handlers[f] \/ (f = e /\ d = c)
    BY <1>5, <1>8
  <2>2. d \in handlers[f] => d # c /\ d \in Conns
    BY <1>4 DEF Entries
  <2> QED
    BY <1>4, <2>1, <2>2 DEF Entries
<1>9. /\ DOMAIN device' = Endpoints
      /\ \A f \in Endpoints : device'[f] = "gone" => handlers'[f] = {}
  BY <1>5 DEF Entries
<1> QED
  BY <1>5, <1>6, <1>7, <1>8, <1>9 DEF Entries, AnswersStay

\* What is sent, after a read or not.
LEMMA EntriesSend ==
    ASSUME Entries, NEW e \in Endpoints, NEW a, AddressKnown(a), device[e] # "gone",
           NEW cs, WiredIn(cs), SameEnds(conns, cs), NEW msgs,
           Send(e, a, cs, msgs), device' = device
    PROVE  Entries'
<1>1. CASE conns' = cs /\ UNCHANGED <<tcp_connections, handlers>>
  BY <1>1, EntriesSame DEF Entries
<1>2. CASE Listed(e, a) # 0 /\ Write(e, Listed(e, a), cs, msgs)
           /\ UNCHANGED <<tcp_connections, handlers>>
  <2>1. PICK c \in Conns : c = Listed(e, a)
    BY <1>2, ListedIs, ConnsAre DEF AddressKnown
  <2>2. conns' = cs \/ conns' = Written(cs, e, c, msgs)
    BY <1>2, <2>1 DEF Write
  <2>3. SameEnds(conns, conns')
    BY <2>2, WrittenEnds DEF SameEnds
  <2> QED
    BY <1>2, <2>3, EntriesSame DEF Entries
<1>3. CASE Listed(e, a) = 0 /\ ConnectAndWrite(e, a, cs, msgs)
  BY <1>3, EntriesConnect
<1> QED
  BY <1>1, <1>2, <1>3 DEF Send, NoSocket

\* A connection is accepted, and listed for the port it was made from, or not.
LEMMA EntriesAccept ==
    ASSUME Entries, WiredIn(conns), NEW e \in Endpoints, NEW c \in Conns, Accept(e, c)
    PROVE  Entries'
<1>1. PICK how :
        /\ how \in {"listed", "unlisted"}
        /\ conns' = [conns EXCEPT ![c].accepted = how]
        /\ tcp_connections' = IF how = "listed" THEN [tcp_connections EXCEPT ![e][c] = c]
                              ELSE tcp_connections
        /\ handlers' = [handlers EXCEPT ![e] = @ \cup {c}]
        /\ device' = device /\ conns[c].accepted = "no" /\ conns[c].maker = Peer(e)
        /\ conns[c].state = "open" /\ device[e] # "gone"
  BY DEF Accept, Active
<1>2. /\ conns'[c].accepted = how
      /\ \A d \in Conns : /\ conns'[d].maker = conns[d].maker
                          /\ conns'[d].toward = conns[d].toward
                          /\ conns'[d].state = conns[d].state
      /\ \A d \in Conns \ {c} : conns'[d].accepted = conns[d].accepted
  BY <1>1 DEF WiredIn, ConnFields
<1>3. /\ tcp_connections' \in [Endpoints -> [Addresses -> Conns \cup {0}]]
      /\ handlers' \in [Endpoints -> SUBSET Conns]
      /\ how = "listed" => tcp_connections'[e][c] = c
      /\ \A f \in Endpoints : \A b \in Addresses :
            f # e \/ b # c => tcp_connections'[f][b] = tcp_connections[f][b]
      /\ \A f \in Endpoints : handlers'[f] = IF f = e THEN handlers[e] \cup {c} ELSE handlers[f]
  BY <1>1, ConnsAre DEF Entries
<1>4. \A f \in Endpoints : \A d \in Conns : Address(f, d)' = Address(f, d)
  BY <1>2 DEF Address
<1>5. ASSUME NEW f \in Endpoints, device[f] = "running", NEW d \in handlers'[f],
             conns'[d].maker = f \/ conns'[d].accepted = "listed"
      PROVE  tcp_connections'[f][Address(f, d)'] = d
  <2>1. d \in Conns /\ Address(f, d) \in Addresses
    BY <1>3, ListedIs
  <2>2. CASE f = e /\ d = c
    <3>1. how = "listed" /\ Address(e, c) = c
      BY <1>1, <1>2, <1>5, <2>2, PeerIs DEF Address
    <3> QED
      BY <1>3, <1>4, <2>2, <3>1
  <2>3. CASE d \in handlers[f] /\ d # c
    <3>1. conns[d].maker = f \/ conns[d].accepted = "listed"
      BY <1>2, <1>5, <2>1, <2>3
    <3>2. tcp_connections[f][Address(f, d)] = d
      BY <1>5, <2>3, <3>1 DEF Entries, AnswersStay
    <3>3. Address(f, d) # c
      <4>1. conns[d].maker = f => Address(f, d) = conns[d].toward
        BY DEF Address
      <4>2. conns[d].maker # f => Address(f, d) = d
        BY DEF Address
      <4>3. conns[d].toward # c
        BY <1>1, <2>1, ConnsAre DEF Entries, AddressKnown
      <4> QED
        BY <2>3, <4>1, <4>2, <4>3
    <3> QED
      BY <1>3, <1>4, <2>1, <3>2, <3>3
  <2>4. CASE f # e /\ d = c
    <3>1. f = Peer(e) /\ conns[c].maker = f /\ c \in handlers[f]
      BY <1>1, <1>3, <1>5, <2>4, PeerIs
    <3>2. tcp_connections[f][Address(f, c)] = c
      BY <1>5, <3>1, <2>4 DEF Entries, AnswersStay
    <3> QED
      BY <1>3, <1>4, <2>1, <2>4, <3>2
  <2> QED
    BY <1>3, <1>5, <2>2, <2>3, <2>4
<1>6. /\ \A d \in Conns : AddressKnown(conns[d].toward)'
      /\ DOMAIN device' = Endpoints
  BY <1>1, <1>2 DEF Entries, AddressKnown
<1>8. \A f \in Endpoints : device'[f] = "gone" => handlers'[f] = {}
  BY <1>1, <1>3 DEF Entries
<1>7. ASSUME NEW f \in Endpoints, NEW d \in handlers'[f]
      PROVE  /\ conns'[d].state # "unused"
             /\ conns'[d].maker = f \/ conns'[d].accepted # "no"
  <2>1. d \in Conns /\ (d \in handlers[f] \/ d = c)
    BY <1>3, <1>7
  <2> QED
    BY <1>1, <1>2, <2>1 DEF Entries
<1> QED
  BY <1>1, <1>3, <1>5, <1>6, <1>7, <1>8 DEF Entries, AnswersStay

\* No other step adds an entry or a handler.
LEMMA EntriesKept ==
    ASSUME Entries, WiredIn(conns), [Next]_vars
    PROVE  Entries'
<1>1. ASSUME SameEnds(conns, conns'), UNCHANGED <<tcp_connections, handlers, device>>
      PROVE  Entries'
  BY <1>1, EntriesSame DEF Entries
<1>2. SameEnds(conns, conns)
  BY DEF SameEnds
<1>3. ASSUME NEW e \in Endpoints, NEW p \in Packets, Encapsulate(e, p)
      PROVE  Entries'
  <2>1. PICK msgs : Send(e, 0, conns, msgs) /\ device' = device /\ device[e] # "gone"
    BY <1>3 DEF Encapsulate, Active
  <2>2. AddressKnown(0)
    BY DEF AddressKnown
  <2> QED
    BY <1>2, <2>1, <2>2, EntriesSend
<1>4. ASSUME NEW e \in Endpoints, NEW c \in Conns, StreamRead(e, c)
      PROVE  Entries'
  <2>1. PICK msgs : /\ Send(e, Address(e, c), AfterRead(e, c), msgs)
                    /\ device' = device /\ device[e] # "gone"
    BY <1>4 DEF StreamRead, CanRead, Active
  <2>2. c \in handlers[e] /\ conns[c].to[e] # <<>>
    BY <1>4 DEF StreamRead, CanRead
  <2>3. AddressKnown(Address(e, c))
    BY <2>2 DEF Entries, AddressKnown, Address
  <2>4. WiredIn(AfterRead(e, c))
    <3>1. ReadFrom(conns, e, c, AfterRead(e, c))
      BY <2>2 DEF ReadFrom, AfterRead
    <3> QED
      BY ONLY e \in Endpoints, c \in Conns, WiredIn(conns), <3>1, ReadIs
  <2> QED
    BY <2>1, <2>3, <2>4, ReadEnds, EntriesSend
<1>5. ASSUME NEW e \in Endpoints, NEW c \in Conns, TurnAway(e, c)
      PROVE  Entries'
  <2>1. PICK back : conns' = Written(AfterRead(e, c), e, c, back) \/ conns' = AfterRead(e, c)
    BY <1>5 DEF TurnAway
  <2>2. WiredIn(AfterRead(e, c))
    <3>1. ReadFrom(conns, e, c, AfterRead(e, c))
      BY <1>5 DEF TurnAway, CanRead, ReadFrom, AfterRead
    <3> QED
      BY ONLY e \in Endpoints, c \in Conns, WiredIn(conns), <3>1, ReadIs
  <2>3. SameEnds(conns, conns')
    BY <2>1, <2>2, ReadEnds, WrittenEnds DEF SameEnds
  <2> QED
    BY <1>1, <1>5, <2>3 DEF TurnAway
<1>6. ASSUME NEW e \in Endpoints, NEW c \in Conns, LeaveFor(e, c), handlers' = handlers,
             SameEnds(conns, conns')
      PROVE  Entries'
  <2>1. /\ tcp_connections' \in [Endpoints -> [Addresses -> Conns \cup {0}]]
        /\ DOMAIN device' = Endpoints /\ device'[e] # "running"
        /\ \A f \in Endpoints \ {e} : /\ device'[f] = device[f]
                                      /\ tcp_connections'[f] = tcp_connections[f]
    BY <1>6 DEF LeaveFor, Entries
  <2>2. \A f \in Endpoints : device'[f] = "running" =>
            device[f] = "running" /\ tcp_connections'[f] = tcp_connections[f]
    BY <2>1
  <2>3. /\ handlers' \in [Endpoints -> SUBSET Conns]
        /\ \A f \in Endpoints : device'[f] = "gone" => handlers'[f] = {}
    <3>1. device'[e] = "leaving"
      BY <1>6 DEF LeaveFor, Entries
    <3> QED
      BY <1>6, <2>1, <3>1 DEF Entries
  <2> QED
    BY <1>6, <2>1, <2>2, <2>3, EntriesSame
<1>7. ASSUME NEW e \in Endpoints, NEW c \in Conns,
             StreamEnds(e, c) \/ StreamFails(e, c)
      PROVE  Entries'
  BY <1>2, <1>6, <1>7, BrokenEnds DEF StreamEnds, StreamFails
<1>8. ASSUME NEW e \in Endpoints, NEW c \in Conns, StreamBreaks(e, c)
      PROVE  Entries'
  <2>1. /\ handlers' = [handlers EXCEPT ![e] = @ \ {c}] /\ SameEnds(conns, conns')
        /\ tcp_connections' = tcp_connections /\ device' = device
    BY <1>8, BrokenEnds DEF StreamBreaks
  <2>2. /\ handlers' \in [Endpoints -> SUBSET Conns]
        /\ \A f \in Endpoints : handlers'[f] \subseteq handlers[f]
        /\ \A f \in Endpoints : device'[f] = "gone" => handlers'[f] = {}
    BY <2>1 DEF Entries
  <2> QED
    BY <2>1, <2>2, EntriesSame DEF Entries
<1>9. ASSUME NEW c \in Conns, ConnectDone(c)
      PROVE  Entries'
  <2>1. SameEnds(conns, conns')
    BY <1>9 DEF ConnectDone, SameEnds, WiredIn, ConnFields
  <2> QED
    BY <1>1, <1>9, <2>1 DEF ConnectDone
<1>10. ASSUME NEW e \in Endpoints, Gone(e)
       PROVE  Entries'
  <2>1. /\ handlers' \in [Endpoints -> SUBSET Conns]
        /\ tcp_connections' \in [Endpoints -> [Addresses -> Conns \cup {0}]]
        /\ DOMAIN device' = Endpoints /\ device'[e] # "running"
        /\ \A f \in Endpoints : handlers'[f] \subseteq handlers[f]
        /\ \A f \in Endpoints : device'[f] = "gone" => handlers'[f] = {}
        /\ \A f \in Endpoints \ {e} : /\ device'[f] = device[f]
                                      /\ tcp_connections'[f] = tcp_connections[f]
    BY <1>10 DEF Gone, Entries
  <2> QED
    BY <1>10, <2>1, GoneEnds, EntriesSame
<1>11. ASSUME NEW e \in Endpoints, Start(e)
       PROVE  Entries'
  <2>1. /\ UNCHANGED <<conns, tcp_connections, handlers>> /\ device[e] = "gone"
        /\ device' = [device EXCEPT ![e] = "running"]
    BY <1>11 DEF Start, links
  <2>2. handlers[e] = {}
    BY <2>1 DEF Entries
  <2>3. /\ DOMAIN device' = Endpoints
        /\ \A f \in Endpoints : device'[f] = "gone" => handlers'[f] = {}
        /\ \A f \in Endpoints : device'[f] = "running" =>
              \/ handlers'[f] = {}
              \/ device[f] = "running" /\ tcp_connections'[f] = tcp_connections[f]
    BY <2>1, <2>2 DEF Entries
  <2> QED
    BY <1>2, <2>1, <2>3, EntriesSame DEF Entries
<1>12. CASE UNCHANGED vars
  BY <1>1, <1>2, <1>12 DEF vars, links
<1> QED
  BY <1>3, <1>4, <1>5, <1>7, <1>8, <1>9, <1>10, <1>11, <1>12, EntriesAccept
  DEF Next, Stream, Leave, Stop

\* No tunnel has a handshake at first.
LEMMA StuckInit ==
    ASSUME Init
    PROVE  StuckInv
<1>1. /\ tunn = [e \in Endpoints |-> NewTunn] /\ heard = [e \in Endpoints |-> 0]
      /\ conns = [c \in Conns |-> Unused] /\ used = {}
  BY DEF Init
<1>2. Shaped(NewTunn) /\ Waits(NewTunn) /\ ~InProgress(NewTunn)
  BY FewIs DEF Shaped, Waits, InProgress, NewTunn, Fields, None
<1>3. /\ DOMAIN Unused = ConnFields /\ DOMAIN Unused.to = Endpoints
      /\ \A e \in Endpoints : Unused.to[e] = <<>>
  BY DEF Unused, ConnFields
<1>4. \A c \in Conns : conns[c] = Unused
  BY <1>1
<1>5. WiredIn(conns)
  BY <1>1, <1>3, <1>4, FewIs DEF WiredIn
<1>6. \A e \in Endpoints : ToIn(conns, e) = {}
  BY <1>3, <1>4, FewIs DEF ToIn
<1>7. Whole
  BY <1>1, <1>2, <1>5 DEF Whole
<1>8. Counted
  <2>1. used = 1..0
    BY <1>1
  <2> QED
    BY <2>1 DEF Counted
<1>9. Known
  BY <1>1, <1>2, <1>6 DEF Known
<1>10. \A e \in Endpoints : Paired(e) /\ Tracked(e)
  BY <1>1, <1>2 DEF Paired, Tracked
<1> QED
  BY <1>7, <1>8, <1>9, <1>10 DEF StuckInv

\* Every step keeps the invariant.
LEMMA StuckKept ==
    ASSUME StuckInv, Entries, [Next]_vars
    PROVE  StuckInv'
<1>1. ASSUME tunn' = tunn, heard' = heard, used' = used, dropped \subseteq dropped',
             SameStreams(conns, conns')
      PROVE  StuckInv'
  <2>1. Emptied(conns, conns', dropped')
    BY <1>1 DEF Emptied, SameStreams, StuckInv, Whole, WiredIn
  <2> QED
    BY <1>1, <2>1, LossKeeps
<1>2. SameStreams(conns, conns) /\ WiredIn(conns)
  BY DEF SameStreams, StuckInv, Whole, WiredIn
<1>3. ASSUME NEW c \in Conns, Broken(c), UNCHANGED tunnel
      PROVE  StuckInv'
  BY <1>2, <1>3, BrokenIs, LossKeeps DEF tunnel
<1>4. ASSUME NEW e \in Endpoints, Gone(e), UNCHANGED tunnel
      PROVE  StuckInv'
  BY <1>2, <1>4, GoneIs, LossKeeps DEF tunnel
<1>5. ASSUME NEW e \in Endpoints, NEW c \in Conns, Stream(e, c)
      PROVE  StuckInv'
  <2>1. CASE StreamRead(e, c) \/ TurnAway(e, c)
    BY <2>1, StreamReadKeeps, TurnAwayKeeps
  <2>2. CASE StreamEnds(e, c)
    BY <1>1, <1>2, <2>2 DEF StreamEnds, tunnel
  <2>3. CASE StreamBreaks(e, c) \/ StreamFails(e, c)
    BY <1>3, <2>3 DEF StreamBreaks, StreamFails
  <2> QED
    BY <1>5, <2>1, <2>2, <2>3 DEF Stream
<1>6. ASSUME NEW e \in Endpoints, NEW c \in Conns, Accept(e, c)
      PROVE  StuckInv'
  <2>1. PICK how : conns' = [conns EXCEPT ![c].accepted = how]
    BY <1>6 DEF Accept
  <2>2. SameStreams(conns, conns')
    BY <1>2, <2>1 DEF SameStreams, ConnFields
  <2> QED
    BY <1>1, <1>6, <2>2 DEF Accept, tunnel
<1>7. ASSUME NEW c \in Conns, ConnectDone(c)
      PROVE  StuckInv'
  <2>1. conns' = [conns EXCEPT ![c].state = "open"]
    BY <1>7 DEF ConnectDone
  <2>2. SameStreams(conns, conns')
    BY <1>2, <2>1 DEF SameStreams, ConnFields
  <2> QED
    BY <1>1, <1>7, <2>2 DEF ConnectDone, tunnel
<1>8. CASE UNCHANGED vars
  BY <1>1, <1>2, <1>8 DEF vars, tunnel, links
<1>9. ASSUME NEW e \in Endpoints, Leave(e) \/ Stop(e)
      PROVE  StuckInv'
  BY <1>4, <1>9 DEF Leave, Stop
<1> QED
  BY <1>5, <1>6, <1>7, <1>8, <1>9, EncapsulateKeeps, StartKeeps DEF Next

\* A handshake that is tracked is what StuckByLossOrLoad speaks of.
LEMMA NotStuck ==
    ASSUME StuckInv
    PROVE  StuckByLossOrLoad
<1>1. SUFFICES ASSUME NEW e \in Endpoints, tunn[e].packet_queue # <<>>
               PROVE  /\ InProgress(tunn[e])
                      /\ tunn[e].state.eph \in InitsOnStreams \cup AnswersTo(e) \cup dropped
  BY DEF StuckByLossOrLoad
<1>2. InProgress(tunn[e])
  BY <1>1 DEF StuckInv, Whole, Waits
<1>3. Tracked(e) /\ Peer(e) \in Endpoints
  BY PeerIs DEF StuckInv
<1>4. PICK k : k = tunn[e].state.eph
  OBVIOUS
<1>5. ASSUME NEW m \in ToIn(conns, Peer(e)), m.type = "init", m.eph = k
      PROVE  k \in InitsOnStreams
  <2>1. PICK c \in Conns : m \in ToSet(conns[c].to[Peer(e)])
    BY <1>5 DEF ToIn
  <2>2. m \in UNION {ToSet(conns[d].to[f]) : d \in Conns, f \in Endpoints}
    BY <1>3, <2>1
  <2> QED
    BY <1>5, <2>2 DEF InitsOnStreams
<1>6. ASSUME NEW m \in ToIn(conns, e), m.type = "response", m.answers = k
      PROVE  k \in AnswersTo(e)
  BY <1>6 DEF ToIn, AnswersTo
<1> QED
  BY <1>2, <1>3, <1>4, <1>5, <1>6 DEF Tracked

LEMMA InvInit == Init => StuckInv /\ Entries
BY StuckInit, EntriesInit

LEMMA InvKept == StuckInv /\ Entries /\ [Next]_vars => (StuckInv /\ Entries)'
<1> SUFFICES ASSUME StuckInv, Entries, [Next]_vars PROVE StuckInv' /\ Entries'
  OBVIOUS
<1>1. WiredIn(conns)
  BY DEF StuckInv, Whole
<1> QED
  BY <1>1, StuckKept, EntriesKept

\* StuckByLossOrLoad, for any number of packets, connections, frames and stops:
\* what keeps a queue waiting in a mode without timers is a message that the rate
\* limiter turned away, or that was written to a connection not established, one
\* that broke or none.
THEOREM StuckThenLostOrTurnedAway == Spec => []StuckByLossOrLoad
<1>1. StuckInv => StuckByLossOrLoad
  BY NotStuck
<1> QED
  BY <1>1, InvInit, InvKept, PTL DEF Spec

\* AnswersStay, for any number of connections and stops: what a handler of
\* register_tcp_stream_handler sends to the address of its stream goes out on it,
\* as long as the device runs and the stream was listed.
THEOREM AnswersGoBack == Spec => []AnswersStay
<1>1. Entries => AnswersStay
  BY DEF Entries
<1> QED
  BY <1>1, InvInit, InvKept, PTL DEF Spec

-----------------------------------------------------------------------------
(* Types.  That a read leaves a Tunn needs that the one it finds is good:   *)
(* the flush loop is called with it.                                       *)

TypeInv == TypeOK /\ \A e \in Endpoints : Good(tunn[e])

\* What is lost with messages is a set of ephemerals.
LEMMA HopelessType ==
    ASSUME NEW msgs \in Seq(Frame)
    PROVE  Hopeless(msgs) \subseteq Ephemerals
<1>1. \A m \in ToSet(msgs) : m \in Frame
  BY SetOf, ElementOfSeq
<1>2. \A m \in Frame : /\ m.type = "init" => m.eph \in Ephemerals
                       /\ m.type = "response" => m.answers \in Ephemerals
  BY DEF Frame, Cookie, Message
<1> QED
  BY <1>1, <1>2 DEF Hopeless

\* Messages are frames.
LEMMA FramesAre ==
    /\ \A msgs \in Seq(Message) : msgs \in Seq(Frame)
    /\ <<Cookie>> \in Seq(Frame)
<1>1. Message \subseteq Frame /\ Cookie \in Frame
  BY DEF Frame
<1>2. Seq(Message) \subseteq Seq(Frame)
  BY <1>1, SeqMonotonic
<1> QED
  BY <1>1, <1>2

\* A write leaves connections.
LEMMA WrittenType ==
    ASSUME NEW cs \in [Conns -> ConnType], NEW e \in Endpoints, NEW c \in Conns,
           NEW msgs \in Seq(Frame)
    PROVE  Written(cs, e, c, msgs) \in [Conns -> ConnType]
<1> DEFINE p == Peer(e)
<1>1. p \in Endpoints
  BY PeerType
<1>2. cs[c] \in ConnType /\ cs[c].to \in [Endpoints -> Seq(Frame)]
  BY DEF ConnType
<1>3. cs[c].to[p] \o msgs \in Seq(Frame)
  BY <1>1, <1>2, ConcatProperties
<1>4. [cs[c].to EXCEPT ![p] = cs[c].to[p] \o msgs] \in [Endpoints -> Seq(Frame)]
  BY <1>1, <1>2, <1>3
<1>5. [cs[c] EXCEPT !.to = [cs[c].to EXCEPT ![p] = cs[c].to[p] \o msgs]] \in ConnType
  BY <1>2, <1>4 DEF ConnType
<1>6. Written(cs, e, c, msgs)
        = [cs EXCEPT ![c] = [cs[c] EXCEPT !.to = [cs[c].to EXCEPT ![p] = cs[c].to[p] \o msgs]]]
  BY DEF Written
<1> HIDE DEF p
<1> QED
  BY <1>5, <1>6

\* A read does.
LEMMA AfterReadType ==
    ASSUME TypeOK, NEW e \in Endpoints, NEW c \in Conns, CanRead(e, c)
    PROVE  /\ AfterRead(e, c) \in [Conns -> ConnType]
           /\ Head(conns[c].to[e]) \in Frame
<1>1. conns[c] \in ConnType /\ conns[c].to \in [Endpoints -> Seq(Frame)]
  BY DEF TypeOK, ConnType
<1>2. conns[c].to[e] \in Seq(Frame) /\ conns[c].to[e] # <<>>
  BY <1>1 DEF CanRead
<1>3. Head(conns[c].to[e]) \in Frame /\ Tail(conns[c].to[e]) \in Seq(Frame)
  BY <1>2, HeadTailProperties
<1>4. [conns[c].to EXCEPT ![e] = Tail(conns[c].to[e])] \in [Endpoints -> Seq(Frame)]
  BY <1>1, <1>3
<1>5. [conns[c] EXCEPT !.to = [conns[c].to EXCEPT ![e] = Tail(conns[c].to[e])]] \in ConnType
  BY <1>1, <1>4 DEF ConnType
<1>6. AfterRead(e, c) = [conns EXCEPT ![c] = [conns[c] EXCEPT
                            !.to = [conns[c].to EXCEPT ![e] = Tail(conns[c].to[e])]]]
  BY DEF AfterRead
<1> QED
  BY <1>3, <1>5, <1>6 DEF TypeOK

\* Connections and what was lost, after a step.
LinksTyped ==
    /\ conns' \in [Conns -> ConnType]
    /\ tcp_connections' \in [Endpoints -> [Addresses -> Conns \cup {0}]]
    /\ handlers' \in [Endpoints -> SUBSET Conns]
    /\ dropped' \subseteq Ephemerals

LEMMA WriteType ==
    ASSUME TypeOK, NEW e \in Endpoints, NEW c \in Conns, NEW msgs \in Seq(Frame),
           NEW cs \in [Conns -> ConnType],
           Write(e, c, cs, msgs), UNCHANGED <<tcp_connections, handlers>>
    PROVE  LinksTyped
<1>1. CASE conns' = Written(cs, e, c, msgs) /\ dropped' = dropped
  BY <1>1, WrittenType DEF TypeOK, LinksTyped
<1>2. CASE conns' = cs /\ dropped' = dropped \cup Hopeless(msgs)
  BY <1>2, HopelessType DEF TypeOK, LinksTyped
<1> QED
  BY <1>1, <1>2 DEF Write

LEMMA ConnectType ==
    ASSUME TypeOK, NEW e \in Endpoints, NEW a \in Addresses, NEW msgs \in Seq(Frame),
           NEW cs \in [Conns -> ConnType], ConnectAndWrite(e, a, cs, msgs)
    PROVE  LinksTyped
<1>1. PICK c, s, made, atOnce :
        /\ c \in Conns /\ s \in {"open", "connecting"}
        /\ made = [cs EXCEPT ![c].maker = e, ![c].toward = a, ![c].state = s]
        /\ tcp_connections' = [tcp_connections EXCEPT ![e][a] = c]
        /\ handlers' = [handlers EXCEPT ![e] = @ \cup {c}]
        /\ conns' = IF atOnce THEN Written(made, e, c, msgs) ELSE made
        /\ dropped' = IF atOnce THEN dropped ELSE dropped \cup Hopeless(msgs)
  BY DEF ConnectAndWrite
<1>2. made \in [Conns -> ConnType]
  <2>1. cs[c] \in ConnType
    BY <1>1
  <2>2. [cs[c] EXCEPT !.maker = e, !.toward = a, !.state = s] \in ConnType
    BY <1>1, <2>1 DEF ConnType
  <2>3. made = [cs EXCEPT ![c] = [cs[c] EXCEPT !.maker = e, !.toward = a, !.state = s]]
    BY <1>1
  <2> QED
    BY <1>1, <2>2, <2>3
<1>3. conns' \in [Conns -> ConnType]
  BY <1>1, <1>2, WrittenType
<1>4. dropped' \subseteq Ephemerals
  BY <1>1, HopelessType DEF TypeOK
<1>5. /\ tcp_connections' \in [Endpoints -> [Addresses -> Conns \cup {0}]]
      /\ handlers' \in [Endpoints -> SUBSET Conns]
  BY <1>1 DEF TypeOK
<1> QED
  BY <1>3, <1>4, <1>5 DEF LinksTyped

LEMMA SendType ==
    ASSUME TypeOK, NEW e \in Endpoints, NEW a \in Addresses, NEW msgs \in Seq(Frame),
           NEW cs \in [Conns -> ConnType], Send(e, a, cs, msgs)
    PROVE  LinksTyped
<1>1. CASE conns' = cs /\ UNCHANGED <<tcp_connections, handlers>>
           /\ (dropped' = dropped \/ dropped' = dropped \cup Hopeless(msgs))
  BY <1>1, HopelessType DEF TypeOK, LinksTyped
<1>2. CASE Listed(e, a) # 0 /\ Write(e, Listed(e, a), cs, msgs)
           /\ UNCHANGED <<tcp_connections, handlers>>
  <2>1. Listed(e, a) \in Conns
    BY <1>2 DEF TypeOK, Listed
  <2> QED
    BY <1>2, <2>1, WriteType
<1>3. CASE ConnectAndWrite(e, a, cs, msgs)
  BY <1>3, ConnectType
<1> QED
  BY <1>1, <1>2, <1>3 DEF Send, NoSocket

\* What Becomes writes.
LEMMA BecomesType ==
    ASSUME TypeInv, NEW e \in Endpoints, NEW r, GoodResult(r), Becomes(e, r.tunn, r.out)
    PROVE  /\ tunn' \in [Endpoints -> TunnType] /\ used' \subseteq Ephemerals
           /\ \A f \in Endpoints : Good(tunn'[f])
<1>1. r.tunn \in TunnType /\ Good(r.tunn)
  BY DEF GoodResult, Good
<1>2. tunn \in [Endpoints -> TunnType] /\ tunn' = [tunn EXCEPT ![e] = r.tunn]
  BY DEF TypeInv, TypeOK, Becomes
<1>3. \A f \in Endpoints : tunn'[f] = IF f = e THEN r.tunn ELSE tunn[f]
  BY <1>2
<1> QED
  BY <1>1, <1>2, <1>3 DEF TypeInv, TypeOK, Becomes

\* A packet is sent, or waits.
LEMMA EncapsulateType ==
    ASSUME TypeInv, NEW e \in Endpoints, NEW p \in Packets, Encapsulate(e, p)
    PROVE  TypeInv'
<1>1. PICK k \in Drawn(Fresh) :
        LET r == Encapsulated(tunn[e], p, k) IN
        /\ Becomes(e, r.tunn, r.out)
        /\ Send(e, 0, conns, r.out)
  BY DEF Encapsulate
<1> DEFINE r == Encapsulated(tunn[e], p, k)
<1>2. Becomes(e, r.tunn, r.out) /\ Send(e, 0, conns, r.out)
  BY <1>1
<1>3. Good(tunn[e]) /\ p \in Payloads /\ TypeOK
  BY DEF TypeInv, Payloads
<1>4. GoodResult(r)
  BY <1>2, <1>3, SendingGood DEF Becomes
<1> HIDE DEF r
<1>5. r.out \in Seq(Frame)
  BY <1>4, FramesAre DEF GoodResult, Sendable
<1>6. LinksTyped
  <2>1. conns \in [Conns -> ConnType] /\ 0 \in Addresses
    BY <1>3, ConnsAre DEF TypeOK
  <2> QED
    BY <1>2, <1>3, <1>5, <2>1, SendType
<1>7. /\ tunn' \in [Endpoints -> TunnType] /\ used' \subseteq Ephemerals
      /\ \A f \in Endpoints : Good(tunn'[f])
  BY <1>2, <1>4, BecomesType
<1>8. /\ submitted' \in [Endpoints -> SUBSET Packets]
      /\ UNCHANGED <<heard, device, stops, derived>>
  BY <1>3 DEF Encapsulate, TypeOK
<1> QED
  BY <1>3, <1>6, <1>7, <1>8 DEF TypeInv, TypeOK, LinksTyped

\* A frame is read: what handle_verified_packet and the flush loop leave.
LEMMA HandledType ==
    ASSUME NEW e \in Endpoints, Good(tunn[e]), NEW m \in Frame,
           NEW k1 \in Ephemerals \cup {0}, NEW k2,
           m.type = "init" /\ ~Refused(e, m) => k1 # 0,
           DrawnIn(ThenFlush(Handled(e, m, k1), k2).out) \subseteq Ephemerals
    PROVE  /\ GoodResult(ThenFlush(Handled(e, m, k1), k2))
           /\ KeysOf(e, m, k1) \subseteq Key
<1> DEFINE h == Handled(e, m, k1)
           keys == KeysOf(e, m, k1)
<1>1. tunn[e] \in TunnType
  BY DEF Good
<1>0. (m \in Message /\ m.type \in {"init", "response", "data"}) \/ Refused(e, m)
  BY DEF Frame, Cookie, Message, Refused
<1>2. CASE Refused(e, m)
  <2>1. h = Result(tunn[e], <<>>) /\ keys = {}
    BY <1>2 DEF Handled, KeysOf
  <2> QED
    BY <2>1, SilentFlushed
<1>3. CASE ~Refused(e, m) /\ m.type = "init"
  <2>0. m \in Message
    BY <1>0, <1>3
  <2>1. h = Responded(tunn[e], m, k1) /\ keys = {<<m.eph, k1>>}
    BY <1>3 DEF Handled, KeysOf
  <2>2. k1 \in Ephemerals
    BY <1>3
  <2> QED
    BY <1>1, <1>3, <2>0, <2>1, <2>2, RespondedGood
<1>4. CASE ~Refused(e, m) /\ m.type = "response"
  <2>0. m \in Message
    BY <1>0, <1>4
  <2>1. h = Established(tunn[e], m) /\ keys = {<<m.answers, m.eph>>}
    BY <1>4 DEF Handled, KeysOf
  <2>2. Opens(tunn[e], m)
    BY <1>4 DEF Refused
  <2> QED
    BY <1>4, <2>0, <2>1, <2>2, EstablishedGood
<1>5. CASE ~Refused(e, m) /\ m.type = "data"
  <2> DEFINE u == SetCurrent(tunn[e], m.receiver)
  <2>1. h = Result(u, <<>>) /\ keys = {}
    BY <1>5 DEF Handled, KeysOf
  <2>2. m.receiver \in Indices
    BY <1>0, <1>5 DEF Message
  <2>3. /\ u \in TunnType /\ u.state = tunn[e].state /\ u.previous = tunn[e].previous
        /\ u.sessions = tunn[e].sessions /\ u.packet_queue = tunn[e].packet_queue
    BY <1>1, <2>2, SetCurrentType
  <2> HIDE DEF u
  <2>4. Good(u)
    BY <2>3 DEF Good, Clean, Waiting, InProgress
  <2> QED
    BY <2>1, <2>4, SilentFlushed
<1> QED
  BY <1>0, <1>2, <1>3, <1>4, <1>5

LEMMA StreamReadType ==
    ASSUME TypeInv, NEW e \in Endpoints, NEW c \in Conns, StreamRead(e, c)
    PROVE  TypeInv'
<1> DEFINE m == Head(conns[c].to[e])
           answers == m.type = "init" /\ ~Refused(e, m)
           Flush(k1, k2) == ThenFlush(Handled(e, m, k1), IF answers THEN k2 ELSE k1)
<1>1. PICK k1 \in Drawn(Fresh), k2 \in Drawn(Fresh \ Drawn(Fresh)) :
        /\ answers => k1 # 0
        /\ Becomes(e, Flush(k1, k2).tunn, Flush(k1, k2).out)
        /\ derived' = [derived EXCEPT ![e] = @ \cup KeysOf(e, m, k1)]
        /\ Send(e, Address(e, c), AfterRead(e, c), Flush(k1, k2).out)
  BY DEF StreamRead
<1> DEFINE k == IF answers THEN k2 ELSE k1
           r == ThenFlush(Handled(e, m, k1), k)
<1>2. TypeOK /\ Good(tunn[e])
  BY DEF TypeInv
<1>3. CanRead(e, c)
  BY DEF StreamRead
<1>4. PICK rest \in [Conns -> ConnType] : rest = AfterRead(e, c)
  BY <1>2, <1>3, AfterReadType
<1>5. m \in Frame
  BY <1>2, <1>3, AfterReadType
<1>6. k1 \in Ephemerals \cup {0}
  BY DEF Drawn, Fresh
<1>7. Address(e, c) \in Addresses
  BY <1>2, ConnsAre DEF TypeOK, ConnType, Address
<1>8. /\ answers => k1 # 0
      /\ Becomes(e, r.tunn, r.out)
      /\ derived' = [derived EXCEPT ![e] = @ \cup KeysOf(e, m, k1)]
      /\ Send(e, Address(e, c), rest, r.out)
  BY <1>1, <1>4
<1>9. /\ heard' = IF answers THEN [heard EXCEPT ![e] = m.eph] ELSE heard
      /\ UNCHANGED <<submitted, device, stops>>
  BY DEF StreamRead
<1> HIDE DEF m, k
<1>10. DrawnIn(r.out) \subseteq Ephemerals
  BY <1>8 DEF Becomes
<1>11. GoodResult(r) /\ KeysOf(e, m, k1) \subseteq Key
  BY <1>2, <1>5, <1>6, <1>8, <1>10, HandledType
<1> HIDE DEF r
<1>12. r.out \in Seq(Frame)
  BY <1>11, FramesAre DEF GoodResult, Sendable
<1>13. LinksTyped
  BY <1>2, <1>7, <1>8, <1>12, SendType
<1>14. /\ tunn' \in [Endpoints -> TunnType] /\ used' \subseteq Ephemerals
       /\ \A f \in Endpoints : Good(tunn'[f])
  BY <1>8, <1>11, BecomesType
<1>15. derived' \in [Endpoints -> SUBSET Key]
  BY <1>2, <1>8, <1>11 DEF TypeOK
<1>16. heard' \in [Endpoints -> Ephemerals \cup {0}]
  <2>1. answers => m.eph \in Ephemerals
    BY <1>5 DEF Frame, Cookie, Message
  <2> QED
    BY <1>2, <1>9, <2>1 DEF TypeOK
<1> QED
  BY <1>2, <1>9, <1>13, <1>14, <1>15, <1>16 DEF TypeInv, TypeOK, LinksTyped

\* A message is turned away.
LEMMA TurnAwayType ==
    ASSUME TypeInv, NEW e \in Endpoints, NEW c \in Conns, TurnAway(e, c)
    PROVE  TypeInv'
<1>1. TypeOK /\ CanRead(e, c)
  BY DEF TypeInv, TurnAway
<1>2. AfterRead(e, c) \in [Conns -> ConnType] /\ Head(conns[c].to[e]) \in Frame
  BY <1>1, AfterReadType
<1>3. conns' \in [Conns -> ConnType]
  BY <1>2, WrittenType, FramesAre DEF TurnAway
<1>4. dropped' \subseteq Ephemerals
  <2>1. <<Head(conns[c].to[e])>> \in Seq(Frame)
    BY <1>2
  <2> QED
    BY <1>1, <2>1, HopelessType DEF TurnAway, TypeOK
<1>5. UNCHANGED <<tunnel, tcp_connections, handlers, device, stops>>
  BY DEF TurnAway
<1> QED
  BY <1>1, <1>3, <1>4, <1>5 DEF TypeInv, TypeOK, tunnel

\* A connection breaks.
LEMMA BrokenType ==
    ASSUME TypeOK, NEW c \in Conns, Broken(c)
    PROVE  conns' \in [Conns -> ConnType] /\ dropped' \subseteq Ephemerals
<1>1. conns[c] \in ConnType /\ \A f \in Endpoints : conns[c].to[f] \in Seq(Frame)
  BY DEF TypeOK, ConnType
<1> DEFINE gone == [conns[c] EXCEPT !.state = "closed", !.to = [f \in Endpoints |-> <<>>]]
<1>2. gone \in ConnType
  <2>1. [f \in Endpoints |-> <<>>] \in [Endpoints -> Seq(Frame)]
    BY EmptySeq
  <2> QED
    BY <1>1, <2>1 DEF ConnType
<1>3. conns' = [conns EXCEPT ![c] = gone]
  BY DEF Broken, TypeOK
<1> HIDE DEF gone
<1>4. conns' \in [Conns -> ConnType]
  BY <1>2, <1>3 DEF TypeOK
<1>5. \A f \in Endpoints : Hopeless(conns[c].to[f]) \subseteq Ephemerals
  BY <1>1, HopelessType
<1> QED
  BY <1>4, <1>5 DEF Broken, TypeOK

\* A process ends.
LEMMA GoneType ==
    ASSUME TypeOK, NEW e \in Endpoints, Gone(e)
    PROVE  LinksTyped /\ device' \in [Endpoints -> {"running", "leaving", "gone"}]
<1> DEFINE Closed(c) == [conns[c] EXCEPT
                            !.closed = @ \cup {e}, !.to[e] = <<>>,
                            !.state = IF @ = "connecting" THEN "closed" ELSE @]
<1>1. ASSUME NEW c \in Conns
      PROVE  /\ conns[c] \in ConnType /\ Hopeless(conns[c].to[e]) \subseteq Ephemerals
             /\ Closed(c) \in ConnType
  <2>1. conns[c] \in ConnType /\ conns[c].to \in [Endpoints -> Seq(Frame)]
    BY DEF TypeOK, ConnType
  <2>2. [conns[c].to EXCEPT ![e] = <<>>] \in [Endpoints -> Seq(Frame)]
    BY <2>1, EmptySeq
  <2>3. [conns[c] EXCEPT !.closed = conns[c].closed \cup {e},
                         !.to = [conns[c].to EXCEPT ![e] = <<>>],
                         !.state = IF conns[c].state = "connecting"
                                   THEN "closed" ELSE conns[c].state] \in ConnType
    BY <2>1, <2>2 DEF ConnType
  <2>4. Hopeless(conns[c].to[e]) \subseteq Ephemerals
    BY <2>1, HopelessType
  <2> QED
    BY <2>1, <2>3, <2>4
<1>2. PICK mine \in SUBSET Conns :
        /\ conns' = [c \in Conns |-> IF c \in mine THEN Closed(c) ELSE conns[c]]
        /\ dropped' = dropped \cup UNION {Hopeless(conns[c].to[e]) : c \in mine}
  BY DEF Gone
<1> HIDE DEF Closed
<1>3. conns' \in [Conns -> ConnType]
  BY <1>1, <1>2
<1>4. dropped' \subseteq Ephemerals
  BY <1>1, <1>2 DEF TypeOK
<1> QED
  BY <1>3, <1>4 DEF Gone, TypeOK, LinksTyped

\* The other steps leave the tunnels alone, or begin with a new one.
LEMMA LinkStepType ==
    ASSUME TypeInv, NEW e \in Endpoints, NEW c \in Conns,
           \/ StreamEnds(e, c) \/ StreamBreaks(e, c) \/ StreamFails(e, c)
           \/ Accept(e, c) \/ ConnectDone(c)
    PROVE  TypeInv'
<1>0. c \in Addresses
  BY ConnsAre
<1>1. TypeOK /\ conns[c] \in ConnType /\ UNCHANGED <<tunnel, stops>>
  BY DEF TypeInv, TypeOK, StreamEnds, StreamBreaks, StreamFails, Accept, ConnectDone
<1>2. LinksTyped /\ device' \in [Endpoints -> {"running", "leaving", "gone"}]
  <2>0. ASSUME LeaveFor(e, c)
        PROVE  /\ tcp_connections' \in [Endpoints -> [Addresses -> Conns \cup {0}]]
               /\ device' \in [Endpoints -> {"running", "leaving", "gone"}]
    BY <1>1, <2>0 DEF LeaveFor, TypeOK
  <2>1. CASE StreamEnds(e, c)
    BY <1>1, <2>0, <2>1 DEF StreamEnds, TypeOK, LinksTyped
  <2>2. CASE StreamBreaks(e, c)
    BY <1>1, <2>2, BrokenType DEF StreamBreaks, TypeOK, LinksTyped
  <2>3. CASE StreamFails(e, c)
    BY <1>1, <2>0, <2>3, BrokenType DEF StreamFails, TypeOK, LinksTyped
  <2>4. CASE Accept(e, c)
    <3>1. PICK how \in {"listed", "unlisted"} :
            /\ conns' = [conns EXCEPT ![c] = [conns[c] EXCEPT !.accepted = how]]
            /\ tcp_connections' = IF how = "listed"
                                  THEN [tcp_connections EXCEPT ![e][c] = c]
                                  ELSE tcp_connections
      BY <2>4 DEF Accept
    <3>2. [conns[c] EXCEPT !.accepted = how] \in ConnType
      BY <1>1, <3>1 DEF ConnType
    <3>3. conns' \in [Conns -> ConnType]
      BY <1>1, <3>1, <3>2 DEF TypeOK
    <3>4. tcp_connections' \in [Endpoints -> [Addresses -> Conns \cup {0}]]
      BY <1>0, <1>1, <3>1 DEF TypeOK
    <3> QED
      BY <1>1, <2>4, <3>3, <3>4 DEF Accept, TypeOK, LinksTyped
  <2>5. CASE ConnectDone(c)
    <3>1. [conns[c] EXCEPT !.state = "open"] \in ConnType
      BY <1>1 DEF ConnType
    <3>2. conns' = [conns EXCEPT ![c] = [conns[c] EXCEPT !.state = "open"]]
      BY <2>5 DEF ConnectDone
    <3> QED
      BY <1>1, <2>5, <3>1, <3>2 DEF ConnectDone, TypeOK, LinksTyped
  <2> QED
    BY <2>1, <2>2, <2>3, <2>4, <2>5
<1> QED
  BY <1>1, <1>2 DEF TypeInv, TypeOK, LinksTyped, tunnel

LEMMA DeviceStepType ==
    ASSUME TypeInv, NEW e \in Endpoints, Leave(e) \/ Stop(e) \/ Start(e)
    PROVE  TypeInv'
<1>1. TypeOK
  BY DEF TypeInv
<1>2. CASE Leave(e) \/ Stop(e)
  <2>1. Gone(e) /\ UNCHANGED tunnel /\ stops' \in 0..MaxStops
    BY <1>1, <1>2, TcpAssumption DEF Leave, Stop, TypeOK
  <2>2. LinksTyped /\ device' \in [Endpoints -> {"running", "leaving", "gone"}]
    BY <1>1, <2>1, GoneType
  <2> QED
    BY <1>1, <2>1, <2>2 DEF TypeInv, TypeOK, LinksTyped, tunnel
<1>3. CASE Start(e)
  <2>1. NewTunn \in TunnType /\ Good(NewTunn)
    BY NewTunnGood DEF Good
  <2>2. tunn' \in [Endpoints -> TunnType] /\ \A f \in Endpoints : Good(tunn'[f])
    <3>1. tunn' = [tunn EXCEPT ![e] = NewTunn] /\ tunn \in [Endpoints -> TunnType]
      BY <1>1, <1>3 DEF Start, TypeOK
    <3>2. \A f \in Endpoints : tunn'[f] = IF f = e THEN NewTunn ELSE tunn[f]
      BY <3>1
    <3> QED
      BY <2>1, <3>1, <3>2 DEF TypeInv
  <2>3. /\ heard' \in [Endpoints -> Ephemerals \cup {0}]
        /\ device' \in [Endpoints -> {"running", "leaving", "gone"}]
        /\ UNCHANGED <<submitted, used, derived, links, stops, dropped>>
    BY <1>1, <1>3 DEF Start, TypeOK
  <2> QED
    BY <1>1, <2>2, <2>3 DEF TypeInv, TypeOK, links
<1> QED
  BY <1>2, <1>3

LEMMA TypeInit == Init => TypeInv
<1> SUFFICES ASSUME Init PROVE TypeInv
  OBVIOUS
<1>1. NewTunn \in TunnType /\ Good(NewTunn)
  BY NewTunnGood DEF Good
<1>2. Unused \in ConnType
  BY EmptySeq, ConnsAre DEF Unused, ConnType
<1>3. tunn \in [Endpoints -> TunnType] /\ \A e \in Endpoints : Good(tunn[e])
  BY <1>1 DEF Init
<1>4. conns \in [Conns -> ConnType]
  BY <1>2 DEF Init
<1>5. stops \in 0..MaxStops
  BY TcpAssumption DEF Init
<1> QED
  BY <1>3, <1>4, <1>5 DEF Init, TypeInv, TypeOK

LEMMA TypeKept == TypeInv /\ [Next]_vars => TypeInv'
<1> SUFFICES ASSUME TypeInv, [Next]_vars PROVE TypeInv'
  OBVIOUS
<1>1. CASE UNCHANGED vars
  BY <1>1 DEF TypeInv, TypeOK, vars, tunnel, links
<1>2. ASSUME NEW e \in Endpoints, NEW p \in Packets, Encapsulate(e, p) PROVE TypeInv'
  BY <1>2, EncapsulateType
<1>3. ASSUME NEW e \in Endpoints, NEW c \in Conns, Stream(e, c) \/ Accept(e, c)
      PROVE  TypeInv'
  BY <1>3, StreamReadType, TurnAwayType, LinkStepType DEF Stream
<1>4. ASSUME NEW e \in Endpoints, Leave(e) \/ Stop(e) \/ Start(e) PROVE TypeInv'
  BY <1>4, DeviceStepType
<1>5. ASSUME NEW c \in Conns, ConnectDone(c) PROVE TypeInv'
  <2>1. A \in Endpoints
    BY DEF Endpoints
  <2> QED
    BY <1>5, <2>1, LinkStepType
<1> QED
  BY <1>1, <1>2, <1>3, <1>4, <1>5 DEF Next

\* The types of two devices in TCP mode, for any number of connections and
\* stops: every handler leaves a Tunn, and every frame is a message.
THEOREM TypeCorrect == Spec => []TypeOK
<1>1. TypeInv => TypeOK
  BY DEF TypeInv
<1> QED
  BY <1>1, TypeInit, TypeKept, PTL DEF Spec

-----------------------------------------------------------------------------
(* The bytes of a stream: TcpStream.                                       *)

StreamTypeOK ==
    /\ writing \in [Senders -> Datagrams \cup {NoPacket}]
    /\ stream \in Seq(Bytes) /\ Len(stream) <= SNDBUF
    /\ buffer \in Seq(Bytes) /\ Len(buffer) <= BUFFER
    /\ bytes_consumed \in Nat
    /\ handling => bytes_consumed <= Len(buffer)
    /\ processed \in 0..MAX_ITR
    /\ handling \in BOOLEAN /\ closed \in BOOLEAN /\ torn \in BOOLEAN
    /\ written \in Seq(Datagrams)
    /\ handed \in Seq(Seq(Bytes))

-----------------------------------------------------------------------------
(* Bytes and sequences.                                                    *)

\* A packet is a sequence of bytes, not empty, and short enough for two of them.
LEMMA PacketType ==
    ASSUME NEW p \in Datagrams
    PROVE  /\ p \in Seq(Bytes) /\ p # NoPacket
           /\ Len(p) \in Nat \ {0} /\ Len(p) < BASE * BASE
           /\ HEADER_LEN + Len(p) <= BUFFER
BY StreamAssumption DEF NoPacket

\* The quotient and the remainder.
LEMMA DivMod ==
    ASSUME NEW n \in Nat \ {0}, NEW a \in Nat
    PROVE  /\ a % n \in 0..(n - 1)
           /\ a \div n \in Nat
           /\ a = n * (a \div n) + (a % n)
OBVIOUS

\* A length that is less than BASE * BASE is two bytes, which tell it.
LEMMA TwoBytes ==
    ASSUME NEW n \in Nat, n < BASE * BASE
    PROVE  /\ n \div BASE \in Bytes /\ n % BASE \in Bytes
           /\ BASE * (n \div BASE) + (n % BASE) = n
<1>1. BASE \in Nat \ {0}
  BY StreamAssumption
<1> DEFINE q == n \div BASE
           r == n % BASE
<1>2. r \in 0..(BASE - 1) /\ q \in Nat /\ n = BASE * q + r
  BY <1>1, DivMod
<1> HIDE DEF q, r
<1>3. q < BASE
  <2> SUFFICES ASSUME q >= BASE PROVE FALSE
    BY <1>1, <1>2
  <2>1. BASE * q >= BASE * BASE
    BY <1>1, <1>2
  <2>2. BASE * q \in Nat /\ BASE * BASE \in Nat
    BY <1>1, <1>2
  <2> QED
    BY <1>2, <2>1, <2>2
<1> QED
  BY <1>1, <1>2, <1>3 DEF Bytes, q, r

\* The two bytes before a packet.
LEMMA HeaderType ==
    ASSUME NEW p \in Datagrams
    PROVE  /\ Header(p) \in Seq(Bytes) /\ Len(Header(p)) = HEADER_LEN
           /\ BASE * Header(p)[1] + Header(p)[2] = Len(p)
<1>1. Len(p) \div BASE \in Bytes /\ Len(p) % BASE \in Bytes
  BY PacketType, TwoBytes
<1> QED
  BY <1>1, PacketType, TwoBytes DEF Header, HEADER_LEN

\* The parts of a sequence before and after a cut.
LEMMA Cut ==
    ASSUME NEW T, NEW s \in Seq(T), NEW n \in 0..Len(s)
    PROVE  /\ SubSeq(s, 1, n) \in Seq(T) /\ Len(SubSeq(s, 1, n)) = n
           /\ \A j \in 1..n : SubSeq(s, 1, n)[j] = s[j]
           /\ SubSeq(s, n + 1, Len(s)) \in Seq(T)
           /\ Len(SubSeq(s, n + 1, Len(s))) = Len(s) - n
           /\ \A j \in 1..(Len(s) - n) : SubSeq(s, n + 1, Len(s))[j] = s[n + j]
<1>1. Len(s) \in Nat /\ n \in Nat /\ n <= Len(s)
  OBVIOUS
<1>2. \A j \in 1..Len(s) : s[j] \in T
  OBVIOUS
<1>3. SubSeq(s, 1, n) \in Seq(T) /\ Len(SubSeq(s, 1, n)) = n
  BY <1>1, <1>2, SubSeqProperties
<1>4. \A j \in 1..n : SubSeq(s, 1, n)[j] = s[j]
  BY <1>1, <1>2
<1>5. /\ SubSeq(s, n + 1, Len(s)) \in Seq(T)
      /\ Len(SubSeq(s, n + 1, Len(s))) = Len(s) - n
  BY <1>1, <1>2
<1>6. \A j \in 1..(Len(s) - n) : SubSeq(s, n + 1, Len(s))[j] = s[n + j]
  BY <1>1, <1>2
<1> QED
  BY <1>3, <1>4, <1>5, <1>6

\* Two sequences, one after the other.
LEMMA Joined ==
    ASSUME NEW T, NEW s \in Seq(T), NEW t \in Seq(T)
    PROVE  /\ s \o t \in Seq(T) /\ Len(s \o t) = Len(s) + Len(t)
           /\ \A j \in 1..Len(s) : (s \o t)[j] = s[j]
           /\ \A j \in 1..Len(t) : (s \o t)[Len(s) + j] = t[j]
<1>1. Len(s) \in Nat /\ Len(t) \in Nat
  OBVIOUS
<1>2. s \o t \in Seq(T) /\ Len(s \o t) = Len(s) + Len(t)
  BY ConcatProperties
<1>3. \A j \in 1..Len(s) : (s \o t)[j] = s[j]
  BY <1>1
<1>4. \A j \in 1..Len(t) : (s \o t)[Len(s) + j] = t[j]
  BY <1>1
<1> QED
  BY <1>2, <1>3, <1>4

\* What WriteBytes takes of bytes.
LEMMA Taken ==
    ASSUME StreamTypeOK, NEW bytes \in Seq(Bytes), NEW w \in Senders, WriteBytes(w, bytes)
    PROVE  /\ stream' \in Seq(Bytes) /\ Len(stream') <= SNDBUF
           /\ torn' \in BOOLEAN
           /\ ~torn' => /\ ~torn
                        /\ stream' = stream \o bytes
                        /\ \A v \in Senders \ {w} : writing[v] = NoPacket
<1> DEFINE n == Least(Len(bytes), SNDBUF - Len(stream))
<1>1. Len(bytes) \in Nat /\ Len(stream) \in Nat /\ SNDBUF \in Nat /\ Len(stream) <= SNDBUF
  BY StreamAssumption DEF StreamTypeOK
<1>2. /\ n \in 0..Len(bytes) /\ Len(stream) + n <= SNDBUF
  BY <1>1 DEF Least
<1>3. /\ stream' = stream \o SubSeq(bytes, 1, n)
      /\ torn' = (torn \/ n < Len(bytes) \/ \E v \in Senders \ {w} : writing[v] # NoPacket)
  BY DEF WriteBytes
<1> HIDE DEF n
<1>4. SubSeq(bytes, 1, n) \in Seq(Bytes) /\ Len(SubSeq(bytes, 1, n)) = n
  BY <1>2, Cut
<1>5. stream \in Seq(Bytes)
  BY DEF StreamTypeOK
<1>6. stream' \in Seq(Bytes) /\ Len(stream') = Len(stream) + n
  BY <1>3, <1>4, <1>5, Joined
<1>7. n = Len(bytes) => SubSeq(bytes, 1, n) = bytes
  OBVIOUS
<1>8. ~(n < Len(bytes)) => n = Len(bytes)
  BY <1>1, <1>2
<1> QED
  BY <1>2, <1>3, <1>6, <1>7, <1>8

-----------------------------------------------------------------------------
(* Types.                                                                  *)

\* What a complete frame consists of.
LEMMA FrameType ==
    ASSUME StreamTypeOK, handling, Complete(bytes_consumed)
    PROVE  /\ PacketEnd(bytes_consumed) \in bytes_consumed..Len(buffer)
           /\ bytes_consumed + HEADER_LEN <= PacketEnd(bytes_consumed)
           /\ Packet(bytes_consumed) \in Seq(Bytes)
           /\ Len(Packet(bytes_consumed))
                = PacketEnd(bytes_consumed) - (bytes_consumed + HEADER_LEN)
           /\ \A k \in 1..(PacketEnd(bytes_consumed) - (bytes_consumed + HEADER_LEN)) :
                Packet(bytes_consumed)[k] = buffer[bytes_consumed + HEADER_LEN + k]
<1> DEFINE i == bytes_consumed
           h == buffer[i + 1]
           l == buffer[i + 2]
           s == i + HEADER_LEN
           e == PacketEnd(i)
<1>1. /\ buffer \in Seq(Bytes) /\ i \in Nat /\ Len(buffer) \in Nat
      /\ BASE \in Nat /\ HEADER_LEN = 2
  BY StreamAssumption DEF StreamTypeOK, HEADER_LEN
<1>2. i + 2 <= Len(buffer) /\ e <= Len(buffer)
  BY <1>1 DEF Complete
<1>3. i + 1 \in 1..Len(buffer) /\ i + 2 \in 1..Len(buffer)
  BY <1>1, <1>2
<1>4. h \in Bytes /\ l \in Bytes
  BY <1>1, <1>3
<1>5. h \in Nat /\ l \in Nat /\ e = i + 2 + BASE * h + l
  BY <1>1, <1>4 DEF Bytes, PacketEnd
<1>6. BASE * h \in Nat
  BY <1>1, <1>5
<1> HIDE DEF h, l
<1>7. e \in Nat /\ i + 2 <= e /\ s = i + 2
  BY <1>1, <1>5, <1>6
<1> HIDE DEF e, s
<1>8. Packet(i) = SubSeq(buffer, s + 1, e)
  BY DEF Packet, s, e
<1>9. \A j \in (s + 1)..e : buffer[j] \in Bytes
  BY <1>1, <1>2, <1>7
<1>10. /\ SubSeq(buffer, s + 1, e) \in Seq(Bytes)
       /\ Len(SubSeq(buffer, s + 1, e)) = e - s
       /\ \A k \in 1..(e - s) : SubSeq(buffer, s + 1, e)[k] = buffer[s + k]
  BY <1>1, <1>2, <1>7, <1>9
<1> QED
  BY <1>1, <1>2, <1>7, <1>8, <1>10 DEF s, e

\* The bytes that one read moves.
Moved(n) ==
    /\ buffer' = buffer \o SubSeq(stream, 1, n)
    /\ stream' = SubSeq(stream, n + 1, Len(stream))

\* Read takes at most what is there, and what fits.
LEMMA ReadMoves ==
    ASSUME StreamTypeOK, Read
    PROVE  \E n \in 1..Len(stream) :
              /\ Moved(n) /\ Len(buffer) + n <= BUFFER
              /\ stream' \in Seq(Bytes) /\ Len(stream') = Len(stream) - n
              /\ \A j \in 1..(Len(stream) - n) : stream'[j] = stream[n + j]
              /\ buffer' \in Seq(Bytes) /\ Len(buffer') = Len(buffer) + n
              /\ \A j \in 1..Len(buffer) : buffer'[j] = buffer[j]
              /\ \A j \in 1..n : buffer'[Len(buffer) + j] = stream[j]
<1>1. /\ stream \in Seq(Bytes) /\ buffer \in Seq(Bytes) /\ BUFFER \in Nat
      /\ Len(stream) \in Nat /\ Len(buffer) \in Nat
  BY StreamAssumption DEF StreamTypeOK
<1>2. PICK n \in 1..Least(Len(stream), BUFFER - Len(buffer)) : Moved(n)
  BY DEF Read, Moved
<1>3. n \in 1..Len(stream) /\ n \in 0..Len(stream) /\ Len(buffer) + n <= BUFFER
  BY <1>1, <1>2 DEF Least
<1> DEFINE t == SubSeq(stream, 1, n)
<1>4. /\ t \in Seq(Bytes) /\ Len(t) = n
      /\ \A j \in 1..n : t[j] = stream[j]
      /\ SubSeq(stream, n + 1, Len(stream)) \in Seq(Bytes)
      /\ Len(SubSeq(stream, n + 1, Len(stream))) = Len(stream) - n
      /\ \A j \in 1..(Len(stream) - n) :
            SubSeq(stream, n + 1, Len(stream))[j] = stream[n + j]
  BY <1>1, <1>3, Cut
<1> HIDE DEF t
<1>5. /\ buffer \o t \in Seq(Bytes) /\ Len(buffer \o t) = Len(buffer) + Len(t)
      /\ \A j \in 1..Len(buffer) : (buffer \o t)[j] = buffer[j]
      /\ \A j \in 1..Len(t) : (buffer \o t)[Len(buffer) + j] = t[j]
  <2>1. buffer \in Seq(Bytes) /\ t \in Seq(Bytes)
    BY <1>1, <1>4
  <2> QED
    BY ONLY <2>1, Joined, SMT
<1>6. buffer' = buffer \o t /\ stream' = SubSeq(stream, n + 1, Len(stream))
  BY <1>2 DEF Moved, t
<1>7. /\ stream' \in Seq(Bytes) /\ Len(stream') = Len(stream) - n
      /\ \A j \in 1..(Len(stream) - n) : stream'[j] = stream[n + j]
  BY <1>4, <1>6
<1>8. /\ buffer' \in Seq(Bytes) /\ Len(buffer') = Len(buffer) + n
      /\ \A j \in 1..Len(buffer) : buffer'[j] = buffer[j]
  BY <1>4, <1>5, <1>6
<1>9. \A j \in 1..n : buffer'[Len(buffer) + j] = stream[j]
  BY <1>4, <1>5, <1>6, Zenon
<1> QED
  BY <1>2, <1>3, <1>7, <1>8, <1>9, Zenon

\* compact keeps what follows the consumed frames.
LEMMA Compacted ==
    ASSUME StreamTypeOK, Compact
    PROVE  /\ buffer' \in Seq(Bytes) /\ Len(buffer') = Len(buffer) - bytes_consumed
           /\ bytes_consumed <= Len(buffer)
           /\ \A j \in 1..(Len(buffer) - bytes_consumed) :
                buffer'[j] = buffer[bytes_consumed + j]
<1>1. buffer \in Seq(Bytes) /\ bytes_consumed \in 0..Len(buffer)
  BY DEF StreamTypeOK, Compact
<1>2. buffer' = SubSeq(buffer, bytes_consumed + 1, Len(buffer))
  BY DEF Compact
<1> DEFINE c == bytes_consumed
<1>3. /\ SubSeq(buffer, c + 1, Len(buffer)) \in Seq(Bytes)
      /\ Len(SubSeq(buffer, c + 1, Len(buffer))) = Len(buffer) - c
      /\ \A j \in 1..(Len(buffer) - c) :
            SubSeq(buffer, c + 1, Len(buffer))[j] = buffer[c + j]
  BY <1>1, Cut
<1>4. bytes_consumed <= Len(buffer)
  BY <1>1
<1> QED
  BY <1>2, <1>3, <1>4, Zenon

\* Nothing is stored at first.
LEMMA StreamTypeInit == StreamInit => StreamTypeOK
<1> SUFFICES ASSUME StreamInit PROVE StreamTypeOK
  OBVIOUS
<1>1. writing \in [Senders -> Datagrams \cup {NoPacket}]
  BY DEF StreamInit
<1>2. /\ stream \in Seq(Bytes) /\ Len(stream) = 0
      /\ buffer \in Seq(Bytes) /\ Len(buffer) = 0
  BY DEF StreamInit
<1>3. written \in Seq(Datagrams) /\ handed \in Seq(Seq(Bytes))
  BY DEF StreamInit
<1>4. 0 <= SNDBUF /\ 0 <= BUFFER /\ 0 \in 0..MAX_ITR
  BY StreamAssumption
<1> QED
  BY <1>1, <1>2, <1>3, <1>4 DEF StreamInit, StreamTypeOK

\* Every step keeps the types.
LEMMA StreamTypeStep == StreamTypeOK /\ [StreamNext]_streamVars => StreamTypeOK'
<1> SUFFICES ASSUME StreamTypeOK, [StreamNext]_streamVars PROVE StreamTypeOK'
  OBVIOUS
<1>1. ASSUME NEW w \in Senders, NEW p \in Datagrams, WriteLength(w, p) PROVE StreamTypeOK'
  <2>1. Header(p) \in Seq(Bytes)
    BY HeaderType
  <2>2. WriteBytes(w, Header(p))
    BY <1>1 DEF WriteLength
  <2>3. stream' \in Seq(Bytes) /\ Len(stream') <= SNDBUF /\ torn' \in BOOLEAN
    BY <2>1, <2>2, Taken
  <2>4. writing' \in [Senders -> Datagrams \cup {NoPacket}] /\ written' \in Seq(Datagrams)
    BY <1>1 DEF WriteLength, StreamTypeOK
  <2> QED
    BY <1>1, <2>3, <2>4 DEF WriteLength, reader, StreamTypeOK
<1>2. ASSUME NEW w \in Senders, WritePacket(w) PROVE StreamTypeOK'
  <2>1. writing[w] \in Datagrams
    BY <1>2 DEF WritePacket, StreamTypeOK
  <2>2. writing[w] \in Seq(Bytes) /\ WriteBytes(w, writing[w])
    BY <1>2, <2>1, PacketType DEF WritePacket
  <2>3. stream' \in Seq(Bytes) /\ Len(stream') <= SNDBUF /\ torn' \in BOOLEAN
    BY <2>2, Taken
  <2>4. writing' \in [Senders -> Datagrams \cup {NoPacket}]
    BY <1>2 DEF WritePacket, StreamTypeOK
  <2> QED
    BY <1>2, <2>3, <2>4 DEF WritePacket, reader, StreamTypeOK
<1>3. CASE Read
  <2>1. PICK n \in 1..Len(stream) :
            /\ Len(buffer) + n <= BUFFER
            /\ stream' \in Seq(Bytes) /\ Len(stream') = Len(stream) - n
            /\ buffer' \in Seq(Bytes) /\ Len(buffer') = Len(buffer) + n
    BY <1>3, ReadMoves
  <2>2. Len(stream') <= SNDBUF
    BY <2>1, StreamAssumption DEF StreamTypeOK
  <2>3. bytes_consumed' = 0 /\ processed' = 0 /\ handling' = TRUE
    BY <1>3 DEF Read
  <2>4. Len(buffer') \in Nat
    BY <2>1
  <2>5. processed' \in 0..MAX_ITR
    BY <2>3, StreamAssumption
  <2> QED
    BY <1>3, <2>1, <2>2, <2>3, <2>4, <2>5 DEF Read, StreamTypeOK
<1>4. CASE ReadNothing
  BY <1>4 DEF ReadNothing, StreamTypeOK
<1>5. CASE HandleFrame
  <2>1. handling /\ Complete(bytes_consumed)
    BY <1>5 DEF HandleFrame
  <2>2. /\ PacketEnd(bytes_consumed) \in bytes_consumed..Len(buffer)
        /\ Packet(bytes_consumed) \in Seq(Bytes)
    BY <2>1, FrameType
  <2>3. bytes_consumed' \in Nat /\ bytes_consumed' <= Len(buffer)
    BY <1>5, <2>2 DEF HandleFrame, StreamTypeOK
  <2>4. processed' \in 0..MAX_ITR
    BY <1>5, StreamAssumption DEF HandleFrame, StreamTypeOK
  <2>5. handed' \in Seq(Seq(Bytes))
    BY <1>5, <2>2 DEF HandleFrame, StreamTypeOK
  <2> QED
    BY <1>5, <2>3, <2>4, <2>5 DEF HandleFrame, StreamTypeOK
<1>6. CASE Compact
  <2>1. /\ buffer' \in Seq(Bytes) /\ Len(buffer') = Len(buffer) - bytes_consumed
        /\ bytes_consumed <= Len(buffer)
    BY <1>6, Compacted
  <2>2. Len(buffer') <= BUFFER
    BY <2>1, StreamAssumption DEF StreamTypeOK
  <2> QED
    BY <1>6, <2>1, <2>2 DEF Compact, StreamTypeOK
<1>7. CASE UNCHANGED streamVars
  BY <1>7 DEF streamVars, reader, StreamTypeOK
<1> QED
  BY <1>1, <1>2, <1>3, <1>4, <1>5, <1>6, <1>7 DEF StreamNext

\* The types of the stream's state: the buffers never hold more than they can,
\* and the handler never consumes more than it has read.
THEOREM StreamTypeCorrect == StreamSpec => []StreamTypeOK
BY StreamTypeInit, StreamTypeStep, PTL DEF StreamSpec

-----------------------------------------------------------------------------
(* The bytes of all frames: the handler's buffer and the socket hold a     *)
(* stretch of them without a gap.                                          *)

\* The ith frame of all: off[i - 1] bytes come before it, off[i] end with it.
FrameAt(all, off, i) ==
    /\ off[i - 1] + HEADER_LEN + Len(written[i]) = off[i]
    /\ off[i] <= Len(all)
    /\ all[off[i - 1] + 1] = Header(written[i])[1]
    /\ all[off[i - 1] + 2] = Header(written[i])[2]
    /\ \A k \in 1..Len(written[i]) :
          all[off[i - 1] + HEADER_LEN + k] = written[i][k]

\* all is the frames of the written packets, one after the other.
Layout(all, off) ==
    /\ all \in Seq(Bytes)
    /\ off \in [0..Len(written) -> Nat]
    /\ off[0] = 0
    /\ off[Len(written)] = Len(all)
    /\ \A i \in 1..Len(written) : FrameAt(all, off, i)

\* What is left of all after the first gone bytes: the buffer, the socket, and
\* the packet whose length a sender has written.
Positions(all, gone, pending) ==
    /\ gone \in Nat
    /\ gone + (Len(buffer) + (Len(stream) + Len(pending))) = Len(all)
    /\ \A j \in 1..Len(buffer) : buffer[j] = all[gone + j]
    /\ \A j \in 1..Len(stream) : stream[j] = all[gone + (Len(buffer) + j)]
    /\ \A j \in 1..Len(pending) :
          pending[j] = all[gone + (Len(buffer) + (Len(stream) + j))]

\* At most one sender is between its two writes.
Pending(pending) ==
    \/ pending = NoPacket /\ \A w \in Senders : writing[w] = NoPacket
    \/ \E w \in Senders :
          /\ pending = writing[w] /\ pending # NoPacket
          /\ \A v \in Senders \ {w} : writing[v] = NoPacket

\* The handler's position is the end of a frame.
Reached(off, gone) ==
    /\ Len(handed) <= Len(written)
    /\ \A i \in 1..Len(handed) : handed[i] = written[i]
    /\ gone + (IF handling THEN bytes_consumed ELSE 0) = off[Len(handed)]

Intact(all, off, gone, pending) ==
    /\ Layout(all, off)
    /\ Positions(all, gone, pending)
    /\ pending \in Seq(Bytes) /\ Pending(pending)
    /\ Reached(off, gone)

StreamInv == ~torn => \E all, off, gone, pending : Intact(all, off, gone, pending)

\* Nothing is written, and nothing is read.
LEMMA StreamInvInit == StreamInit => StreamInv
<1> SUFFICES ASSUME StreamInit PROVE Intact(<<>>, [i \in 0..0 |-> 0], 0, <<>>)
  BY DEF StreamInv
<1>1. /\ written = <<>> /\ buffer = <<>> /\ stream = <<>> /\ handed = <<>>
      /\ writing = [w \in Senders |-> NoPacket] /\ ~handling
  BY DEF StreamInit
<1>2. Layout(<<>>, [i \in 0..0 |-> 0])
  BY <1>1 DEF Layout
<1>3. Positions(<<>>, 0, <<>>)
  BY <1>1 DEF Positions
<1>4. Pending(<<>>)
  BY <1>1 DEF Pending, NoPacket
<1>5. Reached([i \in 0..0 |-> 0], 0)
  BY <1>1 DEF Reached
<1> QED
  BY <1>2, <1>3, <1>4, <1>5 DEF Intact

\* The bytes after one more frame.
NextAll(all, p) == all \o (Header(p) \o p)

NextOff(off, p) ==
    [i \in 0..(Len(written) + 1) |->
        IF i = Len(written) + 1 THEN off[Len(written)] + HEADER_LEN + Len(p) ELSE off[i]]

\* A frame more keeps the layout.
LEMMA LayoutGrows ==
    ASSUME StreamTypeOK, NEW p \in Datagrams, written' = Append(written, p),
           NEW all, NEW off, Layout(all, off),
           NEW b, b = NextAll(all, p), NEW o, o = NextOff(off, p)
    PROVE  /\ b \in Seq(Bytes) /\ Len(b) = Len(all) + HEADER_LEN + Len(p)
           /\ \A j \in 1..Len(all) : b[j] = all[j]
           /\ \A j \in 1..HEADER_LEN : b[Len(all) + j] = Header(p)[j]
           /\ \A j \in 1..Len(p) : b[Len(all) + (HEADER_LEN + j)] = p[j]
           /\ Len(written') = Len(written) + 1
           /\ written'[Len(written) + 1] = p
           /\ \A i \in 1..Len(written) : written'[i] = written[i]
           /\ \A i \in 0..Len(written) : o[i] = off[i]
           /\ o \in [0..Len(written') -> Nat]
           /\ o[Len(written')] = Len(b)
<1>1. /\ all \in Seq(Bytes) /\ Len(all) \in Nat
      /\ p \in Seq(Bytes) /\ Len(p) \in Nat
      /\ Header(p) \in Seq(Bytes) /\ Len(Header(p)) = HEADER_LEN
      /\ HEADER_LEN = 2
  BY PacketType, HeaderType DEF Layout, HEADER_LEN
<1> DEFINE f == Header(p) \o p
<1>2. /\ f \in Seq(Bytes) /\ Len(f) = HEADER_LEN + Len(p)
      /\ \A j \in 1..HEADER_LEN : f[j] = Header(p)[j]
      /\ \A j \in 1..Len(p) : f[HEADER_LEN + j] = p[j]
  <2>1. Header(p) \in Seq(Bytes) /\ p \in Seq(Bytes)
    BY <1>1
  <2>2. /\ Header(p) \o p \in Seq(Bytes)
        /\ Len(Header(p) \o p) = Len(Header(p)) + Len(p)
        /\ \A j \in 1..Len(Header(p)) : (Header(p) \o p)[j] = Header(p)[j]
        /\ \A j \in 1..Len(p) : (Header(p) \o p)[Len(Header(p)) + j] = p[j]
    BY ONLY <2>1, Joined, SMT
  <2> QED
    BY <1>1, <2>2
<1> HIDE DEF f
<1>3. b = all \o f
  BY DEF NextAll, f
<1>4. /\ b \in Seq(Bytes) /\ Len(b) = Len(all) + Len(f)
      /\ \A j \in 1..Len(all) : b[j] = all[j]
      /\ \A j \in 1..Len(f) : b[Len(all) + j] = f[j]
  <2>1. all \in Seq(Bytes) /\ f \in Seq(Bytes)
    BY <1>1, <1>2
  <2> QED
    BY ONLY <1>3, <2>1, Joined, SMT
<1>5. \A j \in 1..HEADER_LEN : b[Len(all) + j] = Header(p)[j]
  BY <1>1, <1>2, <1>4
<1>6. \A j \in 1..Len(p) : b[Len(all) + (HEADER_LEN + j)] = p[j]
  <2> TAKE j \in 1..Len(p)
  <2>1. HEADER_LEN + j \in 1..Len(f)
    BY <1>1, <1>2
  <2> QED
    BY <1>2, <1>4, <2>1
<1>7. /\ Len(written') = Len(written) + 1
      /\ written'[Len(written) + 1] = p
      /\ \A i \in 1..Len(written) : written'[i] = written[i]
  BY DEF StreamTypeOK
<1>8. /\ \A i \in 0..Len(written) : o[i] = off[i]
      /\ o \in [0..Len(written') -> Nat]
      /\ o[Len(written')] = Len(all) + HEADER_LEN + Len(p)
  <2>1. /\ Len(written) \in Nat /\ off \in [0..Len(written) -> Nat]
        /\ off[Len(written)] = Len(all)
    BY DEF StreamTypeOK, Layout
  <2> QED
    BY <1>1, <1>7, <2>1 DEF NextOff
<1> QED
  BY <1>1, <1>2, <1>4, <1>5, <1>6, <1>7, <1>8

\* The frames stay where they are when another one follows.
LEMMA LayoutNext ==
    ASSUME StreamTypeOK, NEW p \in Datagrams, written' = Append(written, p),
           NEW all, NEW off, Layout(all, off),
           NEW b, b = NextAll(all, p), NEW o, o = NextOff(off, p)
    PROVE  Layout(b, o)'
<1>0. PICK n \in Nat : n = Len(written)
  BY DEF StreamTypeOK
<1>1. /\ b \in Seq(Bytes) /\ Len(b) = Len(all) + HEADER_LEN + Len(p)
      /\ \A j \in 1..Len(all) : b[j] = all[j]
      /\ \A j \in 1..HEADER_LEN : b[Len(all) + j] = Header(p)[j]
      /\ \A j \in 1..Len(p) : b[Len(all) + (HEADER_LEN + j)] = p[j]
  BY LayoutGrows
<1>2. /\ Len(written') = n + 1
      /\ written'[n + 1] = p
      /\ \A i \in 1..n : written'[i] = written[i]
      /\ \A i \in 0..n : o[i] = off[i]
      /\ o \in [0..Len(written') -> Nat]
      /\ o[Len(written')] = Len(b)
  BY <1>0, LayoutGrows
<1>3. /\ n \in Nat /\ off \in [0..n -> Nat] /\ off[0] = 0 /\ off[n] = Len(all)
      /\ all \in Seq(Bytes) /\ Len(all) \in Nat /\ HEADER_LEN = 2
      /\ \A i \in 1..n : written[i] \in Datagrams
  BY <1>0 DEF StreamTypeOK, Layout, HEADER_LEN
<1>4. \A i \in 1..n : FrameAt(all, off, i)
  BY <1>0 DEF Layout
<1>5. o[0] = 0
  BY <1>2, <1>3
<1>6. ASSUME NEW i \in 1..n PROVE FrameAt(b, o, i)'
  <2>1. i \in 0..n /\ i - 1 \in 0..n
    BY <1>3
  <2>2. /\ written'[i] = written[i] /\ o[i] = off[i] /\ o[i - 1] = off[i - 1]
        /\ off[i] \in Nat /\ off[i - 1] \in Nat
    BY <1>2, <1>3, <2>1
  <2>3. Len(written[i]) \in Nat
    BY <1>3, PacketType
  <2>4. /\ off[i - 1] + 2 + Len(written[i]) = off[i]
        /\ off[i] <= Len(all)
        /\ all[off[i - 1] + 1] = Header(written[i])[1]
        /\ all[off[i - 1] + 2] = Header(written[i])[2]
        /\ \A k \in 1..Len(written[i]) : all[off[i - 1] + 2 + k] = written[i][k]
    BY <1>3, <1>4 DEF FrameAt
  <2> DEFINE s == off[i - 1]
           l == Len(written[i])
  <2>5. /\ s + 1 \in 1..Len(all) /\ s + 2 \in 1..Len(all)
        /\ \A k \in 1..l : s + 2 + k \in 1..Len(all)
        /\ off[i] <= Len(b)
    <3>1. s + 2 + l <= Len(all) /\ s \in Nat /\ l \in Nat /\ Len(all) \in Nat
      BY <1>3, <2>2, <2>3, <2>4
    <3>2. Len(b) = Len(all) + 2 + Len(p) /\ Len(p) \in Nat
      BY <1>1, <1>3, PacketType
    <3>3. off[i] <= Len(all) /\ off[i] \in Nat
      BY <2>2, <2>4
    <3> HIDE DEF s, l
    <3> QED
      BY <3>1, <3>2, <3>3
  <2>6. /\ b[s + 1] = all[s + 1] /\ b[s + 2] = all[s + 2]
        /\ \A k \in 1..Len(written[i]) : b[s + 2 + k] = all[s + 2 + k]
    BY <1>1, <2>5
  <2>7. \A k \in 1..Len(written[i]) : b[s + 2 + k] = written[i][k]
    BY <2>4, <2>6
  <2>8. /\ o[i - 1] + 2 + Len(written'[i]) = o[i]
        /\ o[i] <= Len(b)
        /\ b[o[i - 1] + 1] = Header(written'[i])[1]
        /\ b[o[i - 1] + 2] = Header(written'[i])[2]
        /\ \A k \in 1..Len(written'[i]) : b[o[i - 1] + 2 + k] = written'[i][k]
    BY <2>2, <2>4, <2>5, <2>6, <2>7
  <2> QED
    BY <1>3, <2>8 DEF FrameAt
<1>7. FrameAt(b, o, n + 1)'
  <2>1. /\ o[n] = Len(all) /\ o[n + 1] = Len(b)
        /\ Len(b) = Len(all) + 2 + Len(p) /\ Len(p) \in Nat
        /\ (n + 1) - 1 = n
    BY <1>1, <1>2, <1>3, PacketType
  <2>2. /\ b[Len(all) + 1] = Header(p)[1]
        /\ b[Len(all) + 2] = Header(p)[2]
    BY <1>1, <1>3
  <2>3. \A k \in 1..Len(p) : b[Len(all) + 2 + k] = p[k]
    <3> TAKE k \in 1..Len(p)
    <3>1. b[Len(all) + (2 + k)] = p[k]
      BY <1>1, <1>3
    <3>2. Len(all) + (2 + k) = Len(all) + 2 + k
      BY <1>3
    <3> QED
      BY <3>1, <3>2
  <2>4. /\ o[(n + 1) - 1] + 2 + Len(p) = o[n + 1]
        /\ o[n + 1] <= Len(b)
        /\ b[o[(n + 1) - 1] + 1] = Header(p)[1]
        /\ b[o[(n + 1) - 1] + 2] = Header(p)[2]
        /\ \A k \in 1..Len(p) : b[o[(n + 1) - 1] + 2 + k] = p[k]
    <3>1. Len(b) \in Nat /\ Len(b) = Len(b)
      BY <1>1
    <3>2. o[(n + 1) - 1] = Len(all)
      BY <2>1
    <3>3. Len(all) + 2 + Len(p) = o[n + 1] /\ o[n + 1] <= Len(b)
      BY <2>1, <3>1
    <3> QED
      BY <2>2, <2>3, <3>2, <3>3
  <2> QED
    BY <1>2, <1>3, <2>4 DEF FrameAt
<1>8. \A i \in 1..Len(written') : i \in 1..n \/ i = n + 1
  BY <1>2, <1>3
<1> QED
  BY <1>1, <1>2, <1>5, <1>6, <1>7, <1>8 DEF Layout

\* A length is written: it and the packet follow the bytes so far.
LEMMA LengthIntact ==
    ASSUME StreamTypeOK, StreamInv, NEW w \in Senders, NEW p \in Datagrams,
           WriteLength(w, p), ~torn'
    PROVE  StreamInv'
<1>1. /\ Header(p) \in Seq(Bytes) /\ Len(Header(p)) = 2 /\ HEADER_LEN = 2
      /\ p \in Seq(Bytes) /\ Len(p) \in Nat /\ p # NoPacket
  BY HeaderType, PacketType DEF HEADER_LEN
<1>2. /\ ~torn /\ stream' = stream \o Header(p)
      /\ \A v \in Senders \ {w} : writing[v] = NoPacket
  BY <1>1, Taken DEF WriteLength
<1>3. PICK all, off, gone, pending : Intact(all, off, gone, pending)
  BY <1>2 DEF StreamInv
<1>4. PICK b, o : b = NextAll(all, p) /\ o = NextOff(off, p)
  OBVIOUS
<1>5. Layout(all, off) /\ written' = Append(written, p)
  BY <1>3 DEF Intact, WriteLength
<1>6. Layout(b, o)'
  BY <1>4, <1>5, LayoutNext
<1>7. /\ Len(b) = Len(all) + HEADER_LEN + Len(p)
      /\ \A j \in 1..Len(all) : b[j] = all[j]
      /\ \A j \in 1..HEADER_LEN : b[Len(all) + j] = Header(p)[j]
      /\ \A j \in 1..Len(p) : b[Len(all) + (HEADER_LEN + j)] = p[j]
      /\ Len(written') = Len(written) + 1
      /\ \A i \in 1..Len(written) : written'[i] = written[i]
      /\ \A i \in 0..Len(written) : o[i] = off[i]
  BY <1>4, <1>5, LayoutGrows
<1>8. pending = <<>>
  <2>1. writing[w] = NoPacket
    BY DEF WriteLength, SameMutex
  <2>2. \A v \in Senders : writing[v] = NoPacket
    BY <1>2, <2>1
  <2> QED
    BY <1>3, <2>2 DEF Intact, Pending, NoPacket
<1>9. Pending(p)'
  <2>1. writing'[w] = p /\ \A v \in Senders \ {w} : writing'[v] = NoPacket
    BY <1>2 DEF WriteLength, StreamTypeOK
  <2> QED
    BY <1>1, <2>1 DEF Pending
<1>10. Positions(b, gone, p)'
  <2>1. /\ gone \in Nat
        /\ gone + (Len(buffer) + Len(stream)) = Len(all)
        /\ \A j \in 1..Len(buffer) : buffer[j] = all[gone + j]
        /\ \A j \in 1..Len(stream) : stream[j] = all[gone + (Len(buffer) + j)]
        /\ Len(buffer) \in Nat /\ Len(stream) \in Nat /\ Len(all) \in Nat
    BY <1>3, <1>8 DEF Intact, Positions, StreamTypeOK, Layout
  <2>2. buffer' = buffer
    BY DEF WriteLength, reader
  <2>3. /\ Len(stream') = Len(stream) + 2
        /\ \A j \in 1..Len(stream) : stream'[j] = stream[j]
        /\ \A j \in 1..2 : stream'[Len(stream) + j] = Header(p)[j]
    <3>1. stream \in Seq(Bytes) /\ Header(p) \in Seq(Bytes)
      BY <1>1 DEF StreamTypeOK
    <3>2. /\ Len(stream \o Header(p)) = Len(stream) + Len(Header(p))
          /\ \A j \in 1..Len(stream) : (stream \o Header(p))[j] = stream[j]
          /\ \A j \in 1..Len(Header(p)) :
                (stream \o Header(p))[Len(stream) + j] = Header(p)[j]
      BY ONLY <3>1, Joined, SMT
    <3> QED
      BY <1>1, <1>2, <3>2
  <2> DEFINE nb == Len(buffer)
             ns == Len(stream)
             na == Len(all)
             np == Len(p)
  <2>4. /\ Len(buffer') = nb /\ Len(stream') = ns + 2 /\ Len(b) = na + 2 + np
        /\ nb \in Nat /\ ns \in Nat /\ na \in Nat /\ np \in Nat
        /\ gone \in Nat /\ gone + (nb + ns) = na
    BY <1>1, <1>7, <2>1, <2>2, <2>3
  <2>5. gone + (Len(buffer') + (Len(stream') + Len(p))) = Len(b)
    <3>1. gone + (nb + ((ns + 2) + np)) = na + 2 + np
      <4> HIDE DEF nb, ns, na, np
      <4> QED
        BY <2>4
    <3> QED
      BY <2>4, <3>1
  <2>6. \A j \in 1..Len(buffer') : buffer'[j] = b[gone + j]
    <3> TAKE j \in 1..Len(buffer')
    <3>1. gone + j \in 1..Len(all) /\ j \in 1..Len(buffer)
      BY <2>1, <2>2
    <3> QED
      BY <1>7, <2>1, <2>2, <3>1
  <2>7. \A j \in 1..Len(stream') : stream'[j] = b[gone + (Len(buffer') + j)]
    <3> TAKE j \in 1..Len(stream')
    <3>1. CASE j \in 1..Len(stream)
      <4>1. gone + (Len(buffer) + j) \in 1..Len(all)
        BY <2>1, <3>1
      <4> QED
        BY <1>7, <2>1, <2>2, <2>3, <3>1, <4>1
    <3>2. CASE j \notin 1..Len(stream)
      <4>1. PICK k \in 1..2 : j = Len(stream) + k
        <5>1. j - Len(stream) \in 1..2 /\ j = Len(stream) + (j - Len(stream))
          BY <2>1, <2>3, <3>2
        <5> QED
          BY <5>1
      <4>2. gone + (Len(buffer) + j) = Len(all) + k
        BY <2>1, <4>1
      <4>3. b[Len(all) + k] = Header(p)[k] /\ stream'[j] = Header(p)[k]
        BY <1>1, <1>7, <2>3, <4>1
      <4> QED
        BY <2>2, <4>2, <4>3
    <3> QED
      BY <3>1, <3>2
  <2>8. \A j \in 1..Len(p) : p[j] = b[gone + (Len(buffer') + (Len(stream') + j))]
    <3> TAKE j \in 1..Len(p)
    <3>1. gone + (Len(buffer') + (Len(stream') + j)) = Len(all) + (2 + j)
      <4>1. gone + (nb + ((ns + 2) + j)) = na + (2 + j)
        <5>1. j \in Nat
          BY <1>1
        <5> HIDE DEF nb, ns, na, np
        <5> QED
          BY <2>4, <5>1
      <4> QED
        BY <2>4, <4>1
    <3> QED
      BY <1>1, <1>7, <3>1
  <2> QED
    BY <2>1, <2>5, <2>6, <2>7, <2>8 DEF Positions
<1>11. Reached(o, gone)'
  <2>1. /\ Len(handed) <= Len(written)
        /\ \A i \in 1..Len(handed) : handed[i] = written[i]
        /\ gone + (IF handling THEN bytes_consumed ELSE 0) = off[Len(handed)]
    BY <1>3 DEF Intact, Reached
  <2>2. handed' = handed /\ handling' = handling /\ bytes_consumed' = bytes_consumed
    BY DEF WriteLength, reader
  <2>3. Len(handed) \in Nat /\ Len(written) \in Nat
    BY DEF StreamTypeOK
  <2>4. Len(handed) <= Len(written')
    BY <1>7, <2>1, <2>3
  <2>5. \A i \in 1..Len(handed) : i \in 1..Len(written)
    BY <2>1, <2>3
  <2>6. o[Len(handed)] = off[Len(handed)]
    BY <1>7, <2>1, <2>3
  <2>7. \A i \in 1..Len(handed) : handed[i] = written'[i]
    BY <1>7, <2>1, <2>5
  <2> QED
    BY <2>1, <2>2, <2>4, <2>6, <2>7 DEF Reached
<1> QED
  BY <1>1, <1>6, <1>9, <1>10, <1>11 DEF Intact, StreamInv

\* A packet is written: it follows the bytes in the socket.
LEMMA PacketIntact ==
    ASSUME StreamTypeOK, StreamInv, NEW w \in Senders, WritePacket(w), ~torn'
    PROVE  StreamInv'
<1> DEFINE p == writing[w]
<1>1. p \in Seq(Bytes) /\ Len(p) \in Nat /\ p # NoPacket /\ WriteBytes(w, p)
  BY PacketType DEF WritePacket, StreamTypeOK
<1>2. /\ ~torn /\ stream' = stream \o p
      /\ \A v \in Senders \ {w} : writing[v] = NoPacket
  BY <1>1, Taken
<1>3. PICK all, off, gone, pending : Intact(all, off, gone, pending)
  BY <1>2 DEF StreamInv
<1>4. pending = p
  BY <1>1, <1>2, <1>3 DEF Intact, Pending
<1> HIDE DEF p
<1>5. Layout(all, off)'
  BY <1>3 DEF Intact, Layout, FrameAt, WritePacket
<1>6. Pending(<<>>)'
  <2>1. \A v \in Senders : writing'[v] = NoPacket
    BY <1>2 DEF WritePacket, StreamTypeOK
  <2> QED
    BY <2>1 DEF Pending, NoPacket
<1>7. Positions(all, gone, <<>>)'
  <2>1. /\ gone \in Nat
        /\ gone + (Len(buffer) + (Len(stream) + Len(p))) = Len(all)
        /\ \A j \in 1..Len(buffer) : buffer[j] = all[gone + j]
        /\ \A j \in 1..Len(stream) : stream[j] = all[gone + (Len(buffer) + j)]
        /\ \A j \in 1..Len(p) : p[j] = all[gone + (Len(buffer) + (Len(stream) + j))]
        /\ Len(buffer) \in Nat /\ Len(stream) \in Nat
    BY <1>3, <1>4 DEF Intact, Positions, StreamTypeOK
  <2>2. buffer' = buffer
    BY DEF WritePacket, reader
  <2>3. /\ Len(stream') = Len(stream) + Len(p)
        /\ \A j \in 1..Len(stream) : stream'[j] = stream[j]
        /\ \A j \in 1..Len(p) : stream'[Len(stream) + j] = p[j]
    <3>1. stream \in Seq(Bytes) /\ p \in Seq(Bytes)
      BY <1>1 DEF StreamTypeOK
    <3>2. /\ Len(stream \o p) = Len(stream) + Len(p)
          /\ \A j \in 1..Len(stream) : (stream \o p)[j] = stream[j]
          /\ \A j \in 1..Len(p) : (stream \o p)[Len(stream) + j] = p[j]
      BY ONLY <3>1, Joined, SMT
    <3> QED
      BY <1>2, <3>2
  <2>4. gone + (Len(buffer') + (Len(stream') + 0)) = Len(all)
    BY <1>1, <2>1, <2>2, <2>3
  <2>5. \A j \in 1..Len(stream') : stream'[j] = all[gone + (Len(buffer') + j)]
    <3> TAKE j \in 1..Len(stream')
    <3>1. CASE j \in 1..Len(stream)
      BY <2>1, <2>2, <2>3, <3>1
    <3>2. CASE j \notin 1..Len(stream)
      <4>1. PICK k \in 1..Len(p) : j = Len(stream) + k
        <5>1. j - Len(stream) \in 1..Len(p) /\ j = Len(stream) + (j - Len(stream))
          BY <1>1, <2>1, <2>3, <3>2
        <5> QED
          BY <5>1
      <4> QED
        BY <2>1, <2>2, <2>3, <4>1
    <3> QED
      BY <3>1, <3>2
  <2>6. \A j \in 1..Len(buffer') : buffer'[j] = all[gone + j]
    BY <2>1, <2>2
  <2>7. Len(<<>>) = 0 /\ \A j : j \notin 1..0
    OBVIOUS
  <2> QED
    BY <2>1, <2>4, <2>5, <2>6, <2>7 DEF Positions
<1>8. Reached(off, gone)'
  BY <1>3 DEF Intact, Reached, WritePacket, reader
<1>9. <<>> \in Seq(Bytes)
  OBVIOUS
<1>10. Intact(all, off, gone, <<>>)'
  BY <1>5, <1>6, <1>7, <1>8, <1>9 DEF Intact
<1> QED
  BY <1>10, Zenon DEF StreamInv

\* A read moves bytes from the socket to the end of the buffer.
LEMMA ReadIntact ==
    ASSUME StreamTypeOK, StreamInv, Read, ~torn'
    PROVE  StreamInv'
<1>1. ~torn /\ ~handling /\ bytes_consumed' = 0 /\ handling' = TRUE
  BY DEF Read
<1>2. PICK all, off, gone, pending : Intact(all, off, gone, pending)
  BY <1>1 DEF StreamInv
<1>3. PICK n \in 1..Len(stream) :
          /\ Len(stream') = Len(stream) - n
          /\ \A j \in 1..(Len(stream) - n) : stream'[j] = stream[n + j]
          /\ Len(buffer') = Len(buffer) + n
          /\ \A j \in 1..Len(buffer) : buffer'[j] = buffer[j]
          /\ \A j \in 1..n : buffer'[Len(buffer) + j] = stream[j]
  BY ReadMoves
<1>4. Layout(all, off)'
  BY <1>2 DEF Intact, Layout, FrameAt, Read
<1>5. Pending(pending)' /\ pending \in Seq(Bytes)
  BY <1>2 DEF Intact, Pending, Read
<1>6. Reached(off, gone)'
  BY <1>1, <1>2 DEF Intact, Reached, Read
<1>7. Positions(all, gone, pending)'
  <2> DEFINE nb == Len(buffer)
             ns == Len(stream)
             np == Len(pending)
  <2>1. /\ gone \in Nat
        /\ gone + (nb + (ns + np)) = Len(all)
        /\ \A j \in 1..nb : buffer[j] = all[gone + j]
        /\ \A j \in 1..ns : stream[j] = all[gone + (nb + j)]
        /\ \A j \in 1..np : pending[j] = all[gone + (nb + (ns + j))]
        /\ nb \in Nat /\ ns \in Nat /\ np \in Nat
    BY <1>2, <1>5 DEF Intact, Positions, StreamTypeOK
  <2>2. /\ n \in 1..ns
        /\ Len(stream') = ns - n /\ Len(buffer') = nb + n
        /\ \A j \in 1..(ns - n) : stream'[j] = stream[n + j]
        /\ \A j \in 1..nb : buffer'[j] = buffer[j]
        /\ \A j \in 1..n : buffer'[nb + j] = stream[j]
    BY <1>3
  <2> HIDE DEF nb, ns, np
  <2>3. gone + (Len(buffer') + (Len(stream') + np)) = Len(all)
    <3>1. gone + ((nb + n) + ((ns - n) + np)) = gone + (nb + (ns + np))
      BY <2>1
    <3> QED
      BY <2>1, <2>2, <3>1
  <2>4. \A j \in 1..Len(buffer') : buffer'[j] = all[gone + j]
    <3> TAKE j \in 1..Len(buffer')
    <3>1. CASE j \in 1..nb
      BY <2>1, <2>2, <3>1
    <3>2. CASE j \notin 1..nb
      <4>1. PICK k \in 1..n : j = nb + k
        <5>1. j - nb \in 1..n /\ j = nb + (j - nb)
          BY <2>1, <2>2, <3>2
        <5> QED
          BY <5>1
      <4>2. k \in 1..ns
        BY <2>1, <2>2
      <4> QED
        BY <2>1, <2>2, <4>1, <4>2
    <3> QED
      BY <3>1, <3>2
  <2>5. \A j \in 1..Len(stream') : stream'[j] = all[gone + (Len(buffer') + j)]
    <3> TAKE j \in 1..Len(stream')
    <3>1. n + j \in 1..ns /\ nb + (n + j) = (nb + n) + j
      BY <2>1, <2>2
    <3> QED
      BY <2>1, <2>2, <3>1
  <2>6. \A j \in 1..np : pending[j] = all[gone + (Len(buffer') + (Len(stream') + j))]
    <3> TAKE j \in 1..np
    <3>1. nb + (ns + j) = (nb + n) + ((ns - n) + j)
      BY <2>1, <2>2
    <3> QED
      BY <2>1, <2>2, <3>1
  <2> QED
    BY <2>1, <2>3, <2>4, <2>5, <2>6 DEF Positions, np
<1>8. Intact(all, off, gone, pending)'
  BY <1>4, <1>5, <1>6, <1>7 DEF Intact
<1> QED
  BY <1>8, Zenon DEF StreamInv

\* What the handler finds at its position, once it has a length: the header of
\* the next packet that was written.
LEMMA NextFrame ==
    ASSUME StreamTypeOK, handling, NEW all, NEW off, NEW gone, NEW pending,
           Intact(all, off, gone, pending),
           Len(buffer) >= bytes_consumed + HEADER_LEN
    PROVE  /\ Len(handed) + 1 \in 1..Len(written)
           /\ written[Len(handed) + 1] \in Datagrams
           /\ PacketEnd(bytes_consumed)
                = bytes_consumed + 2 + Len(written[Len(handed) + 1])
           /\ gone + bytes_consumed = off[Len(handed)]
           /\ off[Len(handed)] + 2 + Len(written[Len(handed) + 1])
                = off[Len(handed) + 1]
           /\ \A k \in 1..Len(written[Len(handed) + 1]) :
                all[off[Len(handed)] + 2 + k] = written[Len(handed) + 1][k]
<1> DEFINE c == bytes_consumed
           e == PacketEnd(c)
           h == Len(handed)
           p == written[h + 1]
           nb == Len(buffer)
<1>3. c + 2 <= nb
  BY DEF HEADER_LEN
<1>4. /\ h \in Nat /\ Len(written) \in Nat /\ h <= Len(written)
      /\ \A i \in 1..h : handed[i] = written[i]
      /\ gone + c = off[h]
  <2>1. Reached(off, gone)
    BY DEF Intact
  <2>2. h \in Nat /\ Len(written) \in Nat
    BY DEF StreamTypeOK
  <2> QED
    BY <2>1, <2>2 DEF Reached
<1>5. /\ gone \in Nat /\ c \in Nat /\ nb \in Nat
      /\ gone + nb <= Len(all)
      /\ \A j \in 1..nb : buffer[j] = all[gone + j]
  <2>1. /\ gone \in Nat /\ c \in Nat /\ nb \in Nat
        /\ Len(stream) \in Nat /\ Len(pending) \in Nat
        /\ gone + (nb + (Len(stream) + Len(pending))) = Len(all)
    BY DEF Intact, Positions, StreamTypeOK
  <2>2. \A j \in 1..nb : buffer[j] = all[gone + j]
    BY DEF Intact, Positions
  <2> HIDE DEF c, nb
  <2>3. gone + nb <= Len(all)
    BY <2>1
  <2> QED
    BY <2>1, <2>2, <2>3
<1>6. /\ off \in [0..Len(written) -> Nat]
      /\ off[Len(written)] = Len(all)
      /\ \A i \in 1..Len(written) : FrameAt(all, off, i)
  BY DEF Intact, Layout
<1>7. h + 1 \in 1..Len(written)
  <2>1. h # Len(written)
    BY <1>3, <1>4, <1>5, <1>6
  <2> QED
    BY <1>4, <2>1
<1>8. p \in Datagrams /\ p \in Seq(Bytes) /\ Len(p) \in Nat
  BY <1>7, PacketType DEF StreamTypeOK
<1>9. /\ off[h] + 2 + Len(p) = off[h + 1]
      /\ all[off[h] + 1] = Header(p)[1]
      /\ all[off[h] + 2] = Header(p)[2]
      /\ \A k \in 1..Len(p) : all[off[h] + 2 + k] = p[k]
  <2>1. FrameAt(all, off, h + 1) /\ (h + 1) - 1 = h
    BY <1>4, <1>6, <1>7
  <2> QED
    BY <2>1 DEF FrameAt, HEADER_LEN
<1>10. buffer[c + 1] = Header(p)[1] /\ buffer[c + 2] = Header(p)[2]
  <2>1. c + 1 \in 1..nb /\ c + 2 \in 1..nb
    BY <1>3, <1>5
  <2>2. gone + (c + 1) = off[h] + 1 /\ gone + (c + 2) = off[h] + 2
    BY <1>4, <1>5
  <2> QED
    BY <1>5, <1>9, <2>1, <2>2
<1>11. e = c + 2 + Len(p)
  <2>1. BASE * Header(p)[1] + Header(p)[2] = Len(p)
    BY <1>8, HeaderType
  <2>2. BASE * Header(p)[1] \in Nat /\ Header(p)[2] \in Nat
    <3>1. /\ BASE \in Nat /\ HEADER_LEN = 2
          /\ Header(p) \in Seq(Bytes) /\ Len(Header(p)) = HEADER_LEN
      BY <1>8, HeaderType, StreamAssumption DEF HEADER_LEN
    <3>2. Header(p)[1] \in Nat /\ Header(p)[2] \in Nat
      BY <3>1 DEF Bytes
    <3> QED
      BY <3>1, <3>2
  <2>3. e = c + 2 + BASE * Header(p)[1] + Header(p)[2]
    BY <1>10 DEF PacketEnd, HEADER_LEN
  <2> DEFINE x == BASE * Header(p)[1]
             y == Header(p)[2]
             l == Len(p)
  <2>4. x \in Nat /\ y \in Nat /\ x + y = l /\ e = c + 2 + x + y /\ c \in Nat
    BY <1>5, <2>1, <2>2, <2>3
  <2>5. e = c + 2 + l
    <3> HIDE DEF e, p, x, y, l
    <3> QED
      BY <2>4
  <2> QED
    BY <2>5
<1> QED
  BY <1>4, <1>7, <1>8, <1>9, <1>11

\* The handler takes the next frame: it is the next packet that was written.
LEMMA FrameIntact ==
    ASSUME StreamTypeOK, StreamInv, HandleFrame, ~torn'
    PROVE  StreamInv'
<1> DEFINE c == bytes_consumed
           e == PacketEnd(c)
           h == Len(handed)
           p == written[h + 1]
           nb == Len(buffer)
<1>1. ~torn /\ handling /\ Complete(c)
  BY DEF HandleFrame
<1>2. PICK all, off, gone, pending : Intact(all, off, gone, pending)
  BY <1>1 DEF StreamInv
<1>3. /\ e \in c..nb /\ c + 2 <= e
      /\ Packet(c) \in Seq(Bytes)
      /\ Len(Packet(c)) = e - (c + 2)
      /\ \A k \in 1..(e - (c + 2)) : Packet(c)[k] = buffer[c + 2 + k]
  BY <1>1, FrameType DEF HEADER_LEN
<1>4. /\ h \in Nat /\ Len(written) \in Nat /\ h <= Len(written)
      /\ \A i \in 1..h : handed[i] = written[i]
  <2>1. Reached(off, gone)
    BY <1>2 DEF Intact
  <2>2. h \in Nat /\ Len(written) \in Nat
    BY DEF StreamTypeOK
  <2> QED
    BY <2>1, <2>2, Zenon DEF Reached
<1>5. /\ gone \in Nat /\ c \in Nat /\ nb \in Nat
      /\ \A j \in 1..nb : buffer[j] = all[gone + j]
  BY <1>2 DEF Intact, Positions, StreamTypeOK
<1>6. Len(buffer) >= bytes_consumed + HEADER_LEN
  BY <1>1 DEF Complete
<1>7. /\ h + 1 \in 1..Len(written)
      /\ p \in Datagrams
      /\ e = c + 2 + Len(p)
      /\ gone + c = off[h]
      /\ off[h] + 2 + Len(p) = off[h + 1]
      /\ \A k \in 1..Len(p) : all[off[h] + 2 + k] = p[k]
  BY <1>1, <1>2, <1>6, NextFrame
<1>8. p \in Seq(Bytes) /\ Len(p) \in Nat
  BY <1>7, PacketType
<1>12. Packet(c) = p
  <2>1. Len(Packet(c)) = Len(p)
    <3> HIDE DEF e, p
    <3> QED
      BY <1>3, <1>5, <1>8, <1>7
  <2>2. ASSUME NEW k \in 1..Len(p) PROVE Packet(c)[k] = p[k]
    <3>1. k \in 1..(e - (c + 2)) /\ c + 2 + k \in 1..nb
      <4> HIDE DEF e, p
      <4> QED
        BY <1>3, <1>5, <1>8, <1>7
    <3>2. Packet(c)[k] = all[gone + (c + 2 + k)]
      BY <1>3, <1>5, <3>1
    <3>3. gone + (c + 2 + k) = off[h] + 2 + k
      BY <1>5, <1>7
    <3> QED
      BY <1>7, <3>2, <3>3
  <2> QED
    BY <1>3, <1>8, <2>1, <2>2, SeqEqual
<1>13. Reached(off, gone)'
  <2>1. /\ handed' = Append(handed, p) /\ bytes_consumed' = e
        /\ handling' = handling /\ written' = written
    BY <1>12 DEF HandleFrame
  <2>2. /\ Len(handed') = h + 1 /\ handed'[h + 1] = p
        /\ \A i \in 1..h : handed'[i] = handed[i]
    BY <2>1 DEF StreamTypeOK
  <2>3. Len(handed') <= Len(written')
    BY <1>7, <2>1, <2>2
  <2>4. \A i \in 1..Len(handed') : handed'[i] = written'[i]
    <3> TAKE i \in 1..Len(handed')
    <3>1. i \in 1..h \/ i = h + 1
      BY <1>4, <2>2
    <3> QED
      BY <1>4, <2>1, <2>2, <3>1
  <2>5. gone + e = off[h + 1]
    <3> HIDE DEF e, p
    <3> QED
      BY <1>4, <1>5, <1>7, <1>8
  <2>6. gone + (IF handling' THEN bytes_consumed' ELSE 0) = off[Len(handed')]
    BY <1>1, <2>1, <2>2, <2>5
  <2> QED
    BY <2>3, <2>4, <2>6 DEF Reached
<1>14. Layout(all, off)' /\ Positions(all, gone, pending)' /\ Pending(pending)'
  BY <1>2 DEF Intact, Layout, FrameAt, Positions, Pending, HandleFrame
<1>15. Intact(all, off, gone, pending)'
  BY <1>2, <1>13, <1>14 DEF Intact
<1> QED
  BY <1>15, Zenon DEF StreamInv

\* compact moves what is left to the front.
LEMMA CompactIntact ==
    ASSUME StreamTypeOK, StreamInv, Compact, ~torn'
    PROVE  StreamInv'
<1> DEFINE c == bytes_consumed
           nb == Len(buffer)
           ns == Len(stream)
<1>1. /\ ~torn /\ handling /\ ~handling' /\ UNCHANGED <<writing, stream, written, handed>>
  BY DEF Compact, StreamTypeOK
<1>2. PICK all, off, gone, pending : Intact(all, off, gone, pending)
  BY <1>1 DEF StreamInv
<1>3. /\ Len(buffer') = nb - c /\ c <= nb
      /\ \A j \in 1..(nb - c) : buffer'[j] = buffer[c + j]
  BY Compacted
<1>4. PICK g : g = gone + c
  OBVIOUS
<1>5. Layout(all, off)' /\ Pending(pending)' /\ pending \in Seq(Bytes)
  BY <1>1, <1>2 DEF Intact, Layout, FrameAt, Pending
<1>6. /\ gone \in Nat /\ c \in Nat /\ nb \in Nat /\ ns \in Nat /\ Len(pending) \in Nat
      /\ gone + (nb + (ns + Len(pending))) = Len(all)
      /\ \A j \in 1..nb : buffer[j] = all[gone + j]
      /\ \A j \in 1..ns : stream[j] = all[gone + (nb + j)]
      /\ \A j \in 1..Len(pending) : pending[j] = all[gone + (nb + (ns + j))]
  <2>1. Positions(all, gone, pending) /\ pending \in Seq(Bytes)
    BY <1>2 DEF Intact
  <2>2. c \in Nat /\ nb \in Nat /\ ns \in Nat /\ Len(pending) \in Nat
    BY <2>1 DEF StreamTypeOK
  <2> QED
    BY <2>1, <2>2 DEF Positions
<1>7. Reached(off, g)'
  <2>1. /\ Len(handed) <= Len(written)
        /\ \A i \in 1..Len(handed) : handed[i] = written[i]
        /\ gone + c = off[Len(handed)]
    BY <1>1, <1>2 DEF Intact, Reached
  <2>2. g + 0 = off[Len(handed)]
    BY <1>4, <1>6, <2>1
  <2> QED
    BY <1>1, <2>1, <2>2 DEF Reached
<1>8. Positions(all, g, pending)'
  <2>1. /\ stream' = stream /\ Len(buffer') = nb - c
    BY <1>1, <1>3
  <2> HIDE DEF c, nb
  <2>2. g \in Nat /\ g + (Len(buffer') + (Len(stream') + Len(pending))) = Len(all)
    <3> DEFINE np == Len(pending)
    <3>1. np \in Nat
      BY <1>6
    <3>2. (gone + c) + ((nb - c) + (ns + np)) = gone + (nb + (ns + np))
      <4> HIDE DEF np, ns
      <4> QED
        BY <1>6, <3>1
    <3>3. g = gone + c /\ g \in Nat
      BY <1>4, <1>6
    <3>4. Len(stream') = ns
      BY <2>1
    <3> QED
      BY <1>6, <2>1, <3>2, <3>3, <3>4
  <2>3. \A j \in 1..Len(buffer') : buffer'[j] = all[g + j]
    <3> TAKE j \in 1..Len(buffer')
    <3>1. j \in 1..(nb - c) /\ c + j \in 1..nb /\ gone + (c + j) = g + j
      BY <1>3, <1>4, <1>6, <2>1
    <3> QED
      BY <1>3, <1>6, <3>1
  <2>4. \A j \in 1..Len(stream') : stream'[j] = all[g + (Len(buffer') + j)]
    <3> TAKE j \in 1..Len(stream')
    <3>1. g + ((nb - c) + j) = gone + (nb + j)
      BY <1>4, <1>6, <2>1
    <3> QED
      BY <1>6, <2>1, <3>1
  <2>5. \A j \in 1..Len(pending) :
           pending[j] = all[g + (Len(buffer') + (Len(stream') + j))]
    <3> TAKE j \in 1..Len(pending)
    <3>1. g + ((nb - c) + (ns + j)) = gone + (nb + (ns + j))
      BY <1>4, <1>6
    <3> QED
      BY <1>6, <2>1, <3>1
  <2> QED
    BY <2>2, <2>3, <2>4, <2>5 DEF Positions
<1>9. Intact(all, off, g, pending)'
  BY <1>5, <1>7, <1>8 DEF Intact
<1> QED
  BY <1>9, Zenon DEF StreamInv

\* What the invariant is about.
content == <<writing, stream, buffer, bytes_consumed, handling, written, handed, torn>>

\* A step that leaves it alone.
LEMMA SameIntact ==
    ASSUME StreamInv, ~torn', UNCHANGED content
    PROVE  StreamInv'
<1>1. ~torn
  BY DEF content
<1>2. PICK all, off, gone, pending : Intact(all, off, gone, pending)
  BY <1>1 DEF StreamInv
<1>3. Intact(all, off, gone, pending)'
  BY <1>2 DEF content, Intact, Layout, FrameAt, Positions, Pending, Reached
<1> QED
  BY <1>3, Zenon DEF StreamInv

\* Every step keeps the bytes in order.
LEMMA StreamStep ==
    ASSUME StreamTypeOK, StreamInv, [StreamNext]_streamVars
    PROVE  StreamInv'
<1> SUFFICES ASSUME ~torn' PROVE StreamInv'
  BY DEF StreamInv
<1>1. ASSUME NEW w \in Senders, NEW p \in Datagrams, WriteLength(w, p) PROVE StreamInv'
  BY <1>1, LengthIntact
<1>2. ASSUME NEW w \in Senders, WritePacket(w) PROVE StreamInv'
  BY <1>2, PacketIntact
<1>3. CASE Read
  BY <1>3, ReadIntact
<1>4. CASE ReadNothing
  BY <1>4, SameIntact DEF ReadNothing, content
<1>5. CASE HandleFrame
  BY <1>5, FrameIntact
<1>6. CASE Compact
  BY <1>6, CompactIntact
<1>7. CASE UNCHANGED streamVars
  BY <1>7, SameIntact DEF streamVars, reader, content
<1> QED
  BY <1>1, <1>2, <1>3, <1>4, <1>5, <1>6, <1>7 DEF StreamNext

\* FramesAsWritten: what peek_packet returns is what was written, in its order,
\* however the bytes are split into reads, whatever compact leaves in the buffer
\* and wherever the handler stops, while no write is cut short and no thread
\* comes between the two writes of another.
THEOREM FramesIntact == StreamSpec => []FramesAsWritten
<1>1. StreamInit => StreamTypeOK /\ StreamInv
  BY StreamTypeInit, StreamInvInit
<1>2. StreamTypeOK /\ StreamInv /\ [StreamNext]_streamVars => (StreamTypeOK /\ StreamInv)'
  BY StreamTypeStep, StreamStep
<1>3. StreamTypeOK /\ StreamInv => FramesAsWritten
  <2> SUFFICES ASSUME StreamTypeOK, StreamInv, ~torn PROVE IsPrefix(handed, written)
    BY DEF FramesAsWritten
  <2>1. PICK all, off, gone, pending : Intact(all, off, gone, pending)
    BY DEF StreamInv
  <2>2. /\ Len(handed) <= Len(written)
        /\ \A i \in 1..Len(handed) : handed[i] = written[i]
    BY <2>1 DEF Intact, Reached
  <2>3. /\ handed \in Seq(Seq(Bytes)) /\ written \in Seq(Seq(Bytes))
        /\ Len(handed) \in Nat /\ Len(written) \in Nat
    BY PacketType DEF StreamTypeOK
  <2>4. SubSeq(handed, 1, Len(handed)) = SubSeq(written, 1, Len(handed))
    BY <2>2, <2>3
  <2> QED
    BY <2>2, <2>4 DEF IsPrefix
<1> QED
  BY <1>1, <1>2, <1>3, PTL DEF StreamSpec

-----------------------------------------------------------------------------
(* A read that returns 0.                                                  *)

\* Between two calls of the handler the buffer has room: a call that begins with
\* a full buffer finds a whole frame in it, and takes it.
Room ==
    ~torn => /\ ~handling => Len(buffer) < BUFFER
             /\ handling /\ processed > 0 => bytes_consumed > 0
             /\ ~closed

\* A full buffer in order begins with a whole frame.
LEMMA FullIsComplete ==
    ASSUME StreamTypeOK, StreamInv, ~torn, handling, bytes_consumed = 0, Len(buffer) = BUFFER
    PROVE  Complete(0)
<1>1. PICK all, off, gone, pending : Intact(all, off, gone, pending)
  BY DEF StreamInv
<1>2. Len(buffer) >= bytes_consumed + HEADER_LEN
  BY StreamAssumption DEF HEADER_LEN
<1> DEFINE p == written[Len(handed) + 1]
<1>3. p \in Datagrams /\ PacketEnd(0) = 0 + 2 + Len(p)
  BY <1>1, <1>2, NextFrame
<1>4. HEADER_LEN + Len(p) <= BUFFER /\ Len(p) \in Nat /\ HEADER_LEN = 2
  BY <1>3, PacketType DEF HEADER_LEN
<1> HIDE DEF p
<1>5. PacketEnd(0) <= Len(buffer)
  BY <1>3, <1>4
<1>6. 0 + HEADER_LEN <= Len(buffer)
  BY <1>2
<1>7. PacketEnd(0) \in Nat /\ Len(buffer) \in Nat
  BY <1>3, <1>4 DEF StreamTypeOK
<1> QED
  BY <1>4, <1>5, <1>6, <1>7 DEF Complete

\* The stream handler takes a connection for closed, although the other end has
\* not closed it, only when the bytes are out of order: while they are in order,
\* read is never called with nothing left of the buffer.
THEOREM NoFalseEnd == StreamSpec => [](closed => torn)
<1>1. StreamInit => StreamTypeOK /\ StreamInv /\ Room
  BY StreamTypeInit, StreamInvInit, StreamAssumption DEF StreamInit, Room, HEADER_LEN
<1>2. StreamTypeOK /\ StreamInv /\ Room /\ [StreamNext]_streamVars => (StreamTypeOK /\ StreamInv /\ Room)'
  <2> SUFFICES ASSUME StreamTypeOK, StreamInv, Room, [StreamNext]_streamVars, ~torn' PROVE Room'
    BY StreamTypeStep, StreamStep DEF Room
  <2>1. ASSUME NEW w \in Senders, NEW p \in Datagrams, WriteLength(w, p) PROVE Room'
    BY <2>1 DEF WriteLength, WriteBytes, reader, Room
  <2>2. ASSUME NEW w \in Senders, WritePacket(w) PROVE Room'
    BY <2>2 DEF WritePacket, WriteBytes, reader, Room
  <2>3. CASE Read
    BY <2>3 DEF Read, Room
  <2>4. CASE ReadNothing
    BY <2>4, StreamAssumption DEF ReadNothing, Room
  <2>5. CASE HandleFrame
    <3>1. bytes_consumed' > 0 /\ handling' /\ closed' = closed /\ ~torn
      <4>1. handling /\ Complete(bytes_consumed)
        BY <2>5 DEF HandleFrame
      <4>2. /\ PacketEnd(bytes_consumed) \in bytes_consumed..Len(buffer)
            /\ bytes_consumed + HEADER_LEN <= PacketEnd(bytes_consumed)
        BY <4>1, FrameType
      <4> QED
        BY <2>5, <4>2 DEF HandleFrame, StreamTypeOK, HEADER_LEN
    <3> QED
      BY <3>1 DEF Room
  <2>6. CASE Compact
    <3>1. /\ Len(buffer') = Len(buffer) - bytes_consumed
          /\ bytes_consumed <= Len(buffer)
      BY <2>6, Compacted
    <3>2. bytes_consumed > 0 \/ Len(buffer) < BUFFER
      <4> SUFFICES ASSUME bytes_consumed = 0, Len(buffer) = BUFFER PROVE FALSE
        BY StreamAssumption DEF StreamTypeOK
      <4>1. ~torn /\ handling
        BY <2>6 DEF Compact
      <4>2. Complete(0) /\ ~(processed > 0)
        BY <4>1, FullIsComplete DEF Room
      <4> QED
        BY <2>6, <4>2, StreamAssumption DEF Compact, StreamTypeOK
    <3>3. Len(buffer') < BUFFER
      BY <3>1, <3>2, StreamAssumption DEF StreamTypeOK
    <3> QED
      BY <2>6, <3>3 DEF Compact, Room
  <2>7. CASE UNCHANGED streamVars
    BY <2>7 DEF streamVars, reader, Room
  <2> QED
    BY <2>1, <2>2, <2>3, <2>4, <2>5, <2>6, <2>7 DEF StreamNext
<1>3. Room => (closed => torn)
  BY DEF Room
<1> QED
  BY <1>1, <1>2, <1>3, PTL DEF StreamSpec
==============================================================================
