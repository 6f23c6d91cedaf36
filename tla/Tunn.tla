-------------------------------- MODULE Tunn ---------------------------------
(***************************************************************************)
(* Two tunnel endpoints (module TunnState) over a datagram network that    *)
(* loses, reorders and repeats messages: the handshake in both directions  *)
(* at once, the handlers of the tun device and of the sockets, and the     *)
(* outcomes of update_timers.                                              *)
(*                                                                         *)
(* A session accepts each data message once (module Session), so only      *)
(* handshake messages are repeated by the network here.                    *)
(*                                                                         *)
(* Time is counted in calls of update_timers.  Of the deadlines only the   *)
(* age of a session is kept, because set_current_session compares ages;    *)
(* which other deadline has passed is left open (one action per outcome).  *)
(***************************************************************************)
EXTENDS TunnState

CONSTANTS
    Talkers,            \* the endpoints with packets to send
    MaxInFlight         \* bound: messages under way to one endpoint

ASSUME NetworkAssumption == MaxInFlight \in Nat

VARIABLES
    tunn,         \* the Tunn of each endpoint
    net,          \* net[e]: messages under way to e, oldest first
    submitted,    \* history: packets e was given to send
    sealed,       \* history: how often e sealed each packet into a message
    gave_up,      \* history: packets e dropped for want of a session
    delivered,    \* history: how often e wrote each packet of the peer to tun
    used,         \* history: ephemerals drawn so far
    derived       \* history: session keys e derived

histories == <<submitted, sealed, gave_up, delivered, used, derived>>
vars == <<tunn, net, histories>>

-----------------------------------------------------------------------------
(* The network, and what a step sends.                                     *)

\* A datagram sent when the buffers on its way are full is dropped.
Post(queue, out) ==
    LET all == queue \o out IN
    IF Len(all) <= MaxInFlight THEN all ELSE SubSeq(all, 1, MaxInFlight)

\* Take message i, or leave a copy of it under way.
Taken(queue, i, copied) == IF copied THEN queue ELSE RemoveAt(queue, i)

\* Mutant: a timestamp equal to the last one is accepted.
OutdatedBefore(queue, i) ==
    [j \in DOMAIN queue |->
        IF j < i /\ queue[j].type = "init"
        THEN [queue[j] EXCEPT !.stale = TRUE] ELSE queue[j]]

\* Accepting initiation i makes it, and those sent before it, stale.
Outdated(queue, i) ==
    [j \in DOMAIN queue |->
        IF j <= i /\ queue[j].type = "init"
        THEN [queue[j] EXCEPT !.stale = TRUE] ELSE queue[j]]

Fresh == Ephemerals \ used

\* Endpoint e goes from tunn[e] to r.tunn and sends r.out; the messages under
\* way to e itself become mine.
Becomes(e, r, mine) ==
    /\ DrawnIn(r.out) \subseteq Ephemerals
    /\ tunn' = [tunn EXCEPT ![e] = r.tunn]
    /\ net' = [net EXCEPT ![e] = mine, ![Peer(e)] = Post(@, r.out)]
    /\ sealed' = [sealed EXCEPT
                    ![e] = [p \in Packets |-> @[p] + TimesSealed(r.out, p)]]
    /\ used' = used \cup DrawnIn(r.out)

\* e has derived a session key.
Derives(e, key) == derived' = [derived EXCEPT ![e] = @ \cup {key}]

Init ==
    /\ tunn = [e \in Endpoints |-> NewTunn]
    /\ net = [e \in Endpoints |-> <<>>]
    /\ submitted = [e \in Endpoints |-> {}]
    /\ sealed = [e \in Endpoints |-> [p \in Packets |-> 0]]
    /\ gave_up = [e \in Endpoints |-> {}]
    /\ delivered = [e \in Endpoints |-> [p \in Packets |-> 0]]
    /\ used = {}
    /\ derived = [e \in Endpoints |-> {}]

-----------------------------------------------------------------------------
(* The operations.                                                         *)

\* The tun handler reads packet p and encapsulates it.
Encapsulate(e, p) ==
    /\ e \in Talkers
    /\ p \notin submitted[e]
    /\ submitted' = [submitted EXCEPT ![e] = @ \cup {p}]
    /\ \E r \in {Encapsulated(tunn[e], p, k) : k \in Drawn(Fresh)} :
        Becomes(e, r, net[e])
    /\ gave_up' = IF /\ CurrentSession(tunn[e]) = NoSession
                     /\ Len(tunn[e].packet_queue) >= MAX_QUEUE_DEPTH
                  THEN [gave_up EXCEPT ![e] = @ \cup {p}] ELSE gave_up
    /\ UNCHANGED <<delivered, derived>>

\* The socket handlers: an initiation arrives.
ReceiveInit(e, i, copied) ==
    LET m == net[e][i] IN
    /\ m.type = "init"
    /\ ~m.stale
    /\ \E k1 \in Drawn(Fresh) \ {0} :
        /\ \E r \in {ThenFlush(Responded(tunn[e], m, k1), k2) : k2 \in Drawn(Fresh \ {k1})} :
            Becomes(e, r, Taken(Outdated(net[e], i), i, copied))
        /\ Derives(e, <<m.eph, k1>>)
    /\ UNCHANGED <<submitted, gave_up, delivered>>

\* A response arrives that fits a handshake under way.
ReceiveResponse(e, i, copied) ==
    LET m == net[e][i] IN
    /\ m.type = "response"
    /\ Opens(tunn[e], m)
    /\ \E r \in {ThenFlush(Established(tunn[e], m), k) : k \in Drawn(Fresh)} :
        Becomes(e, r, Taken(net[e], i, copied))
    /\ Derives(e, <<m.answers, m.eph>>)
    /\ UNCHANGED <<submitted, gave_up, delivered>>

\* A data message arrives.  Its session accepts it once, so no copy is left.
ReceiveData(e, i) ==
    LET m == net[e][i] IN
    /\ m.type = "data"
    /\ Reads(tunn[e], m)
    /\ Becomes(e, Result(SetCurrent(tunn[e], m.receiver), <<>>), Taken(net[e], i, FALSE))
    /\ delivered' = [delivered EXCEPT
            ![e] = [p \in Packets |-> @[p] + (IF p = m.payload THEN 1 ELSE 0)]]
    /\ UNCHANGED <<submitted, gave_up, derived>>

\* What decapsulate answers with an error changes nothing.
Refused(t, m) ==
    \/ m.type = "init" /\ m.stale
    \/ m.type = "response" /\ ~Opens(t, m)
    \/ m.type = "data" /\ ~Reads(t, m)

\* A message is lost, or arrives and is refused.
Lose(e, i) ==
    /\ net' = [net EXCEPT ![e] = RemoveAt(@, i)]
    /\ UNCHANGED <<tunn, histories>>

-----------------------------------------------------------------------------
(* update_timers: every call ages the sessions; then one of these.          *)

Ages(e, r) ==
    /\ Becomes(e, r, net[e])
    /\ UNCHANGED <<submitted, delivered, derived>>

\* No deadline has passed, or the connection had expired before.
Idle(e) ==
    /\ Ages(e, Result(Aged(tunn[e]), <<>>))
    /\ UNCHANGED gave_up

\* REKEY_ATTEMPT_TIME into a handshake, or three times REJECT_AFTER_TIME after
\* the last one, when no session is left.
ConnectionExpired(e) ==
    LET t == Aged(tunn[e]) IN
    /\ t.state # Expired
    /\ InProgress(t) \/ \A i \in Slots : t.sessions[i] = NoSession
    /\ Ages(e, Result(GivenUp(t), <<>>))
    /\ gave_up' = [gave_up EXCEPT ![e] = @ \cup (ToSet(t.packet_queue) \ {KeepAlive})]

\* REKEY_TIMEOUT after an initiation: another one.
RekeyTimeout(e) ==
    LET t == Aged(tunn[e]) IN
    /\ InProgress(t)
    /\ \E r \in {StartHandshake(t, k) : k \in Drawn(Fresh)} : Ages(e, r)
    /\ UNCHANGED gave_up

\* The initiator's session is old and it has sent or received data under it, or
\* data sent has found no answer.
Rekey(e) ==
    LET t == Aged(tunn[e]) IN
    /\ t.state = None
    /\ \E p \in Packets :
        sealed[e][p] > 0 \/ (t.is_initiator /\ delivered[e][p] > 0)
    /\ \E r \in {StartHandshake(t, k) : k \in Drawn(Fresh)} : Ages(e, r)
    /\ UNCHANGED gave_up

\* Data received has found no answer, or a persistent keepalive is due.
SendKeepalive(e) ==
    LET t == Aged(tunn[e]) IN
    /\ t.state = None
    /\ \E r \in {Encapsulated(t, KeepAlive, k) : k \in Drawn(Fresh)} : Ages(e, r)
    /\ UNCHANGED gave_up

UpdateTimers(e) ==
    Idle(e) \/ ConnectionExpired(e) \/ RekeyTimeout(e) \/ Rekey(e) \/ SendKeepalive(e)

Receive(e, i, copied) ==
    \/ ReceiveInit(e, i, copied)
    \/ ReceiveResponse(e, i, copied)
    \/ ReceiveData(e, i)

Next ==
    \E e \in Endpoints :
        \/ \E p \in Packets : Encapsulate(e, p)
        \/ \E i \in DOMAIN net[e], copied \in BOOLEAN : Receive(e, i, copied)
        \/ \E i \in DOMAIN net[e] : Lose(e, i)
        \/ UpdateTimers(e)

Spec == Init /\ [][Next]_vars

-----------------------------------------------------------------------------
(* Properties.                                                             *)

TypeOK ==
    /\ tunn \in [Endpoints -> TunnType]
    /\ net \in [Endpoints -> Seq(Message)]
    /\ \A e \in Endpoints : Len(net[e]) <= MaxInFlight
    /\ submitted \in [Endpoints -> SUBSET Packets]
    /\ sealed \in [Endpoints -> [Packets -> Nat]]
    /\ gave_up \in [Endpoints -> SUBSET Packets]
    /\ delivered \in [Endpoints -> [Packets -> Nat]]
    /\ used \subseteq Ephemerals
    /\ derived \in [Endpoints -> SUBSET Key]

\* Two sessions with one key, at the two ends or in one ring, are the two ends
\* of one handshake: each addresses the other's index and they have different
\* roles.
SessionsPair ==
    \A e, f \in Endpoints : \A i, j \in Slots :
        LET s == tunn[e].sessions[i]
            u == tunn[f].sessions[j]
        IN  s # NoSession /\ u # NoSession /\ s.key = u.key /\ <<e, i>> # <<f, j>> =>
            /\ e # f
            /\ s.local = u.peer /\ s.peer = u.local
            /\ s.initiator # u.initiator

\* An initiation leads to at most one key at each end, however often it or its
\* response arrives.
OneKeyPerInitiation ==
    \A e \in Endpoints : \A j, k \in derived[e] : j[1] = k[1] => j = k

\* Crossing, repeated and late handshakes never mix: what has one key belongs to
\* one handshake, and a handshake has one key.
KeyPairing == SessionsPair /\ OneKeyPerInitiation

\* An end sends under a key that the other end has not derived in one case only:
\* an answer of its own, not confirmed yet, has taken the slot of the current
\* session (handle_handshake_init stores by index % N_SESSIONS, encapsulate sends
\* under whatever is in the slot).  set_current_session itself chooses no session
\* before the other end has its key, and an initiator's key is shared anyway.
CurrentIsShared ==
    \A e \in Endpoints :
        LET s == CurrentSession(tunn[e]) IN
        s # NoSession => \/ s.key \in derived[Peer(e)]
                         \/ s.local # tunn[e].current /\ ~s.initiator

\* An expired tunnel keeps nothing: no session, no queued packet, and no
\* handshake that a late response could still complete.
ExpiredIsClean ==
    \A e \in Endpoints :
        tunn[e].state = Expired =>
            /\ tunn[e].previous = Expired
            /\ tunn[e].packet_queue = <<>>
            /\ \A i \in Slots : tunn[e].sessions[i] = NoSession

\* Packets wait only while a handshake is under way whose timeout will try
\* again or drop them: no order of messages leaves them behind.
QueueHasHandshake ==
    \A e \in Endpoints :
        tunn[e].packet_queue # <<>> => InProgress(tunn[e])

TimesQueued(e, p) ==
    Cardinality({i \in DOMAIN tunn[e].packet_queue : tunn[e].packet_queue[i] = p})

TimesInFlight(e, p) == TimesSealed(net[Peer(e)], p)

\* A packet given to a tunnel is in one place: waiting, sent once or dropped.
\* The rotation of the queue neither loses nor repeats it, and the peer gets it
\* at most as often as it was sent.
PacketsConserved ==
    \A e \in Endpoints : \A p \in Packets :
        /\ TimesQueued(e, p) + sealed[e][p] + (IF p \in gave_up[e] THEN 1 ELSE 0)
             = (IF p \in submitted[e] THEN 1 ELSE 0)
        /\ delivered[Peer(e)][p] + TimesInFlight(e, p) <= sealed[e][p]

\* No response makes a session with a key this end had before: the packet
\* numbers of a session start at 0.
KeysDerivedOnce ==
    [][\A e \in Endpoints : \A i \in DOMAIN net[e] : \A copied \in BOOLEAN :
        ReceiveResponse(e, i, copied) =>
            <<net[e][i].answers, net[e][i].eph>> \notin derived[e]]_vars

-----------------------------------------------------------------------------
(* What waiting packets may hope for when the network neither reorders nor  *)
(* repeats messages, answers before REKEY_TIMEOUT, and does not fail for     *)
(* REKEY_ATTEMPT_TIME.                                                     *)

HandshakeUnderWay ==
    \E e \in Endpoints : \E m \in ToSet(net[e]) : m.type # "data"

Arrive(e) ==
    /\ net[e] # <<>>
    /\ \/ Receive(e, 1, FALSE)
       \/ Refused(tunn[e], Head(net[e])) /\ Lose(e, 1)

LateRekeyTimeout(e) == ~HandshakeUnderWay /\ RekeyTimeout(e)

LossyNext ==
    \E e \in Endpoints :
        \/ \E p \in Packets : Encapsulate(e, p)
        \/ Arrive(e)
        \/ LateRekeyTimeout(e)
        \/ net[e] # <<>> /\ Lose(e, 1)
        \/ Idle(e)
        \/ ~HandshakeUnderWay /\ Rekey(e)
        \/ CurrentSession(tunn[e]) # NoSession /\ SendKeepalive(e)

\* Datagrams arrive, and the timer handler runs every 250 ms.
Fairness == \A e \in Endpoints : WF_vars(Arrive(e)) /\ WF_vars(LateRekeyTimeout(e))

LossySpec == Init /\ [][LossyNext]_vars /\ Fairness

\* A packet that waits for a session does not wait for ever: it goes out, or the
\* network loses so many messages that the bound on ephemerals is reached.
QueueDrains ==
    \A e \in Endpoints : \A p \in Packets :
        (TimesQueued(e, p) > 0) ~> (TimesQueued(e, p) = 0 \/ Fresh = {})
==============================================================================
