------------------------------- MODULE Timers --------------------------------
(***************************************************************************)
(* The deadlines of one tunnel (noise/timers.rs), which module Tunn leaves *)
(* open: the time stamps, the two want flags and update_timers, driven by  *)
(* the tun handler, the socket handlers and the timer of the device.       *)
(*                                                                         *)
(* clock is what Instant::now() returns.  The stamps are not taken from it *)
(* but from TimeCurrent, which only update_timers (and clear) advances, so *)
(* whatever happens between two calls has the stamp of the first.          *)
(***************************************************************************)
EXTENDS Integers, FiniteSets

CONSTANTS
    REKEY_AFTER_TIME, REJECT_AFTER_TIME, REKEY_ATTEMPT_TIME,
    REKEY_TIMEOUT, KEEPALIVE_TIMEOUT, COOKIE_EXPIRATION_TIME,
    PERSISTENT_KEEPALIVE,   \* its interval; 0 is none
    N_SESSIONS,             \* slots of the session ring (8)
    HasEndpoint,            \* is the peer's address known from the start?
    MaxLate,                \* bound: time between two events of the device's timer
    MaxClock,               \* bound: time
    MaxEvents               \* bound: messages and packets

ASSUME TimersAssumption ==
    /\ {REKEY_AFTER_TIME, REJECT_AFTER_TIME, REKEY_ATTEMPT_TIME, REKEY_TIMEOUT,
        KEEPALIVE_TIMEOUT, COOKIE_EXPIRATION_TIME, N_SESSIONS, MaxLate} \subseteq Nat \ {0}
    /\ {PERSISTENT_KEEPALIVE, MaxClock, MaxEvents} \subseteq Nat
    /\ REKEY_TIMEOUT < REKEY_ATTEMPT_TIME /\ REKEY_TIMEOUT <= KEEPALIVE_TIMEOUT
    /\ REKEY_AFTER_TIME <= REJECT_AFTER_TIME - KEEPALIVE_TIMEOUT - REKEY_TIMEOUT
    /\ HasEndpoint \in BOOLEAN

TimerNames ==
    {"TimeCurrent", "TimeSessionEstablished", "TimeLastHandshakeStarted",
     "TimeLastPacketReceived", "TimeLastPacketSent", "TimeLastDataPacketReceived",
     "TimeLastDataPacketSent", "TimeCookieReceived", "TimePersistentKeepalive"}

Slots == 0..(N_SESSIONS - 1)

Time == 0..MaxClock

\* What is sent, received or waits: a packet, or the empty packet of a keepalive.
Kinds == {"data", "empty"}

None == [tag |-> "None", slot |-> 0, time_sent |-> 0]
Expired == [tag |-> "Expired", slot |-> 0, time_sent |-> 0]
InitSent(slot, now) == [tag |-> "InitSent", slot |-> slot, time_sent |-> now]

VARIABLES
    clock,      \* the time
    called,     \* when the device's timer last fired
    endpoint,   \* does the peer have an address?
    tunn,       \* the Tunn: timers, session_timers, the flags of Timers, the two
                \* handshakes of an initiator, which slots hold sessions, and
                \* whether a handshake message was ever sent (last_mac1)
    past,       \* history.  made: when the session of a slot was established;
                \* trying: since when handshakes are tried; sent: when anything
                \* was last sent; heard: when data was last received; used: when
                \* data was first sent noticeably after the last establishment;
                \* idle: was there no endpoint at first?
    events      \* messages and packets so far

vars == <<clock, called, endpoint, tunn, past, events>>

-----------------------------------------------------------------------------
(* The tunnel as a function of its state t, at time now.                    *)

InProgress(t) == t.state.tag = "InitSent"

HasSession(t) == t.current \in t.sessions

\* Mutant: a packet received does not ask for an answer.
TickSilent(t, name) == [t EXCEPT !.timers[name] = t.timers["TimeCurrent"]]

\* Tunn::timer_tick.
Tick(t, name) ==
    [t EXCEPT
        !.timers[name] = t.timers["TimeCurrent"],
        !.want_keepalive = IF name = "TimeLastPacketReceived" THEN TRUE
                           ELSE IF name = "TimeLastPacketSent" THEN FALSE ELSE @,
        !.want_handshake = IF name = "TimeLastPacketReceived" THEN FALSE
                           ELSE IF name = "TimeLastPacketSent" THEN TRUE ELSE @]

\* Timers::clear: every stamp, TimeCurrent with them, becomes the present.
Clear(t, now) ==
    [t EXCEPT !.timers = [n \in TimerNames |-> now],
              !.want_handshake = FALSE, !.want_keepalive = FALSE]

\* set_expired and clear_all.
GivenUp(t, now) ==
    Clear([t EXCEPT !.state = Expired, !.previous = Expired,
                    !.sessions = {}, !.packet_queue = {}], now)

\* timer_tick_session_established, and the session in its slot.
SessionEstablished(t, slot, initiator) ==
    LET u == Tick(t, "TimeSessionEstablished") IN
    [u EXCEPT !.sessions = @ \cup {slot},
              !.session_timers[slot] = u.timers["TimeCurrent"],
              !.is_initiator = initiator]

\* Tunn::set_current_session.
SetCurrent(t, slot) ==
    IF \/ ~HasSession(t)
       \/ t.session_timers[slot] >= t.session_timers[t.current]
    THEN [t EXCEPT !.current = slot] ELSE t

\* Mutant: a retry starts the time allowed for the attempt anew.
StartHandshakeAnew(t, now) ==
    LET c == IF t.state = Expired THEN Clear(t, now) ELSE t
        i == (t.next_index + 1) % N_SESSIONS
        h == [c EXCEPT !.next_index = i, !.previous = t.state,
                       !.state = InitSent(i, now), !.last_mac1 = TRUE]
    IN  Tick(Tick(h, "TimeLastHandshakeStarted"), "TimeLastPacketSent")

\* Tunn::format_handshake_initiation with force_resend.
StartHandshake(t, now) ==
    LET c == IF t.state = Expired THEN Clear(t, now) ELSE t
        i == (t.next_index + 1) % N_SESSIONS
        h == [c EXCEPT !.next_index = i, !.previous = t.state,
                       !.state = InitSent(i, now), !.last_mac1 = TRUE]
    IN  Tick(IF InProgress(t) THEN h ELSE Tick(h, "TimeLastHandshakeStarted"),
             "TimeLastPacketSent")

\* Tunn::encapsulate when there is a session.
Sealed(t, kind) ==
    LET u == Tick(t, "TimeLastPacketSent") IN
    IF kind = "data" THEN Tick(u, "TimeLastDataPacketSent") ELSE u

StartIfIdle(t, now) == IF InProgress(t) THEN t ELSE StartHandshake(t, now)

Encapsulated(t, kind, now) ==
    IF HasSession(t) THEN Sealed(t, kind)
    ELSE StartIfIdle([t EXCEPT !.packet_queue = @ \cup {kind}], now)

SealsQueuedData(t) == HasSession(t) /\ "data" \in t.packet_queue

\* The loop of the socket handlers over send_queued_packet.
Flushed(t, now) ==
    IF t.packet_queue = {} THEN t
    ELSE IF HasSession(t)
    THEN [Sealed(t, IF SealsQueuedData(t) THEN "data" ELSE "empty")
            EXCEPT !.packet_queue = {}]
    ELSE StartIfIdle(t, now)

\* handle_handshake_init, before the loop.
Responded(t) ==
    LET i == (t.next_index + 1) % N_SESSIONS
        u == [t EXCEPT !.next_index = i, !.previous = t.state, !.state = None,
                       !.last_mac1 = TRUE]
    IN  SessionEstablished(Tick(Tick(u, "TimeLastPacketReceived"), "TimeLastPacketSent"),
                           i, FALSE)

\* handle_handshake_response, before the loop: h is the handshake answered.  The
\* keepalive it sends has no tick.
Answered(t, h) ==
    LET u == IF h = t.state THEN [t EXCEPT !.state = None]
             ELSE [t EXCEPT !.previous = None]
    IN  SetCurrent(SessionEstablished(Tick(u, "TimeLastPacketReceived"), h.slot, TRUE), h.slot)

-----------------------------------------------------------------------------
(* update_timers.                                                          *)

\* Mutant: a session ends when it is REKEY_AFTER_TIME old.
SessionsAgedEarly(t, now) ==
    LET old == {s \in Slots : now - t.session_timers[s] > REKEY_AFTER_TIME} IN
    [t EXCEPT !.timers["TimeCurrent"] = now,
              !.sessions = @ \ old,
              !.session_timers = [s \in Slots |-> IF s \in old THEN now ELSE @[s]]]

\* Mutant: only the session in use ends.
SessionsAgedOne(t, now) ==
    LET old == {s \in {t.current} : now - t.session_timers[s] > REJECT_AFTER_TIME} IN
    [t EXCEPT !.timers["TimeCurrent"] = now,
              !.sessions = @ \ old,
              !.session_timers = [s \in Slots |-> IF s \in old THEN now ELSE @[s]]]

\* The start of update_timers: TimeCurrent advances, update_session_timers.
SessionsAged(t, now) ==
    LET old == {s \in Slots : now - t.session_timers[s] > REJECT_AFTER_TIME} IN
    [t EXCEPT !.timers["TimeCurrent"] = now,
              !.sessions = @ \ old,
              !.session_timers = [s \in Slots |-> IF s \in old THEN now ELSE @[s]]]

CookieAged(t, now) ==
    IF now - t.timers["TimeCookieReceived"] >= COOKIE_EXPIRATION_TIME
    THEN [t EXCEPT !.cookie = FALSE] ELSE t

NoNewKeys(t, now) ==
    now - t.timers["TimeSessionEstablished"] >= REJECT_AFTER_TIME * 3

AttemptFailed(t, now) ==
    InProgress(t) /\ now - t.timers["TimeLastHandshakeStarted"] >= REKEY_ATTEMPT_TIME

\* Mutant: the first initiation counts.
RetryDueOnce(t, now) ==
    InProgress(t) /\ t.timers["TimeLastHandshakeStarted"] + REKEY_TIMEOUT = now

RetryDue(t, now) == InProgress(t) /\ now - t.state.time_sent >= REKEY_TIMEOUT

\* Mutant: the time since the packet counts, not that since the handshake.
RenewOnSendLate(t, now) ==
    /\ t.is_initiator
    /\ t.timers["TimeSessionEstablished"] < t.timers["TimeLastDataPacketSent"]
    /\ now - t.timers["TimeLastDataPacketSent"] >= REKEY_AFTER_TIME

RenewOnSend(t, now) ==
    /\ t.is_initiator
    /\ t.timers["TimeSessionEstablished"] < t.timers["TimeLastDataPacketSent"]
    /\ now - t.timers["TimeSessionEstablished"] >= REKEY_AFTER_TIME

RenewOnReceive(t, now) ==
    /\ t.is_initiator
    /\ t.timers["TimeSessionEstablished"] < t.timers["TimeLastDataPacketReceived"]
    /\ now - t.timers["TimeSessionEstablished"]
         >= REJECT_AFTER_TIME - KEEPALIVE_TIMEOUT - REKEY_TIMEOUT

Unanswered(t, now) ==
    /\ t.timers["TimeLastDataPacketSent"] > t.timers["TimeLastPacketReceived"]
    /\ now - t.timers["TimeLastPacketReceived"] >= KEEPALIVE_TIMEOUT + REKEY_TIMEOUT
    /\ t.want_handshake

KeepaliveDue(t, now) ==
    /\ t.timers["TimeLastDataPacketReceived"] > t.timers["TimeLastPacketSent"]
    /\ now - t.timers["TimeLastPacketSent"] >= KEEPALIVE_TIMEOUT
    /\ t.want_keepalive

\* Mutant: without a session there is nothing to keep alive.
PersistentDueInSession(t, now) ==
    /\ PERSISTENT_KEEPALIVE > 0 /\ HasSession(t)
    /\ now - t.timers["TimePersistentKeepalive"] >= PERSISTENT_KEEPALIVE

PersistentDue(t, now) ==
    /\ PERSISTENT_KEEPALIVE > 0
    /\ now - t.timers["TimePersistentKeepalive"] >= PERSISTENT_KEEPALIVE

\* The keepalive branch.  What it sends clears want_keepalive.
KeptAlive(t, now) ==
    Encapsulated(IF PersistentDue(t, now) THEN Tick(t, "TimePersistentKeepalive") ELSE t,
                 "empty", now)

-----------------------------------------------------------------------------
(* The steps.                                                              *)

NewTunn ==
    [timers |-> [n \in TimerNames |-> 0], session_timers |-> [s \in Slots |-> 0],
     want_keepalive |-> FALSE, want_handshake |-> FALSE, is_initiator |-> FALSE,
     state |-> None, previous |-> None, next_index |-> 0, sessions |-> {},
     current |-> 0, packet_queue |-> {}, cookie |-> FALSE, last_mac1 |-> FALSE]

Init ==
    /\ clock = 0 /\ called = 0 /\ events = 0
    /\ tunn = NewTunn
    /\ endpoint \in {TRUE, HasEndpoint}
    /\ past = [made |-> [s \in Slots |-> 0], trying |-> 0, sent |-> 0, used |-> 0,
               heard |-> 0, idle |-> ~endpoint]

\* Time passes, but the device's timer is not late by more than MaxLate.
Pass ==
    /\ clock < MaxClock
    /\ clock - called < MaxLate
    /\ clock' = clock + 1
    /\ UNCHANGED <<called, endpoint, tunn, past, events>>

LastMade == CHOOSE m \in {past.made[s] : s \in Slots} :
                \A s \in Slots : past.made[s] <= m

\* The tunnel becomes t, which has sent something, and data.
Becomes(t, sent, data) ==
    /\ tunn' = t
    /\ past' = [past EXCEPT
            !.trying = IF InProgress(t) /\ ~InProgress(tunn) THEN clock ELSE @,
            !.sent = IF sent THEN clock ELSE @,
            !.used = IF data /\ @ <= LastMade + MaxLate THEN clock ELSE @]

\* The tun handler encapsulates a packet.
Encapsulate ==
    /\ events < MaxEvents /\ events' = events + 1
    /\ Becomes(Encapsulated(tunn, "data", clock),
               HasSession(tunn) \/ ~InProgress(tunn), HasSession(tunn))
    /\ UNCHANGED <<clock, called, endpoint>>

\* A socket handler has got a valid message: set_endpoint.
Arrives ==
    /\ events < MaxEvents /\ events' = events + 1
    /\ endpoint' = TRUE
    /\ UNCHANGED <<clock, called>>

\* t has a new session in slot; then the loop.
Establishes(t, slot) ==
    LET u == Flushed(t, clock) IN
    /\ tunn' = u
    /\ past' = [past EXCEPT
            !.made[slot] = clock, !.sent = clock,
            !.trying = IF InProgress(u) /\ ~InProgress(t) THEN clock ELSE @]

ReceiveInit ==
    /\ Arrives
    /\ Establishes(Responded(tunn), Responded(tunn).next_index)

ReceiveResponse(h) ==
    /\ Arrives
    /\ h.tag = "InitSent"
    /\ Establishes(Answered(tunn, h), h.slot)

ReceiveData(slot, kind) ==
    LET t == Tick(SetCurrent(tunn, slot), "TimeLastPacketReceived") IN
    /\ Arrives
    /\ slot \in tunn.sessions
    /\ tunn' = IF kind = "data" THEN Tick(t, "TimeLastDataPacketReceived") ELSE t
    /\ past' = IF kind = "data" THEN [past EXCEPT !.heard = clock] ELSE past

\* The answer of a peer under load to an initiation or a response of ours.
ReceiveCookie ==
    LET t == Tick(Tick(tunn, "TimeLastPacketReceived"), "TimeCookieReceived") IN
    /\ Arrives
    /\ tunn.last_mac1
    /\ tunn' = [t EXCEPT !.cookie = TRUE]
    /\ UNCHANGED past

-----------------------------------------------------------------------------
(* The handler of the device's timer.  Peers without an address are passed  *)
(* over; for the others one outcome of update_timers follows.               *)

TimerFires ==
    /\ called' = clock
    /\ called < clock
    /\ UNCHANGED <<clock, endpoint, events>>

PassedOver ==
    /\ TimerFires
    /\ ~endpoint
    /\ UNCHANGED <<tunn, past>>

AlreadyExpired ==
    /\ TimerFires
    /\ endpoint /\ tunn.state = Expired
    /\ Becomes(SessionsAged(tunn, clock), FALSE, FALSE)

\* The tunnel as update_timers finds it after the first two checks.
Checked == CookieAged(SessionsAged(tunn, clock), clock)

Runs ==
    /\ TimerFires
    /\ endpoint /\ tunn.state # Expired

ConnectionExpired ==
    /\ Runs /\ NoNewKeys(Checked, clock)
    /\ Becomes(GivenUp(Checked, clock), FALSE, FALSE)

GiveUp ==
    /\ Runs /\ ~NoNewKeys(Checked, clock)
    /\ AttemptFailed(Checked, clock)
    /\ Becomes(GivenUp(Checked, clock), FALSE, FALSE)

Retry ==
    /\ Runs /\ ~NoNewKeys(Checked, clock)
    /\ ~AttemptFailed(Checked, clock)
    /\ RetryDue(Checked, clock)
    /\ Becomes(StartHandshake(Checked, clock), TRUE, FALSE)

NeedsHandshake(t) ==
    RenewOnSend(t, clock) \/ RenewOnReceive(t, clock) \/ Unanswered(t, clock)

NeedsKeepalive(t) == KeepaliveDue(t, clock) \/ PersistentDue(t, clock)

Renew ==
    /\ Runs /\ ~NoNewKeys(Checked, clock)
    /\ ~InProgress(tunn)
    /\ NeedsHandshake(Checked)
    /\ Becomes(StartHandshake(Checked, clock), TRUE, FALSE)

SendKeepalive ==
    /\ Runs /\ ~NoNewKeys(Checked, clock)
    /\ ~InProgress(tunn)
    /\ ~NeedsHandshake(Checked)
    /\ NeedsKeepalive(Checked)
    /\ Becomes(KeptAlive(Checked, clock), TRUE, FALSE)

Quiet ==
    /\ Runs /\ ~NoNewKeys(Checked, clock)
    /\ ~AttemptFailed(Checked, clock)
    /\ ~RetryDue(Checked, clock)
    /\ InProgress(tunn) \/ ~(NeedsHandshake(Checked) \/ NeedsKeepalive(Checked))
    /\ Becomes(Checked, FALSE, FALSE)

Timer ==
    \/ PassedOver \/ AlreadyExpired
    \/ ConnectionExpired \/ GiveUp \/ Retry \/ Renew \/ SendKeepalive \/ Quiet

Next ==
    \/ Pass
    \/ Encapsulate
    \/ ReceiveInit
    \/ \E h \in {tunn.state, tunn.previous} : ReceiveResponse(h)
    \/ \E slot \in Slots, kind \in Kinds : ReceiveData(slot, kind)
    \/ ReceiveCookie
    \/ Timer

Spec == Init /\ [][Next]_vars

-----------------------------------------------------------------------------
(* Properties.  Deadlines are those of a peer whose address is known from   *)
(* the start, so that update_timers has run all the time.                  *)

\* No session is used longer than REJECT_AFTER_TIME and the time between two
\* calls, whatever its stamp was taken from.
SessionsEndInTime ==
    \A s \in tunn.sessions :
        ~past.idle => clock - past.made[s] <= REJECT_AFTER_TIME + MaxLate

\* A call of update_timers takes a session only when it is old or when a handshake
\* has failed for REKEY_ATTEMPT_TIME, with one exception: a peer without an address
\* is passed over, so that TimeCurrent has not advanced when its first session or
\* handshake begins, and to the first call either seems as old as the peer.
SessionsLastInTime ==
    [][\A s \in tunn.sessions :
        Timer /\ s \notin tunn'.sessions =>
            \/ clock - past.made[s] > REJECT_AFTER_TIME - MaxLate
            \/ InProgress(tunn) /\ clock - past.trying >= REKEY_ATTEMPT_TIME - MaxLate
            \/ past.idle /\ tunn.session_timers[s] = 0
            \/ past.idle /\ InProgress(tunn) /\ tunn.timers["TimeLastHandshakeStarted"] = 0]_vars

\* A handshake ends, with a session or with ConnectionExpired, within
\* REKEY_ATTEMPT_TIME of its first initiation; retries do not prolong it.
GivesUpInTime ==
    ~past.idle /\ InProgress(tunn) =>
        clock - past.trying <= REKEY_ATTEMPT_TIME + MaxLate

\* Until then an initiation is repeated every REKEY_TIMEOUT.
RetriesInTime ==
    ~past.idle /\ InProgress(tunn) =>
        clock - tunn.state.time_sent <= REKEY_TIMEOUT + MaxLate

\* Data from the peer that came noticeably after the last message to it is
\* answered within KEEPALIVE_TIMEOUT.
AnswersInTime ==
    ~past.idle /\ HasSession(tunn) /\ past.heard > past.sent + MaxLate =>
        clock - past.heard <= KEEPALIVE_TIMEOUT + MaxLate

\* With a persistent keepalive something is sent in every interval, session or
\* not, as long as the tunnel has not expired.
KeepsPathOpen ==
    ~past.idle /\ PERSISTENT_KEEPALIVE > REKEY_TIMEOUT /\ tunn.state # Expired =>
        clock - past.sent <= PERSISTENT_KEEPALIVE + MaxLate

\* Attempts go on for REKEY_ATTEMPT_TIME, no longer, and never pause.
HandshakesInTime == GivesUpInTime /\ RetriesInTime

\* An initiator that sent data under its session has a handshake under way
\* before the session ends.
RenewsInTime ==
    ~past.idle /\ tunn.is_initiator /\ tunn.state = None /\ past.used > LastMade + MaxLate =>
        \/ clock - LastMade <= REKEY_AFTER_TIME + MaxLate
        \/ clock - past.used <= MaxLate
==============================================================================
