---------------------------- MODULE RateLimiter -----------------------------
(***************************************************************************)
(* Two devices that make a handshake while others load them: the rate      *)
(* limiter in front of the handshake messages (noise/rate_limiter.rs) and  *)
(* the cookies a tunnel keeps and attaches (noise/handshake.rs).  What an  *)
(* end begins by itself after it responded is left to module Tunn.         *)
(*                                                                         *)
(* mac1 is a number that no other message has; mac2 is the cookie it was   *)
(* made with.  A cookie is what it is a MAC of: the limiter's secret, the  *)
(* period of COOKIE_REFRESH and the address.                               *)
(***************************************************************************)
EXTENDS Integers, Sequences, SequencesExt, FiniteSets

CONSTANTS
    A, B,                   \* the two devices
    Initiators,             \* those of them that begin a handshake
    LIMIT,                  \* handshake messages let in without a cookie per period (100)
    RESET_PERIOD, COOKIE_REFRESH, COOKIE_EXPIRATION_TIME, REKEY_TIMEOUT,
    MaxClock,               \* bound: time
    MaxLost,                \* bound: messages lost
    MaxMacs                 \* bound: handshake messages

ASSUME RateLimiterAssumption ==
    /\ A # B /\ Initiators \subseteq {A, B}
    /\ {LIMIT, RESET_PERIOD, COOKIE_REFRESH, COOKIE_EXPIRATION_TIME, REKEY_TIMEOUT}
         \subseteq Nat \ {0}
    /\ {MaxClock, MaxLost, MaxMacs} \subseteq Nat

Devices == {A, B}
Peer(e) == IF e = A THEN B ELSE A

VARIABLES
    clock,      \* the time
    limiter,    \* of each device: count, last_reset, start_time
    cookies,    \* Cookies of each end: write_cookie, last_mac1, received
    handshake,  \* of each end: the initiations it waits for, when the last was sent
    accepted,   \* the last initiation each end accepted (last_handshake_timestamp)
    net,        \* net[e]: messages under way to e
    session,    \* has the end a session of its own initiation?
    macs,       \* messages so far
    lost,       \* history: messages lost
    started,    \* history: when each end first tried
    unproven    \* history: messages each device let in without a cookie since the reset

vars == <<clock, limiter, cookies, handshake, accepted, net, session, macs, lost,
          started, unproven>>

NoCookie == <<>>
Never == -1

Init ==
    /\ clock = 0
    \* The limiters were made at different times before.
    /\ limiter \in [Devices -> [count : {0}, last_reset : {0},
                                start_time : {-t : t \in 0..(COOKIE_REFRESH - 1)}]]
    /\ cookies = [e \in Devices |-> [write_cookie |-> NoCookie, last_mac1 |-> 0, received |-> 0]]
    /\ handshake = [e \in Devices |-> [state |-> 0, previous |-> 0, sent |-> Never]]
    /\ accepted = [e \in Devices |-> 0]
    /\ net = [e \in Devices |-> <<>>]
    /\ session = [e \in Devices |-> FALSE]
    /\ macs = 0
    /\ lost = 0
    /\ started = [e \in Devices |-> Never]
    /\ unproven = [e \in Devices |-> 0]

-----------------------------------------------------------------------------
(* The limiter of device e.                                                *)

\* Mutant: one more than the limit.
IsUnderLoadLate(e) == limiter[e].count > LIMIT

IsUnderLoad(e) == limiter[e].count >= LIMIT

\* RateLimiter::current_cookie.
CurrentCookie(e, addr) ==
    <<e, (clock - limiter[e].start_time) \div COOKIE_REFRESH, addr>>

\* is_under_load counts the message; past LIMIT the count makes no difference.
Counted(e) ==
    limiter' = [limiter EXCEPT
                    ![e].count = IF @ = LIMIT THEN @ ELSE @ + 1]

Proven(e, m) == m.mac2 = CurrentCookie(e, Peer(e))

\* RateLimiter::verify_packet lets message m in.
LetIn(e, m) ==
    /\ ~IsUnderLoad(e) \/ Proven(e, m)
    /\ Counted(e)
    /\ unproven' = [unproven EXCEPT ![e] = IF Proven(e, m) THEN @ ELSE @ + 1]

\* format_cookie_reply: the cookie, sealed with the mac1 of m.
CookieReply(e, m) ==
    [type |-> "cookie", mac1 |-> m.mac1, cookie |-> CurrentCookie(e, Peer(e))]

\* RateLimiter::reset_count, from the device's timer.
ResetCount(e) ==
    /\ clock - limiter[e].last_reset >= RESET_PERIOD
    /\ limiter' = [limiter EXCEPT ![e].count = 0, ![e].last_reset = clock]
    /\ unproven' = [unproven EXCEPT ![e] = 0]
    /\ UNCHANGED <<clock, cookies, handshake, accepted, net, session, macs, lost, started>>

\* A handshake message of somebody else, with a right mac1 and without a cookie.
Load(e) ==
    /\ Counted(e)
    /\ unproven' = [unproven EXCEPT ![e] = IF IsUnderLoad(e) THEN @ ELSE @ + 1]
    /\ UNCHANGED <<clock, cookies, handshake, accepted, net, session, macs, lost, started>>

-----------------------------------------------------------------------------
(* Messages of the two ends.                                               *)

\* Handshake::append_mac1_and_mac2, with the cookies held.
MacsAppended(e, held) == [held EXCEPT !.last_mac1 = macs + 1]

\* update_timers clears an old cookie before it formats an initiation.
Unexpired(held) ==
    IF clock - held.received >= COOKIE_EXPIRATION_TIME
    THEN [held EXCEPT !.write_cookie = NoCookie] ELSE held

\* The first initiation, or the next after REKEY_TIMEOUT.
SendInit(e) ==
    LET held == Unexpired(cookies[e]) IN
    /\ e \in Initiators
    /\ macs < MaxMacs /\ macs' = macs + 1
    /\ ~session[e]
    /\ handshake[e].sent = Never \/ clock - handshake[e].sent >= REKEY_TIMEOUT
    /\ handshake' = [handshake EXCEPT ![e] = [state |-> macs + 1, previous |-> @.state, sent |-> clock]]
    /\ cookies' = [cookies EXCEPT ![e] = MacsAppended(e, held)]
    /\ net' = [net EXCEPT ![Peer(e)] = Append(@,
            [type |-> "init", mac1 |-> macs + 1, mac2 |-> held.write_cookie])]
    /\ started' = [started EXCEPT ![e] = IF @ = Never THEN clock ELSE @]
    /\ UNCHANGED <<clock, limiter, accepted, session, lost, unproven>>

\* A handshake message that the limiter of e answers with a cookie.
ReplyCookie(e, i) ==
    LET m == net[e][i] IN
    /\ m.type # "cookie"
    /\ IsUnderLoad(e) /\ ~Proven(e, m)
    /\ Counted(e)
    /\ net' = [net EXCEPT ![e] = RemoveAt(@, i), ![Peer(e)] = Append(@, CookieReply(e, m))]
    /\ UNCHANGED <<clock, cookies, handshake, accepted, session, macs, lost, started, unproven>>

\* Mutant: a response never carries a cookie.
ResponseMsgBare(e, m) ==
    [type |-> "response", mac1 |-> macs + 1, mac2 |-> NoCookie, answers |-> m.mac1]

ResponseMsg(e, m) ==
    [type |-> "response", mac1 |-> macs + 1, mac2 |-> cookies[e].write_cookie,
     answers |-> m.mac1]

\* An initiation is let in.  It has a newer timestamp than the last one.
ReceiveInit(e, i) ==
    LET m == net[e][i] IN
    /\ m.type = "init"
    /\ LetIn(e, m)
    /\ IF m.mac1 > accepted[e]
       THEN /\ macs < MaxMacs /\ macs' = macs + 1
            /\ accepted' = [accepted EXCEPT ![e] = m.mac1]
            /\ handshake' = [handshake EXCEPT ![e] = [state |-> 0, previous |-> @.state, sent |-> Never]]
            /\ cookies' = [cookies EXCEPT ![e] = MacsAppended(e, @)]
            /\ net' = [net EXCEPT ![e] = RemoveAt(@, i),
                                  ![Peer(e)] = Append(@, ResponseMsg(e, m))]
       ELSE /\ net' = [net EXCEPT ![e] = RemoveAt(@, i)]
            /\ UNCHANGED <<macs, accepted, handshake, cookies>>
    /\ UNCHANGED <<clock, session, lost, started>>

\* A response is let in: the session, if it answers an initiation still waited for.
ReceiveResponse(e, i) ==
    LET m == net[e][i] IN
    /\ m.type = "response"
    /\ LetIn(e, m)
    /\ net' = [net EXCEPT ![e] = RemoveAt(@, i)]
    /\ IF m.answers \in {handshake[e].state, handshake[e].previous}
       THEN /\ session' = [session EXCEPT ![e] = TRUE]
            /\ handshake' = [handshake EXCEPT ![e] =
                   IF m.answers = @.state THEN [@ EXCEPT !.state = 0, !.sent = Never]
                   ELSE [@ EXCEPT !.previous = 0]]
       ELSE UNCHANGED <<session, handshake>>
    /\ UNCHANGED <<clock, cookies, accepted, macs, lost, started>>

\* receive_cookie_reply: only the answer to the last message opens.
ReceiveCookie(e, i) ==
    LET m == net[e][i] IN
    /\ m.type = "cookie"
    /\ net' = [net EXCEPT ![e] = RemoveAt(@, i)]
    /\ cookies' = IF m.mac1 = cookies[e].last_mac1
                  THEN [cookies EXCEPT ![e].write_cookie = m.cookie, ![e].received = clock]
                  ELSE cookies
    /\ UNCHANGED <<clock, limiter, handshake, accepted, session, macs, lost, started, unproven>>

Receive(e, i) ==
    ReplyCookie(e, i) \/ ReceiveInit(e, i) \/ ReceiveResponse(e, i) \/ ReceiveCookie(e, i)

Lose(e, i) ==
    /\ lost < MaxLost /\ lost' = lost + 1
    /\ net' = [net EXCEPT ![e] = RemoveAt(@, i)]
    /\ UNCHANGED <<clock, limiter, cookies, handshake, accepted, session, macs, started, unproven>>

RetryDue(e) ==
    ~session[e] /\ handshake[e].sent # Never /\ clock - handshake[e].sent >= REKEY_TIMEOUT

\* A message takes less than one unit of time, and no initiation is late.
Pass ==
    /\ clock < MaxClock
    /\ \A e \in Initiators : started[e] # Never
    /\ \A e \in Devices : net[e] = <<>> /\ ~RetryDue(e)
    /\ clock' = clock + 1
    /\ UNCHANGED <<limiter, cookies, handshake, accepted, net, session, macs, lost, started,
                   unproven>>

Next ==
    \/ Pass
    \/ \E e \in Devices : ResetCount(e) \/ Load(e) \/ SendInit(e)
    \/ \E e \in Devices : \E i \in 1..Len(net[e]) : Receive(e, i) \/ Lose(e, i)

Spec == Init /\ [][Next]_vars

-----------------------------------------------------------------------------
(* Properties.                                                             *)

\* However many messages arrive, not more than LIMIT of them are let into the
\* handshake without the cookie of their address until the count is reset.
AdmittedBounded == \A e \in Devices : unproven[e] <= LIMIT

\* Load does not keep two ends from a session.  The initiator pays one retry for
\* the cookie of each device, one for each device whose period ends meanwhile,
\* and one for each message lost; REKEY_ATTEMPT_TIME allows 18.
CompletesInTime ==
    \A e \in Devices :
        started[e] # Never /\ ~session[e] =>
            clock - started[e] <= (4 + lost) * REKEY_TIMEOUT
==============================================================================
