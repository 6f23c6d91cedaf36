---------------------------- MODULE Timers_proofs -----------------------------
(***************************************************************************)
(* Proofs about Timers, for every value of the intervals, any lateness of  *)
(* the device's timer and any number of slots, messages and packets.       *)
(***************************************************************************)
EXTENDS Timers, FiniteSetTheorems, TLAPS

-----------------------------------------------------------------------------
(* The invariant.                                                          *)

Handshakes == {None, Expired} \cup {InitSent(s, n) : s \in Slots, n \in Nat}

Tunnel ==
    [timers : [TimerNames -> Nat], session_timers : [Slots -> Nat],
     want_keepalive : BOOLEAN, want_handshake : BOOLEAN, is_initiator : BOOLEAN,
     state : Handshakes, previous : Handshakes, next_index : Slots,
     sessions : SUBSET Slots, current : Slots, packet_queue : SUBSET Kinds,
     cookie : BOOLEAN, last_mac1 : BOOLEAN]

Past == [made : [Slots -> Time], trying : Time, sent : Time, used : Time, heard : Time,
         idle : BOOLEAN]

TypeOK ==
    /\ clock \in Time /\ called \in Time
    /\ endpoint \in BOOLEAN
    /\ tunn \in Tunnel
    /\ past \in Past
    /\ events \in Nat

\* The device's timer is late by at most MaxLate; with an address from the start
\* it is never passed over.
Punctual ==
    /\ called <= clock /\ clock <= called + MaxLate
    /\ ~past.idle => endpoint

Stamp(t, name) == t.timers[name]

\* Of a tunnel t at time now, last called at c.  TimeCurrent is not older than the
\* last call, and nothing is younger than TimeCurrent.
Stamped(t, now, c) ==
    /\ c <= Stamp(t, "TimeCurrent") /\ Stamp(t, "TimeCurrent") <= now
    /\ \A n \in TimerNames : Stamp(t, n) <= Stamp(t, "TimeCurrent")
    /\ \A s \in Slots : t.session_timers[s] <= Stamp(t, "TimeCurrent")

\* What waits for a keepalive has asked for it.
Asked(t) == Stamp(t, "TimeLastDataPacketReceived") > Stamp(t, "TimeLastPacketSent") =>
                t.want_keepalive

\* An expired tunnel has nothing left.
Emptied(t) == t.state = Expired => t.previous = Expired /\ t.sessions = {}

\* A session is not younger than the last establishment, nor older than the last
\* clean-up left it.
Aged(t, c) == \A s \in t.sessions :
    /\ t.session_timers[s] <= Stamp(t, "TimeSessionEstablished")
    /\ c <= t.session_timers[s] + REJECT_AFTER_TIME

\* A handshake under way is as old as the last call has let it become.
Tried(t, now, c) == InProgress(t) =>
    /\ c < Stamp(t, "TimeLastHandshakeStarted") + REKEY_ATTEMPT_TIME
    /\ c < t.state.time_sent + REKEY_TIMEOUT
    /\ t.state.time_sent <= now

Sound(t, now, c) == Stamped(t, now, c) /\ Asked(t) /\ Emptied(t) /\ Aged(t, c)

\* The history p against the stamps, m being the last establishment: a stamp is
\* MaxLate older than what it is the stamp of, or less.
Tracked(t, p, m, now) ==
    /\ \A s \in t.sessions : /\ t.session_timers[s] <= p.made[s]
                             /\ p.made[s] <= t.session_timers[s] + MaxLate
    /\ \A s \in Slots : p.made[s] <= now
    /\ p.sent <= now /\ p.heard <= now /\ p.used <= now
    /\ p.heard <= Stamp(t, "TimeLastDataPacketReceived") + MaxLate
    /\ p.used <= Stamp(t, "TimeLastDataPacketSent") + MaxLate
    /\ t.sessions # {} => Stamp(t, "TimeLastPacketSent") <= p.sent
    /\ t.state # Expired => Stamp(t, "TimePersistentKeepalive") <= p.sent
    /\ t.state = None => Stamp(t, "TimeSessionEstablished") <= m
    /\ InProgress(t) => /\ Stamp(t, "TimeLastHandshakeStarted") <= p.trying
                        /\ t.state.time_sent <= p.sent

\* What the call at c has seen to: data is answered, ...
Heeded(t, p, c) ==
    t.sessions # {} /\ p.heard > p.sent + MaxLate => c <= p.heard + KEEPALIVE_TIMEOUT

\* ... the path is kept open, ...
KeptOpen(t, p, c) ==
    PERSISTENT_KEEPALIVE > REKEY_TIMEOUT /\ t.state # Expired =>
        c <= p.sent + PERSISTENT_KEEPALIVE

\* ... and a session that is in use does not grow old.
Renewed(t, p, m, c) ==
    t.is_initiator /\ t.state = None /\ p.used > m + MaxLate =>
        c <= m + REKEY_AFTER_TIME \/ c <= p.used

Served(t, p, m, c) == Heeded(t, p, c) /\ KeptOpen(t, p, c) /\ Renewed(t, p, m, c)

\* The last call that the stamps can be held against.
Since == IF past.idle THEN 0 ELSE called

InTime ==
    /\ Tried(tunn, clock, called)
    /\ Tracked(tunn, past, LastMade, clock)
    /\ Served(tunn, past, LastMade, called)

Current(t) == Stamp(t, "TimeCurrent")

\* With an address e.  TimeCurrent is as late as the last call, unless there was no
\* address at first and no call has found one.
Woken(t, e, p, c) ==
    /\ ~e => p.idle /\ Current(t) = 0 /\ t.state # Expired
    /\ c <= Current(t) \/ (p.idle /\ Current(t) = 0)

\* n was recorded with the stamp of it, or before the first call of all.
Recorded(n, stamp, p) == n <= stamp + MaxLate \/ (p.idle /\ stamp = 0)

\* What a call judges the age of a session and of an attempt by.
Begun(t, p) ==
    /\ \A s \in t.sessions : Recorded(p.made[s], t.session_timers[s], p)
    /\ InProgress(t) => Recorded(p.trying, Stamp(t, "TimeLastHandshakeStarted"), p)

Dated(t, e, p, c) == Woken(t, e, p, c) /\ Begun(t, p)

IInv ==
    /\ TypeOK /\ Punctual
    /\ Sound(tunn, clock, Since)
    /\ Dated(tunn, endpoint, past, called)
    /\ ~past.idle => InTime

-----------------------------------------------------------------------------
(* Numbers and records.                                                    *)

\* The intervals are whole numbers of time units, none of them 0.
LEMMA Intervals ==
    /\ REKEY_AFTER_TIME \in Nat /\ REJECT_AFTER_TIME \in Nat /\ REKEY_ATTEMPT_TIME \in Nat
    /\ REKEY_TIMEOUT \in Nat /\ KEEPALIVE_TIMEOUT \in Nat /\ MaxLate \in Nat
    /\ PERSISTENT_KEEPALIVE \in Nat /\ MaxClock \in Nat /\ N_SESSIONS \in Nat
    /\ REKEY_AFTER_TIME > 0 /\ REJECT_AFTER_TIME > 0 /\ REKEY_ATTEMPT_TIME > 0
    /\ REKEY_TIMEOUT > 0 /\ KEEPALIVE_TIMEOUT > 0 /\ N_SESSIONS > 0
    /\ REKEY_TIMEOUT <= KEEPALIVE_TIMEOUT
    /\ Time \subseteq Nat /\ 0 \in Slots /\ 0 \in Time
BY TimersAssumption DEF Time, Slots

\* The fields of a tunnel.
LEMMA TunnelParts ==
    ASSUME NEW t \in Tunnel
    PROVE  /\ t.timers \in [TimerNames -> Nat] /\ t.session_timers \in [Slots -> Nat]
           /\ \A n \in TimerNames : Stamp(t, n) \in Nat
           /\ t.want_keepalive \in BOOLEAN /\ t.want_handshake \in BOOLEAN
           /\ t.is_initiator \in BOOLEAN
           /\ t.state \in Handshakes /\ t.previous \in Handshakes
           /\ t.next_index \in Slots /\ t.current \in Slots
           /\ t.sessions \in SUBSET Slots /\ t.packet_queue \in SUBSET Kinds
           /\ t.cookie \in BOOLEAN /\ t.last_mac1 \in BOOLEAN
BY DEF Tunnel, Stamp

\* The fields of the history.
LEMMA PastParts ==
    ASSUME NEW p \in Past
    PROVE  /\ p.made \in [Slots -> Time] /\ p.trying \in Time /\ p.sent \in Time
           /\ p.used \in Time /\ p.heard \in Time /\ p.idle \in BOOLEAN
           /\ p.trying \in Nat /\ p.sent \in Nat /\ p.used \in Nat /\ p.heard \in Nat
           /\ \A s \in Slots : p.made[s] \in Time /\ p.made[s] \in Nat
BY Intervals DEF Past

\* The names of the stamps.
LEMMA Names ==
    /\ "TimeCurrent" \in TimerNames /\ "TimeSessionEstablished" \in TimerNames
    /\ "TimeLastHandshakeStarted" \in TimerNames /\ "TimeLastPacketReceived" \in TimerNames
    /\ "TimeLastPacketSent" \in TimerNames /\ "TimeLastDataPacketReceived" \in TimerNames
    /\ "TimeLastDataPacketSent" \in TimerNames /\ "TimeCookieReceived" \in TimerNames
    /\ "TimePersistentKeepalive" \in TimerNames
BY DEF TimerNames

\* A handshake is none, expired or under way, and only one of the three.
LEMMA HandshakeKinds ==
    /\ None \in Handshakes /\ Expired \in Handshakes /\ None # Expired
    /\ None.tag # "InitSent" /\ Expired.tag # "InitSent"
    /\ \A s \in Slots, n \in Nat : /\ InitSent(s, n) \in Handshakes
                                   /\ InitSent(s, n).tag = "InitSent"
                                   /\ InitSent(s, n).time_sent = n
                                   /\ InitSent(s, n).slot = s
    /\ \A h \in Handshakes : /\ h.tag = "InitSent" <=> h # None /\ h # Expired
                             /\ h.tag = "InitSent" => h.slot \in Slots /\ h.time_sent \in Nat
<1>1. /\ None \in Handshakes /\ Expired \in Handshakes
      /\ \A s \in Slots, n \in Nat : InitSent(s, n) \in Handshakes
  BY DEF Handshakes
<1>2. None.tag = "None" /\ Expired.tag = "Expired"
  BY DEF None, Expired
<1>3. \A s \in Slots, n \in Nat : /\ InitSent(s, n).tag = "InitSent"
                                  /\ InitSent(s, n).time_sent = n
                                  /\ InitSent(s, n).slot = s
  BY DEF InitSent
<1>4. ASSUME NEW h \in Handshakes
      PROVE  /\ h.tag = "InitSent" <=> h # None /\ h # Expired
             /\ h.tag = "InitSent" => h.slot \in Slots /\ h.time_sent \in Nat
  <2>1. CASE h = None \/ h = Expired
    BY <1>2, <2>1
  <2>2. CASE \E s \in Slots, n \in Nat : h = InitSent(s, n)
    BY <1>2, <1>3, <2>2
  <2> QED
    BY <2>1, <2>2 DEF Handshakes
<1> QED
  BY <1>1, <1>2, <1>3, <1>4

\* A set of numbers that is not empty has a least one.
LEMMA LeastNatural ==
    ASSUME NEW S \in SUBSET Nat, S # {}
    PROVE  \E n \in S : \A m \in S : n <= m
<1> DEFINE T == {1..n : n \in S}
<1>1. T \subseteq FiniteSubsetsOf(Nat) /\ T # {}
  <2>1. ASSUME NEW n \in S
        PROVE  1..n \in SUBSET Nat /\ IsFiniteSet(1..n)
    <3>1. 1 \in Int /\ n \in Int
      OBVIOUS
    <3> QED
      BY <3>1, FS_Interval
  <2> QED
    BY <2>1 DEF FiniteSubsetsOf
<1>2. PICK x \in T : \A y \in T : ~(<<y, x>> \in StrictSubsetOrdering(Nat))
  BY <1>1, FS_StrictSubsetOrderingWellFounded, WFMin
<1>3. PICK n \in S : x = 1..n
  OBVIOUS
<1>4. ASSUME NEW m \in S, m < n
      PROVE  FALSE
  <2>1. 1..m \subseteq 1..n /\ n \in 1..n /\ n \notin 1..m
    BY <1>4
  <2>2. <<1..m, 1..n>> \in StrictSubsetOrdering(Nat)
    BY <2>1 DEF StrictSubsetOrdering
  <2> QED
    BY <1>2, <1>3, <2>2
<1> QED
  BY <1>4

\* The latest of the times at which sessions were established.
Latest(f) == CHOOSE m \in {f[s] : s \in Slots} : \A s \in Slots : f[s] <= m

LEMMA LatestOne ==
    ASSUME NEW f \in [Slots -> Time]
    PROVE  Latest(f) \in {f[s] : s \in Slots} /\ \A s \in Slots : f[s] <= Latest(f)
<1> DEFINE bounds == {n \in Nat : \A s \in Slots : f[s] <= n}
<1>1. \A s \in Slots : f[s] \in Nat /\ f[s] <= MaxClock
  BY Intervals DEF Time
<1>2. MaxClock \in bounds
  BY <1>1, Intervals
<1>3. PICK n \in bounds : \A m \in bounds : n <= m
  BY <1>2, LeastNatural
<1>4. n \in {f[s] : s \in Slots}
  <2> SUFFICES ASSUME \A s \in Slots : f[s] # n PROVE FALSE
    OBVIOUS
  <2>1. \A s \in Slots : f[s] < n
    BY <1>1, <1>3
  <2>2. n - 1 \in bounds
    BY <1>1, <1>3, <2>1, Intervals
  <2> QED
    BY <1>3, <2>2
<1>5. \A s \in Slots : f[s] <= n
  BY <1>3
<1> QED
  BY <1>4, <1>5 DEF Latest

-----------------------------------------------------------------------------
(* The operators of the tunnel.                                            *)

\* u has the sessions and the handshakes of t.
SameKeys(t, u) ==
    /\ u.sessions = t.sessions /\ u.session_timers = t.session_timers
    /\ u.is_initiator = t.is_initiator
    /\ u.state = t.state /\ u.previous = t.previous

\* u has the stamps of t.
SameStamps(t, u) ==
    u.timers = t.timers /\ u.want_keepalive = t.want_keepalive

\* timer_tick sets one stamp, and the flag that goes with it.
LEMMA TickFacts ==
    ASSUME NEW t \in Tunnel, NEW name \in TimerNames
    PROVE  /\ Tick(t, name) \in Tunnel
           /\ SameKeys(t, Tick(t, name))
           /\ Tick(t, name).packet_queue = t.packet_queue
           /\ Stamp(Tick(t, name), name) = Stamp(t, "TimeCurrent")
           /\ \A n \in TimerNames : n # name => Stamp(Tick(t, name), n) = Stamp(t, n)
           /\ Stamp(Tick(t, name), "TimeCurrent") = Stamp(t, "TimeCurrent")
           /\ name = "TimeLastPacketReceived" => Tick(t, name).want_keepalive
           /\ name \notin {"TimeLastPacketReceived", "TimeLastPacketSent"} =>
                  Tick(t, name).want_keepalive = t.want_keepalive
<1> DEFINE timers == [t.timers EXCEPT ![name] = t.timers["TimeCurrent"]]
           keep == IF name = "TimeLastPacketReceived" THEN TRUE
                   ELSE IF name = "TimeLastPacketSent" THEN FALSE ELSE t.want_keepalive
           shake == IF name = "TimeLastPacketReceived" THEN FALSE
                    ELSE IF name = "TimeLastPacketSent" THEN TRUE ELSE t.want_handshake
           u == [t EXCEPT !.timers = timers, !.want_keepalive = keep, !.want_handshake = shake]
<1>1. t.timers \in [TimerNames -> Nat] /\ t.want_keepalive \in BOOLEAN /\ t.want_handshake \in BOOLEAN
  BY TunnelParts
<1>2. Tick(t, name) = u
  BY DEF Tick, Tunnel
<1>3. timers \in [TimerNames -> Nat] /\ timers[name] = t.timers["TimeCurrent"]
      /\ \A n \in TimerNames : n # name => timers[n] = t.timers[n]
  BY <1>1, Names
<1>4. keep \in BOOLEAN /\ shake \in BOOLEAN
  BY <1>1
<1>5. /\ name = "TimeLastPacketReceived" => keep
      /\ name \notin {"TimeLastPacketReceived", "TimeLastPacketSent"} => keep = t.want_keepalive
  OBVIOUS
<1>6. timers["TimeCurrent"] = t.timers["TimeCurrent"]
  BY <1>3, Names
<1> HIDE DEF timers, keep, shake
<1>7. u \in Tunnel /\ u.timers = timers /\ u.want_keepalive = keep /\ SameKeys(t, u)
      /\ u.packet_queue = t.packet_queue
  BY <1>3, <1>4 DEF Tunnel, SameKeys
<1> HIDE DEF u
<1> QED
  BY <1>2, <1>3, <1>5, <1>6, <1>7 DEF Stamp

\* A tick keeps the stamps sound; that of data received goes with that of a packet.
LEMMA TickSound ==
    ASSUME NEW t \in Tunnel, NEW now \in Nat, NEW c \in Nat, Sound(t, now, c),
           NEW name \in TimerNames,
           name = "TimeLastDataPacketReceived" => t.want_keepalive
    PROVE  Sound(Tick(t, name), now, c)
<1> DEFINE u == Tick(t, name)
<1>1. /\ u \in Tunnel /\ SameKeys(t, u)
      /\ Stamp(u, name) = Stamp(t, "TimeCurrent")
      /\ \A n \in TimerNames : n # name => Stamp(u, n) = Stamp(t, n)
      /\ Stamp(u, "TimeCurrent") = Stamp(t, "TimeCurrent")
      /\ name = "TimeLastPacketReceived" => u.want_keepalive
      /\ name \notin {"TimeLastPacketReceived", "TimeLastPacketSent"} =>
             u.want_keepalive = t.want_keepalive
  BY TickFacts
<1> HIDE DEF u
<1>2. /\ \A n \in TimerNames : Stamp(t, n) \in Nat /\ Stamp(u, n) \in Nat
      /\ \A s \in Slots : t.session_timers[s] \in Nat
      /\ t.sessions \in SUBSET Slots
  BY <1>1, TunnelParts
<1>3. \A n \in TimerNames : Stamp(u, n) <= Stamp(u, "TimeCurrent") /\ Stamp(t, n) <= Stamp(u, n)
  BY <1>1, <1>2, Names DEF Sound, Stamped
<1>4. Stamped(u, now, c)
  BY <1>1, <1>3 DEF Sound, Stamped, SameKeys
<1>5. Asked(u)
  <2>1. CASE name = "TimeLastPacketSent"
    <3>1. Stamp(u, "TimeLastDataPacketReceived") <= Stamp(u, "TimeLastPacketSent")
      BY <1>1, <1>2, <1>3, <2>1, Names
    <3> QED
      BY <1>2, <3>1, Names DEF Asked
  <2>2. CASE name = "TimeLastPacketReceived"
    BY <1>1, <2>2 DEF Asked
  <2>3. CASE name = "TimeLastDataPacketReceived"
    BY <1>1, <2>3 DEF Asked
  <2>4. CASE name \notin {"TimeLastPacketSent", "TimeLastPacketReceived", "TimeLastDataPacketReceived"}
    BY <1>1, <2>4, Names DEF Sound, Asked
  <2> QED
    BY <2>1, <2>2, <2>3, <2>4
<1>6. Emptied(u)
  BY <1>1 DEF Sound, Emptied, SameKeys
<1>7. Aged(u, c)
  BY <1>1, <1>2, <1>3, Names DEF Sound, Aged, SameKeys
<1> QED
  BY <1>4, <1>5, <1>6, <1>7 DEF Sound, u

\* What only touches the packet queue or the cookie.
LEMMA SameSound ==
    ASSUME NEW t, NEW u, NEW now, NEW c, Sound(t, now, c), SameKeys(t, u), SameStamps(t, u)
    PROVE  Sound(u, now, c)
BY DEF Sound, Stamped, Asked, Emptied, Aged, SameKeys, SameStamps, Stamp

\* u is t after something was sent, or nothing.
Sends(t, u, now) ==
    /\ u \in Tunnel
    /\ u.sessions = t.sessions /\ u.session_timers = t.session_timers
    /\ u.is_initiator = t.is_initiator
    /\ \A n \in TimerNames : Stamp(t, n) <= Stamp(u, n)
    /\ u.state # t.state => InProgress(u) /\ u.state.time_sent = now
    /\ InProgress(u) => \/ InProgress(t) /\ Stamp(u, "TimeLastHandshakeStarted")
                                              = Stamp(t, "TimeLastHandshakeStarted")
                        \/ ~InProgress(t) /\ Stamp(u, "TimeLastHandshakeStarted")
                                               = Stamp(u, "TimeCurrent")
    /\ t.state # Expired => Stamp(u, "TimeSessionEstablished")
                              = Stamp(t, "TimeSessionEstablished")
    /\ \/ Current(u) = Current(t)
       \/ t.state = Expired /\ Current(u) = now

\* An initiation.  A tunnel that has expired starts with new stamps.
LEMMA StartSends ==
    ASSUME NEW t \in Tunnel, NEW now \in Nat, NEW c \in Nat, Sound(t, now, c), c <= now
    PROVE  /\ Sends(t, StartHandshake(t, now), now)
           /\ Sound(StartHandshake(t, now), now, c)
           /\ InProgress(StartHandshake(t, now))
           /\ StartHandshake(t, now).state.time_sent = now
<1> DEFINE e == IF t.state = Expired THEN Clear(t, now) ELSE t
           i == (t.next_index + 1) % N_SESSIONS
           h == [e EXCEPT !.next_index = i, !.previous = t.state,
                          !.state = InitSent(i, now), !.last_mac1 = TRUE]
           g == IF InProgress(t) THEN h ELSE Tick(h, "TimeLastHandshakeStarted")
           u == Tick(g, "TimeLastPacketSent")
<1>1. i \in Slots
  <2>1. t.next_index \in Nat /\ N_SESSIONS \in Nat /\ N_SESSIONS > 0
    BY TunnelParts, Intervals DEF Slots
  <2> QED
    BY <2>1 DEF Slots
<1> HIDE DEF i
<1>2. /\ e \in Tunnel /\ SameKeys(t, e) /\ Sound(e, now, c)
      /\ \A n \in TimerNames : Stamp(t, n) <= Stamp(e, n)
      /\ t.state # Expired => e = t
      /\ t.state = Expired => Current(e) = now
  <2>1. CASE t.state # Expired
    BY <2>1, TunnelParts DEF SameKeys
  <2>2. CASE t.state = Expired
    <3> DEFINE timers == [n \in TimerNames |-> now]
    <3>1. e = [t EXCEPT !.timers = timers, !.want_handshake = FALSE, !.want_keepalive = FALSE]
      BY <2>2 DEF Clear
    <3>2. timers \in [TimerNames -> Nat] /\ \A n \in TimerNames : timers[n] = now
      OBVIOUS
    <3> HIDE DEF timers, e
    <3>3. e \in Tunnel /\ e.timers = timers /\ SameKeys(t, e)
      BY <3>1, <3>2 DEF Tunnel, SameKeys
    <3>4. \A n \in TimerNames : Stamp(e, n) = now
      BY <3>2, <3>3 DEF Stamp
    <3>5. \A n \in TimerNames : Stamp(t, n) \in Nat /\ Stamp(t, n) <= now
      BY TunnelParts, Names DEF Sound, Stamped
    <3>6. \A s \in Slots : t.session_timers[s] \in Nat /\ t.session_timers[s] <= now
      BY TunnelParts, Names DEF Sound, Stamped
    <3>7. Stamped(e, now, c)
      BY <3>3, <3>4, <3>6, Names DEF Stamped, SameKeys
    <3>8. Asked(e)
      BY <3>4, Names DEF Asked
    <3>9. Emptied(e) /\ e.sessions = {}
      BY <2>2, <3>3 DEF Sound, Emptied, SameKeys
    <3> QED
      BY <2>2, <3>3, <3>4, <3>5, <3>7, <3>8, <3>9, Names DEF Sound, Aged, Current
  <2> QED
    BY <2>1, <2>2
<1> HIDE DEF e
<1>3. /\ h \in Tunnel
      /\ h.sessions = e.sessions /\ h.session_timers = e.session_timers
      /\ h.is_initiator = e.is_initiator /\ h.state = InitSent(i, now)
      /\ SameStamps(e, h)
  <2> DEFINE sent == InitSent(i, now)
             last == t.state
  <2>1. sent \in Handshakes /\ last \in Handshakes
    BY <1>1, HandshakeKinds, TunnelParts
  <2>2. h = [e EXCEPT !.next_index = i, !.previous = last, !.state = sent,
                      !.last_mac1 = TRUE]
    OBVIOUS
  <2> HIDE DEF sent, last, h
  <2>3. /\ h \in Tunnel
        /\ h.sessions = e.sessions /\ h.session_timers = e.session_timers
        /\ h.is_initiator = e.is_initiator /\ h.state = sent
        /\ h.timers = e.timers /\ h.want_keepalive = e.want_keepalive
    BY <1>1, <1>2, <2>1, <2>2 DEF Tunnel
  <2> QED
    BY <2>3 DEF SameStamps, sent
<1> HIDE DEF h
<1>4. InProgress(h) /\ h.state.time_sent = now /\ h.state # Expired
  BY <1>1, <1>3, HandshakeKinds DEF InProgress
<1>5. Sound(h, now, c)
  <2>1. Stamped(h, now, c) /\ Asked(h) /\ Aged(h, c)
    BY <1>2, <1>3 DEF Sound, Stamped, Asked, Aged, SameStamps, Stamp
  <2> QED
    BY <1>4, <2>1 DEF Sound, Emptied
<1>6. \A n \in TimerNames : Stamp(h, n) = Stamp(e, n)
  BY <1>3 DEF SameStamps, Stamp
<1>7. /\ g \in Tunnel /\ SameKeys(h, g) /\ Sound(g, now, c)
      /\ \A n \in TimerNames : n # "TimeLastHandshakeStarted" => Stamp(g, n) = Stamp(h, n)
      /\ InProgress(t) => g = h
      /\ ~InProgress(t) => Stamp(g, "TimeLastHandshakeStarted") = Stamp(h, "TimeCurrent")
  <2>1. CASE InProgress(t)
    BY <1>3, <1>5, <2>1 DEF SameKeys
  <2>2. CASE ~InProgress(t)
    BY ZenonT(40), <1>3, <1>5, <2>2, TickFacts, TickSound, Names
  <2> QED
    BY <2>1, <2>2
<1> HIDE DEF g
<1>8. /\ u \in Tunnel /\ SameKeys(g, u) /\ Sound(u, now, c)
      /\ \A n \in TimerNames : n # "TimeLastPacketSent" => Stamp(u, n) = Stamp(g, n)
  BY <1>7, TickFacts, TickSound, Names
<1> HIDE DEF u
<1>9. \A n \in TimerNames : Stamp(t, n) <= Stamp(u, n)
  <2> SUFFICES ASSUME NEW n \in TimerNames PROVE Stamp(t, n) <= Stamp(u, n)
    OBVIOUS
  <2>1. /\ Stamp(t, n) \in Nat /\ Stamp(u, n) \in Nat /\ Stamp(e, n) \in Nat
        /\ Stamp(u, "TimeCurrent") \in Nat
    BY <1>2, <1>8, TunnelParts, Names
  <2>2. Stamp(e, n) <= Stamp(e, "TimeCurrent") /\ Stamp(u, "TimeCurrent") = Stamp(e, "TimeCurrent")
    BY <1>2, <1>6, <1>7, <1>8, Names DEF Sound, Stamped
  <2>3. CASE n = "TimeLastPacketSent"
    <3>1. Stamp(u, n) = Stamp(u, "TimeCurrent")
      BY <1>7, <1>8, <2>3, TickFacts, Names DEF u
    <3> QED
      BY <1>2, <2>1, <2>2, <3>1
  <2>4. CASE n = "TimeLastHandshakeStarted"
    <3>1. Stamp(u, n) = Stamp(e, n) \/ Stamp(u, n) = Stamp(e, "TimeCurrent")
      BY <1>6, <1>7, <1>8, <2>4, Names
    <3> QED
      BY <1>2, <2>1, <2>2, <3>1
  <2>5. CASE n \notin {"TimeLastPacketSent", "TimeLastHandshakeStarted"}
    <3>1. Stamp(u, n) = Stamp(e, n)
      BY <1>6, <1>7, <1>8, <2>5
    <3> QED
      BY <1>2, <3>1
  <2> QED
    BY <2>3, <2>4, <2>5
<1>10. InProgress(u) /\ u.state.time_sent = now
  BY <1>4, <1>7, <1>8 DEF InProgress, SameKeys
<1>11. /\ u.sessions = t.sessions /\ u.session_timers = t.session_timers
       /\ u.is_initiator = t.is_initiator
  BY <1>2, <1>3, <1>7, <1>8 DEF SameKeys
<1>12. InProgress(t) => Stamp(u, "TimeLastHandshakeStarted") = Stamp(t, "TimeLastHandshakeStarted")
  BY <1>2, <1>6, <1>7, <1>8, Names, HandshakeKinds DEF InProgress
<1>13. ~InProgress(t) => Stamp(u, "TimeLastHandshakeStarted") = Stamp(u, "TimeCurrent")
  BY <1>6, <1>7, <1>8, Names
<1>14. t.state # Expired => Stamp(u, "TimeSessionEstablished") = Stamp(t, "TimeSessionEstablished")
  BY <1>2, <1>6, <1>7, <1>8, Names
<1>15. Current(u) = Current(t) \/ (t.state = Expired /\ Current(u) = now)
  <2>1. Current(u) = Current(e)
    BY <1>6, <1>7, <1>8, Names DEF Current
  <2> QED
    BY <1>2, <2>1
<1>16. Sends(t, u, now)
  BY <1>8, <1>9, <1>10, <1>11, <1>12, <1>13, <1>14, <1>15 DEF Sends
<1> QED
  BY <1>8, <1>10, <1>16 DEF StartHandshake, u, g, h, e, i

\* Nothing sent, or only the packet queue changed.
LEMMA SendsNothing ==
    ASSUME NEW t \in Tunnel, NEW u \in Tunnel, NEW now, SameKeys(t, u), SameStamps(t, u)
    PROVE  Sends(t, u, now)
<1>1. \A n \in TimerNames : Stamp(t, n) \in Nat /\ Stamp(u, n) = Stamp(t, n)
  BY TunnelParts DEF SameStamps, Stamp
<1>2. InProgress(u) <=> InProgress(t)
  BY DEF InProgress, SameKeys
<1> QED
  BY <1>1, <1>2, Names DEF Sends, SameKeys, Current

\* One ticks, which is no handshake's.
LEMMA SendsTick ==
    ASSUME NEW t \in Tunnel, NEW u \in Tunnel, NEW now \in Nat, NEW c \in Nat, Sends(t, u, now),
           Sound(u, now, c),
           NEW name \in TimerNames \ {"TimeLastHandshakeStarted", "TimeSessionEstablished"}
    PROVE  Sends(t, Tick(u, name), now)
<1> DEFINE v == Tick(u, name)
<1>1. /\ v \in Tunnel /\ SameKeys(u, v)
      /\ Stamp(v, name) = Stamp(u, "TimeCurrent")
      /\ \A n \in TimerNames : n # name => Stamp(v, n) = Stamp(u, n)
      /\ Stamp(v, "TimeCurrent") = Stamp(u, "TimeCurrent")
  BY TickFacts
<1> HIDE DEF v
<1>2. \A n \in TimerNames : Stamp(t, n) \in Nat /\ Stamp(u, n) \in Nat /\ Stamp(v, n) \in Nat
  BY <1>1, TunnelParts
<1>3. \A n \in TimerNames : Stamp(u, n) <= Stamp(v, n)
  BY <1>1, <1>2, Names DEF Sound, Stamped
<1>4. \A n \in TimerNames : Stamp(t, n) <= Stamp(v, n)
  BY <1>2, <1>3 DEF Sends
<1>5. InProgress(v) <=> InProgress(u)
  BY <1>1 DEF InProgress, SameKeys
<1>6. /\ Stamp(v, "TimeLastHandshakeStarted") = Stamp(u, "TimeLastHandshakeStarted")
      /\ Stamp(v, "TimeSessionEstablished") = Stamp(u, "TimeSessionEstablished")
  BY <1>1, Names
<1> QED
  BY <1>1, <1>4, <1>5, <1>6 DEF Sends, SameKeys, Current, v

\* Before it is sent, a packet may be put in the queue.
LEMMA SendsAfter ==
    ASSUME NEW t, NEW e, NEW u, NEW now, SameKeys(t, e), SameStamps(t, e), Sends(e, u, now)
    PROVE  Sends(t, u, now)
<1>1. \A n \in TimerNames : Stamp(e, n) = Stamp(t, n)
  BY DEF SameStamps, Stamp
<1>2. InProgress(e) <=> InProgress(t)
  BY DEF InProgress, SameKeys
<1> QED
  BY <1>1, <1>2, Names DEF Sends, SameKeys, Current

\* The packet queue and nothing else.
LEMMA QueueSet ==
    ASSUME NEW t \in Tunnel, NEW q \in SUBSET Kinds
    PROVE  /\ [t EXCEPT !.packet_queue = q] \in Tunnel
           /\ SameKeys(t, [t EXCEPT !.packet_queue = q])
           /\ SameStamps(t, [t EXCEPT !.packet_queue = q])
BY DEF Tunnel, SameKeys, SameStamps

\* A packet is sealed with the current session.
LEMMA SealedSends ==
    ASSUME NEW t \in Tunnel, NEW kind \in Kinds, NEW now \in Nat, NEW c \in Nat,
           Sound(t, now, c)
    PROVE  /\ Sends(t, Sealed(t, kind), now) /\ Sound(Sealed(t, kind), now, c)
           /\ SameKeys(t, Sealed(t, kind))
           /\ kind = "data" => Stamp(Sealed(t, kind), "TimeLastDataPacketSent")
                                 = Stamp(Sealed(t, kind), "TimeCurrent")
<1> DEFINE u == Tick(t, "TimeLastPacketSent")
           v == Tick(u, "TimeLastDataPacketSent")
<1>1. Sends(t, t, now)
  BY SendsNothing DEF SameKeys, SameStamps
<1>2. u \in Tunnel /\ Sound(u, now, c) /\ SameKeys(t, u) /\ Sends(t, u, now)
  BY <1>1, TickFacts, TickSound, SendsTick, Names
<1> HIDE DEF u
<1>3. v \in Tunnel /\ Sound(v, now, c) /\ SameKeys(u, v) /\ Sends(t, v, now)
  BY <1>2, TickFacts, TickSound, SendsTick, Names
<1>4. Stamp(v, "TimeLastDataPacketSent") = Stamp(v, "TimeCurrent")
  BY <1>2, TickFacts, Names
<1> HIDE DEF v
<1>5. CASE kind = "data"
  <2>1. Sealed(t, kind) = v
    BY <1>5 DEF Sealed, v, u
  <2> QED
    BY <1>2, <1>3, <1>4, <2>1 DEF SameKeys
<1>6. CASE kind # "data"
  <2>1. Sealed(t, kind) = u
    BY <1>6 DEF Sealed, u
  <2> QED
    BY <1>2, <1>6, <2>1
<1> QED
  BY <1>5, <1>6

\* An initiation unless one is under way.
LEMMA StartIfIdleSends ==
    ASSUME NEW t \in Tunnel, NEW now \in Nat, NEW c \in Nat, Sound(t, now, c), c <= now
    PROVE  /\ Sends(t, StartIfIdle(t, now), now) /\ Sound(StartIfIdle(t, now), now, c)
           /\ InProgress(t) => StartIfIdle(t, now) = t
<1>1. CASE InProgress(t)
  BY <1>1, SendsNothing DEF StartIfIdle, SameKeys, SameStamps
<1>2. CASE ~InProgress(t)
  BY <1>2, StartSends DEF StartIfIdle
<1> QED
  BY <1>1, <1>2

\* encapsulate, with and without a session.
LEMMA EncapsulatedSends ==
    ASSUME NEW t \in Tunnel, NEW kind \in Kinds, NEW now \in Nat, NEW c \in Nat,
           Sound(t, now, c), c <= now
    PROVE  /\ Sends(t, Encapsulated(t, kind, now), now)
           /\ Sound(Encapsulated(t, kind, now), now, c)
           /\ HasSession(t) /\ kind = "data" =>
                  Stamp(Encapsulated(t, kind, now), "TimeLastDataPacketSent")
                    = Stamp(Encapsulated(t, kind, now), "TimeCurrent")
           /\ HasSession(t) => SameKeys(t, Encapsulated(t, kind, now))
           /\ ~HasSession(t) /\ InProgress(t) =>
                  /\ SameKeys(t, Encapsulated(t, kind, now))
                  /\ SameStamps(t, Encapsulated(t, kind, now))
<1>1. CASE HasSession(t)
  <2>1. Encapsulated(t, kind, now) = Sealed(t, kind)
    BY <1>1 DEF Encapsulated
  <2> QED
    BY <1>1, <2>1, SealedSends
<1>2. CASE ~HasSession(t)
  <2> DEFINE q == t.packet_queue \cup {kind}
             e == [t EXCEPT !.packet_queue = q]
  <2>1. q \in SUBSET Kinds
    BY TunnelParts
  <2>2. Encapsulated(t, kind, now) = StartIfIdle(e, now)
    BY <1>2 DEF Encapsulated
  <2> HIDE DEF q
  <2>3. e \in Tunnel /\ SameKeys(t, e) /\ SameStamps(t, e)
    BY <2>1, QueueSet
  <2> HIDE DEF e
  <2>4. Sound(e, now, c)
    BY <2>3, SameSound
  <2>5. /\ Sends(e, StartIfIdle(e, now), now) /\ Sound(StartIfIdle(e, now), now, c)
        /\ InProgress(e) => StartIfIdle(e, now) = e
    BY <2>3, <2>4, StartIfIdleSends
  <2>6. Sends(t, StartIfIdle(e, now), now)
    BY <2>3, <2>5, SendsAfter
  <2>7. InProgress(e) <=> InProgress(t)
    BY <2>3 DEF InProgress, SameKeys
  <2> QED
    BY <1>2, <2>2, <2>3, <2>5, <2>6, <2>7
<1> QED
  BY <1>1, <1>2

\* The loop over send_queued_packet.
LEMMA FlushedSends ==
    ASSUME NEW t \in Tunnel, NEW now \in Nat, NEW c \in Nat, Sound(t, now, c), c <= now
    PROVE  Sends(t, Flushed(t, now), now) /\ Sound(Flushed(t, now), now, c)
<1>1. CASE t.packet_queue = {}
  BY <1>1, SendsNothing DEF Flushed, SameKeys, SameStamps
<1>2. CASE t.packet_queue # {} /\ HasSession(t)
  <2> DEFINE kind == IF SealsQueuedData(t) THEN "data" ELSE "empty"
             u == Sealed(t, kind)
             q == {}
             v == [u EXCEPT !.packet_queue = q]
  <2>1. kind \in Kinds
    BY DEF Kinds
  <2>2. Flushed(t, now) = v
    BY <1>2 DEF Flushed
  <2> HIDE DEF kind
  <2>3. Sends(t, u, now) /\ Sound(u, now, c) /\ SameKeys(t, u)
    BY <2>1, SealedSends
  <2>4. u \in Tunnel /\ q \in SUBSET Kinds
    BY <2>3 DEF Sends
  <2> HIDE DEF u, q
  <2>5. v \in Tunnel /\ SameKeys(u, v) /\ SameStamps(u, v)
    BY <2>4, QueueSet
  <2> HIDE DEF v
  <2>6. Sound(v, now, c)
    BY <2>3, <2>5, SameSound
  <2>7. \A n \in TimerNames : Stamp(v, n) = Stamp(u, n)
    BY <2>5 DEF SameStamps, Stamp
  <2>8. InProgress(v) <=> InProgress(u)
    BY <2>5 DEF InProgress, SameKeys
  <2>9. Sends(t, v, now)
    BY <2>3, <2>5, <2>7, <2>8, Names DEF Sends, SameKeys, Current
  <2> QED
    BY <2>2, <2>6, <2>9
<1>3. CASE t.packet_queue # {} /\ ~HasSession(t)
  <2>1. Flushed(t, now) = StartIfIdle(t, now)
    BY <1>3 DEF Flushed
  <2> QED
    BY <2>1, StartIfIdleSends
<1> QED
  BY <1>1, <1>2, <1>3

\* set_current_session.
LEMMA CurrentSet ==
    ASSUME NEW t \in Tunnel, NEW slot \in Slots
    PROVE  /\ SetCurrent(t, slot) \in Tunnel
           /\ SameKeys(t, SetCurrent(t, slot)) /\ SameStamps(t, SetCurrent(t, slot))
<1>1. /\ [t EXCEPT !.current = slot] \in Tunnel
      /\ SameKeys(t, [t EXCEPT !.current = slot]) /\ SameStamps(t, [t EXCEPT !.current = slot])
  BY DEF Tunnel, SameKeys, SameStamps
<1>2. SameKeys(t, t) /\ SameStamps(t, t)
  BY DEF SameKeys, SameStamps
<1> QED
  BY <1>1, <1>2 DEF SetCurrent

\* u is t with its session in slot.
Gains(t, u, slot) ==
    /\ u \in Tunnel
    /\ u.sessions = t.sessions \cup {slot}
    /\ u.session_timers = [t.session_timers EXCEPT ![slot] = Stamp(t, "TimeCurrent")]
    /\ \A n \in TimerNames : Stamp(t, n) <= Stamp(u, n)
    /\ Current(u) = Current(t)
    /\ \/ u.state = None
       \/ /\ InProgress(u) /\ u.state = t.state
          /\ Stamp(u, "TimeLastHandshakeStarted") = Stamp(t, "TimeLastHandshakeStarted")

\* The stamp of an establishment and the session in its slot.
LEMMA EstablishedFacts ==
    ASSUME NEW t \in Tunnel, NEW slot \in Slots, NEW b \in BOOLEAN, NEW now \in Nat, NEW c \in Nat,
           Sound(t, now, c), t.state # Expired
    PROVE  /\ Sound(SessionEstablished(t, slot, b), now, c)
           /\ SessionEstablished(t, slot, b) \in Tunnel
           /\ SessionEstablished(t, slot, b).sessions = t.sessions \cup {slot}
           /\ SessionEstablished(t, slot, b).session_timers
                = [t.session_timers EXCEPT ![slot] = Stamp(t, "TimeCurrent")]
           /\ SessionEstablished(t, slot, b).state = t.state
           /\ \A n \in TimerNames : Stamp(t, n) <= Stamp(SessionEstablished(t, slot, b), n)
           /\ Stamp(SessionEstablished(t, slot, b), "TimeLastHandshakeStarted")
                = Stamp(t, "TimeLastHandshakeStarted")
           /\ Current(SessionEstablished(t, slot, b)) = Current(t)
<1> DEFINE u == Tick(t, "TimeSessionEstablished")
           ss == u.sessions \cup {slot}
           ts == [u.session_timers EXCEPT ![slot] = u.timers["TimeCurrent"]]
           v == [u EXCEPT !.sessions = ss, !.session_timers = ts, !.is_initiator = b]
<1>1. /\ u \in Tunnel /\ SameKeys(t, u) /\ Sound(u, now, c)
      /\ Stamp(u, "TimeSessionEstablished") = Stamp(t, "TimeCurrent")
      /\ \A n \in TimerNames : n # "TimeSessionEstablished" => Stamp(u, n) = Stamp(t, n)
      /\ Stamp(u, "TimeCurrent") = Stamp(t, "TimeCurrent")
  BY TickFacts, TickSound, Names
<1>2. SessionEstablished(t, slot, b) = v
  BY <1>1 DEF SessionEstablished, Tunnel
<1> HIDE DEF u
<1>3. ss \in SUBSET Slots /\ ts \in [Slots -> Nat]
  BY <1>1, TunnelParts, Names
<1>4. ss = t.sessions \cup {slot}
  BY <1>1 DEF SameKeys
<1>5. ts = [t.session_timers EXCEPT ![slot] = Stamp(t, "TimeCurrent")]
  BY <1>1 DEF SameKeys, Stamp
<1>6. ts[slot] = Stamp(t, "TimeCurrent") /\ \A s \in Slots : s # slot => ts[s] = t.session_timers[s]
  BY <1>5, TunnelParts
<1> HIDE DEF ss, ts
<1>7. /\ v \in Tunnel /\ v.sessions = ss /\ v.session_timers = ts
      /\ v.state = u.state /\ v.previous = u.previous /\ SameStamps(u, v)
  BY <1>1, <1>3 DEF Tunnel, SameStamps
<1> HIDE DEF v
<1>8. \A n \in TimerNames : Stamp(v, n) = Stamp(u, n) /\ Stamp(v, n) \in Nat /\ Stamp(t, n) \in Nat
  BY <1>7, TunnelParts DEF SameStamps, Stamp
<1>9. \A n \in TimerNames : Stamp(t, n) <= Stamp(v, n) /\ Stamp(v, n) <= Stamp(v, "TimeCurrent")
  BY <1>1, <1>8, Names DEF Sound, Stamped
<1>10. \A s \in Slots : ts[s] \in Nat /\ ts[s] <= Stamp(v, "TimeCurrent")
  BY <1>1, <1>3, <1>6, <1>8, Names DEF Sound, Stamped
<1>11. Stamped(v, now, c)
  BY <1>1, <1>7, <1>8, <1>9, <1>10, Names DEF Sound, Stamped
<1>12. Asked(v) /\ Emptied(v)
  BY <1>1, <1>7, <1>8, Names DEF Sound, Asked, Emptied, SameKeys, SameStamps
<1>13. Aged(v, c)
  <2> SUFFICES ASSUME NEW s \in v.sessions
               PROVE  /\ v.session_timers[s] <= Stamp(v, "TimeSessionEstablished")
                      /\ c <= v.session_timers[s] + REJECT_AFTER_TIME
    BY DEF Aged
  <2>1. s \in Slots /\ v.session_timers[s] = ts[s]
    BY <1>3, <1>7
  <2>2. Stamp(v, "TimeSessionEstablished") = Stamp(v, "TimeCurrent")
    BY <1>1, <1>8, Names
  <2>3. CASE s = slot
    BY <1>1, <1>6, <1>8, <1>10, <1>11, <2>1, <2>2, <2>3, Intervals, Names DEF Stamped
  <2>4. CASE s # slot
    <3>1. s \in t.sessions /\ ts[s] = t.session_timers[s]
      BY <1>4, <1>6, <1>7, <2>1, <2>4
    <3> QED
      BY <1>10, <2>1, <2>2, <3>1 DEF Sound, Aged
  <2> QED
    BY <2>3, <2>4
<1>14. /\ Stamp(v, "TimeLastHandshakeStarted") = Stamp(t, "TimeLastHandshakeStarted")
       /\ Current(v) = Current(t)
  BY <1>1, <1>8, Names DEF Current
<1> QED
  BY <1>1, <1>2, <1>4, <1>5, <1>7, <1>9, <1>11, <1>12, <1>13, <1>14 DEF Sound, SameKeys

\* What sets handshakes and leaves the tunnel alive keeps the stamps sound.
LEMMA StateSound ==
    ASSUME NEW t, NEW u, NEW now, NEW c, Sound(t, now, c), SameStamps(t, u),
           u.sessions = t.sessions, u.session_timers = t.session_timers,
           u.state # Expired
    PROVE  Sound(u, now, c)
BY DEF Sound, Stamped, Asked, Emptied, Aged, SameStamps, Stamp

\* A valid packet has arrived.
LEMMA ReceivedSound ==
    ASSUME NEW t \in Tunnel, NEW now \in Nat, NEW c \in Nat, Sound(t, now, c)
    PROVE  /\ Tick(t, "TimeLastPacketReceived") \in Tunnel
           /\ Sound(Tick(t, "TimeLastPacketReceived"), now, c)
           /\ SameKeys(t, Tick(t, "TimeLastPacketReceived"))
           /\ Tick(t, "TimeLastPacketReceived").want_keepalive
           /\ \A n \in TimerNames \ {"TimeLastPacketReceived"} :
                  Stamp(Tick(t, "TimeLastPacketReceived"), n) = Stamp(t, n)
           /\ \A n \in TimerNames : Stamp(t, n) <= Stamp(Tick(t, "TimeLastPacketReceived"), n)
<1> DEFINE u == Tick(t, "TimeLastPacketReceived")
<1>1. /\ u \in Tunnel /\ Sound(u, now, c) /\ SameKeys(t, u) /\ u.want_keepalive
      /\ \A n \in TimerNames \ {"TimeLastPacketReceived"} : Stamp(u, n) = Stamp(t, n)
      /\ Stamp(u, "TimeLastPacketReceived") = Stamp(t, "TimeCurrent")
  BY ZenonT(40), TickFacts, TickSound, Names
<1> HIDE DEF u
<1>2. \A n \in TimerNames : Stamp(t, n) \in Nat /\ Stamp(u, n) \in Nat
  BY <1>1, TunnelParts
<1>3. \A n \in TimerNames : Stamp(t, n) <= Stamp(u, n)
  BY <1>1, <1>2, Names DEF Sound, Stamped
<1> QED
  BY <1>1, <1>3 DEF u

\* handle_handshake_init: the responder has a session and no handshake.
LEMMA RespondedGains ==
    ASSUME NEW t \in Tunnel, NEW now \in Nat, NEW c \in Nat, Sound(t, now, c)
    PROVE  /\ Gains(t, Responded(t), Responded(t).next_index)
           /\ Sound(Responded(t), now, c)
           /\ Responded(t).next_index \in Slots
<1> DEFINE i == (t.next_index + 1) % N_SESSIONS
           last == t.state
           e == [t EXCEPT !.next_index = i, !.previous = last, !.state = None,
                          !.last_mac1 = TRUE]
           u == Tick(e, "TimeLastPacketReceived")
           v == Tick(u, "TimeLastPacketSent")
           w == SessionEstablished(v, i, FALSE)
<1>1. i \in Slots
  <2>1. t.next_index \in Nat /\ N_SESSIONS \in Nat /\ N_SESSIONS > 0
    BY TunnelParts, Intervals DEF Slots
  <2> QED
    BY <2>1 DEF Slots
<1>2. last \in Handshakes /\ None \in Handshakes /\ None # Expired
  BY TunnelParts, HandshakeKinds
<1>3. Responded(t) = w
  BY DEF Responded
<1> HIDE DEF i, last
<1>4. /\ e \in Tunnel /\ SameStamps(t, e) /\ e.next_index = i
      /\ e.sessions = t.sessions /\ e.session_timers = t.session_timers
      /\ e.state = None /\ e.previous = last
  <2>1. e = [t EXCEPT !.next_index = i, !.previous = last, !.state = None,
                      !.last_mac1 = TRUE]
    OBVIOUS
  <2> HIDE DEF e
  <2> QED
    BY <1>1, <1>2, <2>1 DEF Tunnel, SameStamps
<1> HIDE DEF e
<1>5. Sound(e, now, c)
  BY <1>2, <1>4, StateSound
<1>6. \A n \in TimerNames : Stamp(e, n) = Stamp(t, n)
  BY <1>4 DEF SameStamps, Stamp
<1>7. /\ u \in Tunnel /\ Sound(u, now, c) /\ SameKeys(e, u)
      /\ \A n \in TimerNames : Stamp(e, n) <= Stamp(u, n)
      /\ Stamp(u, "TimeCurrent") = Stamp(e, "TimeCurrent")
  BY <1>4, <1>5, ReceivedSound, Names
<1>8. u.next_index = i
  BY <1>4 DEF Tick, Tunnel
<1> HIDE DEF u
<1>9. /\ v \in Tunnel /\ Sound(v, now, c) /\ SameKeys(u, v)
      /\ Stamp(v, "TimeCurrent") = Stamp(u, "TimeCurrent")
  BY <1>7, TickFacts, TickSound, Names
<1>10. v.next_index = i
  BY <1>7, <1>8 DEF Tick, Tunnel
<1>11. \A n \in TimerNames : Stamp(u, n) <= Stamp(v, n)
  <2>1. Sends(u, v, now)
    <3>1. Sends(u, u, now)
      BY <1>7, SendsNothing DEF SameKeys, SameStamps
    <3> QED
      BY <1>7, <3>1, SendsTick, Names
  <2> QED
    BY <2>1 DEF Sends
<1> HIDE DEF v
<1>12. v.state = None
  BY <1>4, <1>7, <1>9 DEF SameKeys
<1>13. /\ Sound(w, now, c) /\ w \in Tunnel
       /\ w.sessions = v.sessions \cup {i}
       /\ w.session_timers = [v.session_timers EXCEPT ![i] = Stamp(v, "TimeCurrent")]
       /\ w.state = v.state
       /\ \A n \in TimerNames : Stamp(v, n) <= Stamp(w, n)
       /\ Current(w) = Current(v)
  BY <1>1, <1>2, <1>9, <1>12, EstablishedFacts
<1>14. w.next_index = i
  <2> DEFINE x == Tick(v, "TimeSessionEstablished")
  <2>1. x \in Tunnel /\ x.next_index = i
    <3>1. x.next_index = v.next_index
      BY <1>9 DEF Tick, Tunnel
    <3> QED
      BY <1>9, <1>10, <3>1, TickFacts, Names
  <2>2. w = [x EXCEPT !.sessions = x.sessions \cup {i},
                      !.session_timers = [x.session_timers EXCEPT ![i] = x.timers["TimeCurrent"]],
                      !.is_initiator = FALSE]
    BY <2>1 DEF SessionEstablished, Tunnel
  <2> HIDE DEF x
  <2> QED
    BY <2>1, <2>2 DEF Tunnel
<1> HIDE DEF w
<1>15. \A n \in TimerNames : Stamp(t, n) <= Stamp(w, n)
  <2>1. \A n \in TimerNames : /\ Stamp(t, n) \in Nat /\ Stamp(u, n) \in Nat
                              /\ Stamp(v, n) \in Nat /\ Stamp(w, n) \in Nat
    BY <1>7, <1>9, <1>13, TunnelParts
  <2> QED
    BY <1>6, <1>7, <1>11, <1>13, <2>1
<1>16. w.sessions = t.sessions \cup {i}
  BY <1>4, <1>7, <1>9, <1>13 DEF SameKeys
<1>17. w.session_timers = [t.session_timers EXCEPT ![i] = Stamp(t, "TimeCurrent")]
  BY <1>4, <1>6, <1>7, <1>9, <1>13, Names DEF SameKeys
<1>18. Current(w) = Current(t)
  BY <1>6, <1>7, <1>9, <1>13, Names DEF Current
<1>19. Gains(t, w, i)
  BY <1>12, <1>13, <1>15, <1>16, <1>17, <1>18 DEF Gains
<1> QED
  BY <1>1, <1>3, <1>13, <1>14, <1>19

\* handle_handshake_response: the initiator has a session in the slot of the
\* handshake h that is answered; another one may still be under way.
LEMMA AnsweredGains ==
    ASSUME NEW t \in Tunnel, NEW now \in Nat, NEW c \in Nat, Sound(t, now, c),
           NEW h \in {t.state, t.previous}, h.tag = "InitSent"
    PROVE  /\ Gains(t, Answered(t, h), h.slot)
           /\ Sound(Answered(t, h), now, c)
           /\ h.slot \in Slots
<1> DEFINE r == Tick(t, "TimeLastPacketReceived")
           i == h.slot
           e == IF h = t.state THEN [t EXCEPT !.state = None] ELSE [t EXCEPT !.previous = None]
           u == Tick(e, "TimeLastPacketReceived")
           v == SessionEstablished(u, i, TRUE)
           w == SetCurrent(v, i)
<1>1. h \in Handshakes /\ t.state \in Handshakes /\ t.previous \in Handshakes /\ i \in Slots
  BY TunnelParts, HandshakeKinds
<1>2. Answered(t, h) = w
  BY DEF Answered
<1>3. h # None /\ h # Expired /\ None \in Handshakes /\ None # Expired
  BY HandshakeKinds
<1>4. t.state # Expired
  BY <1>3 DEF Sound, Emptied
<1>5. /\ e \in Tunnel /\ SameStamps(t, e)
      /\ e.sessions = t.sessions /\ e.session_timers = t.session_timers
      /\ e.state = None \/ (h # t.state /\ e.state = t.state)
  <2>1. CASE h = t.state
    <3>1. e = [t EXCEPT !.state = None]
      BY <2>1
    <3> HIDE DEF e
    <3> QED
      BY <1>3, <3>1 DEF Tunnel, SameStamps
  <2>2. CASE h # t.state
    <3>1. e = [t EXCEPT !.previous = None]
      BY <2>2
    <3> HIDE DEF e
    <3> QED
      BY <1>3, <2>2, <3>1 DEF Tunnel, SameStamps
  <2> QED
    BY <2>1, <2>2
<1> HIDE DEF e, i
<1>6. e.state # Expired
  BY <1>3, <1>4, <1>5
<1>7. Sound(e, now, c)
  BY <1>5, <1>6, StateSound
<1>8. \A n \in TimerNames : Stamp(e, n) = Stamp(t, n)
  BY <1>5 DEF SameStamps, Stamp
<1>9. /\ u \in Tunnel /\ Sound(u, now, c) /\ SameKeys(e, u)
      /\ \A n \in TimerNames : Stamp(e, n) <= Stamp(u, n)
      /\ Stamp(u, "TimeCurrent") = Stamp(e, "TimeCurrent")
      /\ Stamp(u, "TimeLastHandshakeStarted") = Stamp(e, "TimeLastHandshakeStarted")
  BY <1>5, <1>7, ReceivedSound, Names
<1> HIDE DEF u
<1>10. u.state = e.state
  BY <1>9 DEF SameKeys
<1>11. /\ Sound(v, now, c) /\ v \in Tunnel
       /\ v.sessions = u.sessions \cup {i}
       /\ v.session_timers = [u.session_timers EXCEPT ![i] = Stamp(u, "TimeCurrent")]
       /\ v.state = u.state
       /\ \A n \in TimerNames : Stamp(u, n) <= Stamp(v, n)
       /\ Stamp(v, "TimeLastHandshakeStarted") = Stamp(u, "TimeLastHandshakeStarted")
       /\ Current(v) = Current(u)
  BY <1>1, <1>6, <1>9, <1>10, EstablishedFacts
<1> HIDE DEF v
<1>12. w \in Tunnel /\ SameKeys(v, w) /\ SameStamps(v, w)
  BY <1>1, <1>11, CurrentSet
<1> HIDE DEF w
<1>13. Sound(w, now, c)
  BY <1>11, <1>12, SameSound
<1>14. \A n \in TimerNames : Stamp(w, n) = Stamp(v, n)
  BY <1>12 DEF SameStamps, Stamp
<1>15. \A n \in TimerNames : Stamp(t, n) <= Stamp(w, n)
  <2>1. \A n \in TimerNames : /\ Stamp(t, n) \in Nat /\ Stamp(u, n) \in Nat
                              /\ Stamp(v, n) \in Nat /\ Stamp(w, n) \in Nat
    BY <1>9, <1>11, <1>12, TunnelParts
  <2> QED
    BY <1>8, <1>9, <1>11, <1>14, <2>1
<1>16. w.sessions = t.sessions \cup {i}
  BY <1>5, <1>9, <1>11, <1>12 DEF SameKeys
<1>17. w.session_timers = [t.session_timers EXCEPT ![i] = Stamp(t, "TimeCurrent")]
  BY <1>5, <1>8, <1>9, <1>11, <1>12, Names DEF SameKeys
<1>18. w.state = e.state
  BY <1>10, <1>11, <1>12 DEF SameKeys
<1>19. /\ Stamp(w, "TimeLastHandshakeStarted") = Stamp(t, "TimeLastHandshakeStarted")
       /\ Current(w) = Current(t)
  BY <1>8, <1>9, <1>11, <1>14, Names DEF Current
<1>20. w.state = None \/ (InProgress(w) /\ w.state = t.state)
  <2>1. w.state = None \/ w.state = t.state
    BY <1>5, <1>18
  <2>2. t.state # None => t.state.tag = "InitSent"
    BY <1>1, <1>4, HandshakeKinds
  <2> QED
    BY <2>1, <2>2 DEF InProgress
<1>21. Gains(t, w, i)
  BY <1>12, <1>15, <1>16, <1>17, <1>19, <1>20 DEF Gains
<1> QED
  BY <1>1, <1>2, <1>13, <1>21 DEF i

-----------------------------------------------------------------------------
(* Steps between two calls of update_timers.                               *)

\* What is sent leaves handshakes as old as the last call let them become.
LEMMA SendsTried ==
    ASSUME NEW t \in Tunnel, NEW u, NEW now \in Nat, NEW c \in Nat,
           Sends(t, u, now), Sound(u, now, c), Tried(t, now, c), c <= now
    PROVE  Tried(u, now, c)
<1> SUFFICES ASSUME InProgress(u)
             PROVE  /\ c < Stamp(u, "TimeLastHandshakeStarted") + REKEY_ATTEMPT_TIME
                    /\ c < u.state.time_sent + REKEY_TIMEOUT
                    /\ u.state.time_sent <= now
  BY DEF Tried
<1>1. /\ u \in Tunnel /\ Stamp(u, "TimeLastHandshakeStarted") \in Nat
      /\ Stamp(u, "TimeCurrent") \in Nat
  BY TunnelParts, Names DEF Sends
<1>2. c < Stamp(u, "TimeLastHandshakeStarted") + REKEY_ATTEMPT_TIME
  <2>1. CASE InProgress(t)
    BY <2>1 DEF Sends, Tried
  <2>2. CASE ~InProgress(t)
    <3>1. c <= Stamp(u, "TimeLastHandshakeStarted")
      BY <2>2 DEF Sends, Sound, Stamped
    <3> QED
      BY <1>1, <3>1, Intervals
  <2> QED
    BY <2>1, <2>2
<1>3. c < u.state.time_sent + REKEY_TIMEOUT /\ u.state.time_sent <= now
  <2>1. CASE u.state = t.state
    BY <2>1 DEF Tried, InProgress
  <2>2. CASE u.state # t.state
    BY <2>2, Intervals DEF Sends
  <2> QED
    BY <2>1, <2>2
<1> QED
  BY <1>2, <1>3

\* What the history records of a step that sends: q is the history after it.
Records(t, u, p, q, now) ==
    /\ q.made = p.made /\ q.heard = p.heard
    /\ \/ q.sent = now
       \/ q.sent = p.sent /\ SameKeys(t, u) /\ SameStamps(t, u)
    /\ \/ q.used = p.used
       \/ q.used = now /\ Stamp(u, "TimeLastDataPacketSent") = Stamp(u, "TimeCurrent")
    /\ q.trying = IF InProgress(u) /\ ~InProgress(t) THEN now ELSE p.trying

\* A step that sends keeps the stamps close to the history.
LEMMA SendsTracked ==
    ASSUME NEW t \in Tunnel, NEW u, NEW p \in Past, NEW q \in Past, NEW m, NEW now \in Nat, NEW c \in Nat,
           Sends(t, u, now), Sound(u, now, c), Tracked(t, p, m, now), Records(t, u, p, q, now),
           now <= c + MaxLate
    PROVE  Tracked(u, q, m, now)
<1>1. /\ u \in Tunnel
      /\ \A n \in TimerNames : Stamp(t, n) \in Nat /\ Stamp(u, n) \in Nat /\ Stamp(u, n) <= now
  BY TunnelParts, Names DEF Sends, Sound, Stamped
<1>2. /\ p.sent \in Nat /\ p.used \in Nat /\ p.heard \in Nat /\ p.trying \in Nat
      /\ q.sent \in Nat /\ q.used \in Nat /\ q.heard \in Nat /\ q.trying \in Nat
  BY PastParts
<1>3. /\ \A s \in u.sessions : /\ u.session_timers[s] <= q.made[s]
                               /\ q.made[s] <= u.session_timers[s] + MaxLate
      /\ \A s \in Slots : q.made[s] <= now
  BY DEF Sends, Tracked, Records
<1>4. q.sent <= now /\ q.heard <= now /\ q.used <= now
  BY <1>2 DEF Tracked, Records
<1>5. q.heard <= Stamp(u, "TimeLastDataPacketReceived") + MaxLate
  BY <1>1, <1>2, Intervals, Names DEF Sends, Tracked, Records
<1>6. q.used <= Stamp(u, "TimeLastDataPacketSent") + MaxLate
  <2>1. CASE q.used = p.used
    BY <1>1, <1>2, <2>1, Intervals, Names DEF Sends, Tracked
  <2>2. CASE q.used = now /\ Stamp(u, "TimeLastDataPacketSent") = Stamp(u, "TimeCurrent")
    <3>1. c <= Stamp(u, "TimeCurrent")
      BY DEF Sound, Stamped
    <3> QED
      BY <1>1, <2>2, <3>1, Intervals, Names
  <2> QED
    BY <2>1, <2>2 DEF Records
<1>7. /\ u.sessions # {} => Stamp(u, "TimeLastPacketSent") <= q.sent
      /\ u.state # Expired => Stamp(u, "TimePersistentKeepalive") <= q.sent
  <2>1. CASE q.sent = now
    BY <1>1, <2>1, Names
  <2>2. CASE q.sent = p.sent /\ SameKeys(t, u) /\ SameStamps(t, u)
    BY <2>2 DEF Tracked, SameKeys, SameStamps, Stamp
  <2> QED
    BY <2>1, <2>2 DEF Records
<1>8. u.state = None => Stamp(u, "TimeSessionEstablished") <= m
  <2>1. u.state = None => u.state = t.state
    BY HandshakeKinds DEF Sends, InProgress
  <2> QED
    BY <2>1, HandshakeKinds DEF Sends, Tracked
<1>9. ASSUME InProgress(u)
      PROVE  Stamp(u, "TimeLastHandshakeStarted") <= q.trying
  <2>1. CASE InProgress(t)
    BY <1>9, <2>1 DEF Sends, Tracked, Records
  <2>2. CASE ~InProgress(t)
    BY <1>1, <1>9, <2>2, Names DEF Records
  <2> QED
    BY <2>1, <2>2
<1>10. ASSUME InProgress(u)
       PROVE  u.state.time_sent <= q.sent
  <2>1. CASE u.state # t.state
    <3>1. ~SameKeys(t, u)
      BY <2>1 DEF SameKeys
    <3> QED
      BY <2>1, <3>1 DEF Sends, Records
  <2>2. CASE u.state = t.state
    <3>1. t.state.time_sent <= p.sent /\ u.state.time_sent \in Nat
      BY <1>1, <1>10, <2>2, TunnelParts, HandshakeKinds DEF Tracked, InProgress
    <3>2. p.sent <= q.sent
      BY <1>2 DEF Tracked, Records
    <3> QED
      BY <1>2, <2>2, <3>1, <3>2
  <2> QED
    BY <2>1, <2>2
<1> QED
  BY <1>3, <1>4, <1>5, <1>6, <1>7, <1>8, <1>9, <1>10 DEF Tracked

\* What was sent now is answer enough.
LEMMA JustSent ==
    ASSUME NEW u, NEW q \in Past, NEW now \in Nat, NEW c \in Nat,
           q.sent = now, q.heard <= now, c <= now
    PROVE  Heeded(u, q, c) /\ KeptOpen(u, q, c)
BY PastParts, Intervals DEF Heeded, KeptOpen

\* A step that sends leaves nothing undone that the last call had seen to.
LEMMA SendsServed ==
    ASSUME NEW t \in Tunnel, NEW u, NEW p \in Past, NEW q \in Past, NEW m, NEW now \in Nat, NEW c \in Nat,
           Sends(t, u, now), Tracked(t, p, m, now), Served(t, p, m, c), Records(t, u, p, q, now),
           c <= now
    PROVE  Served(u, q, m, c)
<1>1. /\ p.sent \in Nat /\ p.used \in Nat /\ p.heard \in Nat
      /\ q.sent \in Nat /\ q.used \in Nat /\ q.heard \in Nat
  BY PastParts
<1>2. q.heard <= now
  BY DEF Tracked, Records
<1>3. Heeded(u, q, c) /\ KeptOpen(u, q, c)
  <2>1. CASE q.sent = now
    BY <1>2, <2>1, JustSent
  <2>2. CASE q.sent = p.sent /\ SameKeys(t, u)
    BY <2>2 DEF Served, Heeded, KeptOpen, Records, SameKeys
  <2> QED
    BY <2>1, <2>2 DEF Records
<1>4. Renewed(u, q, m, c)
  <2>1. u.state = None => t.state = None
    BY HandshakeKinds DEF Sends, InProgress
  <2>2. q.used = p.used \/ c <= q.used
    BY DEF Records
  <2> QED
    BY <2>1, <2>2 DEF Served, Renewed, Sends
<1> QED
  BY <1>3, <1>4 DEF Served

\* A handshake has ended with a session in slot, and the queue is sent.
LEMMA GainsKeeps ==
    ASSUME NEW r \in Tunnel, NEW t, NEW u, NEW slot \in Slots, NEW p \in Past, NEW q \in Past,
           NEW m, NEW now \in Nat, NEW c \in Nat, c <= now, now <= c + MaxLate,
           Sound(r, now, c), Tried(r, now, c), Tracked(r, p, m, now),
           Gains(r, t, slot), Sound(t, now, c), Sends(t, u, now), Sound(u, now, c),
           q.made = [p.made EXCEPT ![slot] = now], q.sent = now, q.heard = p.heard,
           q.used = p.used,
           q.trying = IF InProgress(u) /\ ~InProgress(t) THEN now ELSE p.trying
    PROVE  Tried(u, now, c) /\ Tracked(u, q, now, now) /\ Served(u, q, now, c)
<1>1. /\ t \in Tunnel /\ u \in Tunnel
      /\ \A n \in TimerNames : /\ Stamp(r, n) \in Nat /\ Stamp(t, n) \in Nat /\ Stamp(u, n) \in Nat
                               /\ Stamp(u, n) <= now
  BY TunnelParts, Names DEF Gains, Sends, Sound, Stamped
<1>2. /\ p.sent \in Nat /\ p.used \in Nat /\ p.heard \in Nat /\ p.trying \in Nat
      /\ \A s \in Slots : p.made[s] \in Nat
      /\ p.made \in [Slots -> Time]
  BY PastParts
<1>3. Tried(t, now, c)
  BY HandshakeKinds DEF Gains, Tried, InProgress
<1>4. Tried(u, now, c)
  BY <1>1, <1>3, SendsTried
<1>5. /\ q.made[slot] = now
      /\ \A s \in Slots : s # slot => q.made[s] = p.made[s]
  BY <1>2
<1>6. /\ u.sessions = r.sessions \cup {slot}
      /\ u.session_timers[slot] = Stamp(r, "TimeCurrent")
      /\ \A s \in Slots : s # slot => u.session_timers[s] = r.session_timers[s]
  BY TunnelParts DEF Gains, Sends
<1>7. \A s \in u.sessions : /\ u.session_timers[s] <= q.made[s]
                            /\ q.made[s] <= u.session_timers[s] + MaxLate
  <2> SUFFICES ASSUME NEW s \in u.sessions
               PROVE  /\ u.session_timers[s] <= q.made[s]
                      /\ q.made[s] <= u.session_timers[s] + MaxLate
    OBVIOUS
  <2>1. s \in Slots
    BY <1>1, TunnelParts
  <2>2. CASE s = slot
    <3>1. c <= Stamp(r, "TimeCurrent") /\ Stamp(r, "TimeCurrent") <= now
      BY DEF Sound, Stamped
    <3> QED
      BY <1>1, <1>5, <1>6, <2>2, <3>1, Intervals, Names
  <2>3. CASE s # slot
    BY <1>5, <1>6, <2>1, <2>3 DEF Tracked
  <2> QED
    BY <2>2, <2>3
<1>8. \A s \in Slots : q.made[s] <= now
  BY <1>5 DEF Tracked
<1>9. /\ q.heard <= Stamp(u, "TimeLastDataPacketReceived") + MaxLate
      /\ q.used <= Stamp(u, "TimeLastDataPacketSent") + MaxLate
  <2>1. /\ Stamp(r, "TimeLastDataPacketReceived") <= Stamp(u, "TimeLastDataPacketReceived")
        /\ Stamp(r, "TimeLastDataPacketSent") <= Stamp(u, "TimeLastDataPacketSent")
    BY <1>1, Names DEF Gains, Sends
  <2> QED
    BY <1>1, <1>2, <2>1, Intervals, Names DEF Tracked
<1>10. ASSUME InProgress(u)
       PROVE  Stamp(u, "TimeLastHandshakeStarted") <= q.trying
  <2>1. CASE InProgress(t)
    <3>1. InProgress(r) /\ Stamp(u, "TimeLastHandshakeStarted") = Stamp(r, "TimeLastHandshakeStarted")
      BY <1>10, <2>1, HandshakeKinds DEF Gains, Sends, InProgress
    <3> QED
      BY <2>1, <3>1 DEF Tracked
  <2>2. CASE ~InProgress(t)
    BY <1>1, <1>10, <2>2, Names
  <2> QED
    BY <2>1, <2>2
<1>11. InProgress(u) => u.state.time_sent <= q.sent
  BY <1>4 DEF Tried
<1>12. Tracked(u, q, now, now)
  BY <1>1, <1>2, <1>7, <1>8, <1>9, <1>10, <1>11, Names DEF Tracked
<1>13. q.heard <= now /\ q.used <= now
  BY DEF Tracked
<1>14. Heeded(u, q, c) /\ KeptOpen(u, q, c)
  BY <1>13, JustSent
<1>15. Renewed(u, q, now, c)
  BY <1>2, <1>13, Intervals DEF Renewed
<1> QED
  BY <1>4, <1>12, <1>14, <1>15 DEF Served

\* A packet or a cookie has arrived: what is recorded of it.
LEMMA HeardKeeps ==
    ASSUME NEW t \in Tunnel, NEW u \in Tunnel, NEW p \in Past, NEW q \in Past,
           NEW m, NEW now \in Nat, NEW c \in Nat, c <= now, now <= c + MaxLate,
           Sound(u, now, c), Tried(t, now, c), Tracked(t, p, m, now), Served(t, p, m, c),
           SameKeys(t, u),
           \A n \in TimerNames \ {"TimeLastPacketReceived", "TimeLastDataPacketReceived",
                                  "TimeCookieReceived"} : Stamp(u, n) = Stamp(t, n),
           q.made = p.made, q.sent = p.sent, q.used = p.used, q.trying = p.trying,
           \/ q.heard = now /\ Stamp(u, "TimeLastDataPacketReceived") = Stamp(u, "TimeCurrent")
           \/ q.heard = p.heard /\ Stamp(u, "TimeLastDataPacketReceived")
                                     = Stamp(t, "TimeLastDataPacketReceived")
    PROVE  Tried(u, now, c) /\ Tracked(u, q, m, now) /\ Served(u, q, m, c)
<1>1. /\ \A n \in TimerNames : Stamp(t, n) \in Nat /\ Stamp(u, n) \in Nat
      /\ p.sent \in Nat /\ p.heard \in Nat /\ q.heard \in Nat
  BY TunnelParts, PastParts
<1>2. InProgress(u) <=> InProgress(t)
  BY DEF InProgress, SameKeys
<1>3. /\ Stamp(u, "TimeLastHandshakeStarted") = Stamp(t, "TimeLastHandshakeStarted")
      /\ Stamp(u, "TimeLastDataPacketSent") = Stamp(t, "TimeLastDataPacketSent")
      /\ Stamp(u, "TimeLastPacketSent") = Stamp(t, "TimeLastPacketSent")
      /\ Stamp(u, "TimePersistentKeepalive") = Stamp(t, "TimePersistentKeepalive")
      /\ Stamp(u, "TimeSessionEstablished") = Stamp(t, "TimeSessionEstablished")
  BY Names
<1>4. Tried(u, now, c)
  BY <1>2, <1>3 DEF Tried, SameKeys
<1>5. q.heard <= now /\ q.heard <= Stamp(u, "TimeLastDataPacketReceived") + MaxLate
  <2>1. c <= Stamp(u, "TimeCurrent")
    BY DEF Sound, Stamped
  <2> QED
    BY <1>1, <2>1, Intervals, Names DEF Tracked
<1>6. Tracked(u, q, m, now)
  BY <1>2, <1>3, <1>5 DEF Tracked, SameKeys
<1>7. Heeded(u, q, c)
  <2>1. q.heard = p.heard \/ c <= q.heard
    OBVIOUS
  <2> QED
    BY <1>1, <2>1, Intervals DEF Served, Heeded, SameKeys
<1>8. KeptOpen(u, q, c) /\ Renewed(u, q, m, c)
  BY DEF Served, KeptOpen, Renewed, SameKeys
<1> QED
  BY <1>4, <1>6, <1>7, <1>8 DEF Served

-----------------------------------------------------------------------------
(* The steps of Next.                                                      *)

\* What is stamped now is recorded: the time of an event between two calls.
LEMMA StampedNow ==
    ASSUME NEW t \in Tunnel, NEW e, NEW p, NEW now \in Nat, NEW c \in Nat, now <= c + MaxLate,
           Woken(t, e, p, c)
    PROVE  Recorded(now, Current(t), p)
<1>1. Current(t) \in Nat
  BY TunnelParts, Names DEF Current
<1> QED
  BY <1>1, Intervals DEF Woken, Recorded

\* What is sent leaves the stamps of what began before, and stamps a new attempt.
LEMMA SendsDated ==
    ASSUME NEW t \in Tunnel, NEW u, NEW e, NEW p, NEW q, NEW now \in Nat, NEW c \in Nat,
           c <= now, now <= c + MaxLate,
           Sends(t, u, now), Dated(t, e, p, c),
           q.idle = p.idle, q.made = p.made,
           q.trying = IF InProgress(u) /\ ~InProgress(t) THEN now ELSE p.trying
    PROVE  Dated(u, e, q, c)
<1>1. u \in Tunnel /\ Woken(t, e, p, c) /\ Begun(t, p)
  BY DEF Sends, Dated
<1>2. u.state = Expired => t.state = Expired
  BY HandshakeKinds DEF Sends, InProgress
<1>3. Woken(u, e, q, c)
  BY <1>1, <1>2 DEF Sends, Woken
<1>4. Recorded(now, Current(u), q)
  BY <1>1, <1>3, StampedNow
<1>5. Begun(u, q)
  <2>1. ASSUME NEW s \in u.sessions
        PROVE  Recorded(q.made[s], u.session_timers[s], q)
    BY <1>1, <2>1 DEF Sends, Begun, Recorded
  <2>2. ASSUME InProgress(u)
        PROVE  Recorded(q.trying, Stamp(u, "TimeLastHandshakeStarted"), q)
    <3>1. CASE InProgress(t)
      BY <1>1, <2>2, <3>1 DEF Sends, Begun, Recorded
    <3>2. CASE ~InProgress(t)
      BY <1>4, <2>2, <3>2 DEF Sends, Current
    <3> QED
      BY <3>1, <3>2
  <2> QED
    BY <2>1, <2>2 DEF Begun
<1> QED
  BY <1>3, <1>5 DEF Dated

\* So does a session that is established.
LEMMA GainsDated ==
    ASSUME NEW t \in Tunnel, NEW u, NEW e, NEW p \in Past, NEW q, NEW slot \in Slots,
           NEW now \in Nat, NEW c \in Nat, c <= now, now <= c + MaxLate,
           Gains(t, u, slot), Dated(t, e, p, c),
           q.idle = p.idle, q.made = [p.made EXCEPT ![slot] = now], q.trying = p.trying
    PROVE  Dated(u, TRUE, q, c)
<1>1. u \in Tunnel /\ Woken(t, e, p, c) /\ Begun(t, p)
  BY DEF Gains, Dated
<1>2. Woken(u, TRUE, q, c)
  BY <1>1 DEF Gains, Woken
<1>3. Recorded(now, Current(u), q)
  BY <1>1, <1>2, StampedNow
<1>4. t.session_timers \in [Slots -> Nat] /\ p.made \in [Slots -> Time] /\ t.sessions \in SUBSET Slots
  BY TunnelParts, PastParts
<1>5. ASSUME NEW s \in u.sessions
      PROVE  Recorded(q.made[s], u.session_timers[s], q)
  <2>1. CASE s = slot
    <3>1. q.made[s] = now /\ u.session_timers[s] = Current(u)
      BY <1>4, <2>1 DEF Gains, Current
    <3> QED
      BY <1>3, <3>1
  <2>2. CASE s # slot
    <3>1. s \in t.sessions
      BY <1>5, <2>2 DEF Gains
    <3>2. q.made[s] = p.made[s] /\ u.session_timers[s] = t.session_timers[s]
      BY <1>4, <2>2, <3>1 DEF Gains
    <3> QED
      BY <1>1, <3>1, <3>2 DEF Begun, Recorded
  <2> QED
    BY <2>1, <2>2
<1>6. ASSUME InProgress(u)
      PROVE  Recorded(q.trying, Stamp(u, "TimeLastHandshakeStarted"), q)
  <2>1. u.state # None
    BY <1>6, HandshakeKinds DEF InProgress
  <2>2. InProgress(t)
    BY <1>6, <2>1 DEF Gains, InProgress
  <2> QED
    BY <1>1, <2>1, <2>2 DEF Gains, Begun, Recorded
<1> QED
  BY <1>2, <1>5, <1>6 DEF Dated, Begun

\* What begins nothing and leaves TimeCurrent leaves every record.
LEMMA SameDated ==
    ASSUME NEW t, NEW u, NEW e, NEW p, NEW q, NEW c, Dated(t, e, p, c), SameKeys(t, u),
           Current(u) = Current(t),
           Stamp(u, "TimeLastHandshakeStarted") = Stamp(t, "TimeLastHandshakeStarted"),
           q.idle = p.idle, q.made = p.made, q.trying = p.trying
    PROVE  Dated(u, TRUE, q, c)
BY DEF Dated, Woken, Begun, Recorded, SameKeys, InProgress

\* The last establishment in the history.
LEMMA LastMadeLatest == LastMade = Latest(past.made) /\ LastMade' = Latest(past'.made)
BY DEF LastMade, Latest

\* The last establishment is the one of now.
LEMMA LatestSet ==
    ASSUME NEW f \in [Slots -> Time], NEW slot \in Slots, NEW n \in Time,
           \A s \in Slots : f[s] <= n
    PROVE  Latest([f EXCEPT ![slot] = n]) = n
<1> DEFINE g == [f EXCEPT ![slot] = n]
<1>1. g \in [Slots -> Time] /\ g[slot] = n /\ \A s \in Slots : g[s] <= n /\ g[s] \in Nat
  <2>1. n \in Nat /\ n <= n
    BY Intervals
  <2>2. g \in [Slots -> Time] /\ g[slot] = n
    OBVIOUS
  <2>3. ASSUME NEW s \in Slots
        PROVE  g[s] <= n /\ g[s] \in Nat
    <3>1. g[s] = IF s = slot THEN n ELSE f[s]
      OBVIOUS
    <3>2. f[s] \in Nat
      BY Intervals
    <3> QED
      BY <2>1, <3>1, <3>2
  <2> QED
    BY <2>2, <2>3
<1> HIDE DEF g
<1>2. Latest(g) \in {g[s] : s \in Slots} /\ \A s \in Slots : g[s] <= Latest(g)
  BY <1>1, LatestOne
<1>3. Latest(g) \in Nat /\ Latest(g) <= n /\ n <= Latest(g) /\ n \in Nat
  BY <1>1, <1>2, Intervals
<1> QED
  BY <1>3 DEF g

\* The bounds of the time since the last call.
LEMMA SinceFacts ==
    ASSUME IInv
    PROVE  /\ clock \in Nat /\ called \in Nat /\ Since \in Nat /\ Since <= clock
           /\ ~past.idle => Since = called /\ clock <= Since + MaxLate
           /\ LastMade \in Nat
<1>1. clock \in Nat /\ called \in Nat /\ past.idle \in BOOLEAN
  BY PastParts, Intervals DEF IInv, TypeOK
<1>2. past.made \in [Slots -> Time]
  BY PastParts DEF IInv, TypeOK
<1>3. LastMade \in Nat
  BY <1>2, LatestOne, LastMadeLatest, Intervals
<1> QED
  BY <1>1, <1>3 DEF IInv, Punctual, Since

\* The time since the last call.
LEMMA Present ==
    ASSUME IInv
    PROVE  clock \in Nat /\ called \in Nat /\ called <= clock /\ clock <= called + MaxLate
BY SinceFacts DEF IInv, Punctual

\* What a step that is none of the timer leaves to show.
LEMMA BetweenCalls ==
    ASSUME IInv, UNCHANGED <<clock, called>>, endpoint' \in {endpoint, TRUE},
           events' \in Nat, tunn' \in Tunnel, past' \in Past, past'.idle = past.idle,
           Sound(tunn', clock, Since), Dated(tunn', endpoint', past', called),
           ~past.idle => /\ Tried(tunn', clock, called)
                         /\ Tracked(tunn', past', LastMade', clock)
                         /\ Served(tunn', past', LastMade', called)
    PROVE  IInv'
<1>1. Since' = Since
  BY DEF Since
<1>2. TypeOK' /\ Punctual'
  BY DEF IInv, TypeOK, Punctual
<1>3. Sound(tunn', clock', Since')
  BY <1>1
<1>4. ~past'.idle => InTime'
  BY DEF InTime
<1>5. Dated(tunn', endpoint', past', called')
  OBVIOUS
<1> QED
  BY <1>2, <1>3, <1>4, <1>5 DEF IInv

\* What Becomes makes of the history.
LEMMA BecomesFacts ==
    ASSUME TypeOK, NEW t, NEW sent \in BOOLEAN, NEW data \in BOOLEAN, Becomes(t, sent, data)
    PROVE  /\ tunn' = t /\ past' \in Past
           /\ past'.made = past.made /\ past'.heard = past.heard /\ past'.idle = past.idle
           /\ past'.sent = IF sent THEN clock ELSE past.sent
           /\ past'.used = past.used \/ (data /\ past'.used = clock)
           /\ past'.trying = IF InProgress(t) /\ ~InProgress(tunn) THEN clock ELSE past.trying
           /\ LastMade' = LastMade
<1> DEFINE a == IF InProgress(t) /\ ~InProgress(tunn) THEN clock ELSE past.trying
           b == IF sent THEN clock ELSE past.sent
           d == IF data /\ past.used <= LastMade + MaxLate THEN clock ELSE past.used
<1>1. past \in Past /\ clock \in Time
  BY DEF TypeOK
<1>2. a \in Time /\ b \in Time /\ d \in Time
  BY <1>1, PastParts
<1>3. tunn' = t /\ past' = [past EXCEPT !.trying = a, !.sent = b, !.used = d]
  BY <1>1 DEF Becomes, Past
<1>4. d = past.used \/ (data /\ d = clock)
  OBVIOUS
<1> HIDE DEF a, b, d
<1>5. /\ past' \in Past
      /\ past'.made = past.made /\ past'.heard = past.heard /\ past'.idle = past.idle
      /\ past'.sent = b /\ past'.used = d /\ past'.trying = a
  BY <1>1, <1>2, <1>3 DEF Past
<1>6. LastMade' = LastMade
  BY <1>5, LastMadeLatest
<1> QED
  BY <1>3, <1>4, <1>5, <1>6 DEF a, b

\* Time passes.
LEMMA PassInv ==
    ASSUME IInv, Pass
    PROVE  IInv'
<1>1. /\ clock' = clock + 1 /\ clock < MaxClock /\ clock - called < MaxLate
      /\ UNCHANGED <<called, endpoint, tunn, past, events>>
  BY DEF Pass
<1>2. clock \in Nat /\ called \in Nat /\ clock' \in Time /\ clock' \in Nat
  BY <1>1, SinceFacts, Intervals DEF IInv, TypeOK, Time
<1>3. TypeOK' /\ Punctual'
  BY <1>1, <1>2, Intervals DEF IInv, TypeOK, Punctual
<1>4. Since' = Since /\ LastMade' = LastMade
  BY <1>1, LastMadeLatest DEF Since
<1>5. tunn \in Tunnel /\ past \in Past
  BY DEF IInv, TypeOK
<1>6. Sound(tunn, clock', Since)
  <2>1. Sound(tunn, clock, Since) /\ Stamp(tunn, "TimeCurrent") \in Nat
    BY <1>5, TunnelParts, Names DEF IInv
  <2>2. Stamped(tunn, clock', Since)
    BY <1>1, <1>2, <2>1 DEF Sound, Stamped
  <2> QED
    BY <2>1, <2>2 DEF Sound
<1>7. ASSUME InTime
      PROVE  Tried(tunn, clock', called) /\ Tracked(tunn, past, LastMade, clock')
  <2>1. Tried(tunn, clock', called)
    <3>1. InProgress(tunn) => tunn.state.time_sent \in Nat
      BY <1>5, TunnelParts, HandshakeKinds DEF InProgress
    <3> QED
      BY <1>1, <1>2, <1>7, <3>1 DEF InTime, Tried
  <2>2. /\ past.sent \in Nat /\ past.heard \in Nat /\ past.used \in Nat
        /\ \A s \in Slots : past.made[s] \in Nat
    BY <1>5, PastParts
  <2>3. Tracked(tunn, past, LastMade, clock)
    BY <1>7 DEF InTime
  <2>4. Tracked(tunn, past, LastMade, clock')
    BY <1>1, <1>2, <2>2, <2>3 DEF Tracked
  <2> QED
    BY <2>1, <2>4
<1>8. ~past.idle => InTime'
  BY <1>1, <1>4, <1>7 DEF IInv, InTime
<1>9. Dated(tunn', endpoint', past', called')
  BY <1>1 DEF IInv
<1> QED
  BY <1>1, <1>3, <1>4, <1>6, <1>8, <1>9 DEF IInv

\* The tun handler.
LEMMA EncapsulateInv ==
    ASSUME IInv, Encapsulate
    PROVE  IInv'
<1> DEFINE u == Encapsulated(tunn, "data", clock)
           sent == HasSession(tunn) \/ ~InProgress(tunn)
           data == HasSession(tunn)
<1>1. /\ Becomes(u, sent, data) /\ events' = events + 1
      /\ UNCHANGED <<clock, called, endpoint>>
  BY DEF Encapsulate
<1>2. /\ tunn \in Tunnel /\ past \in Past /\ Sound(tunn, clock, Since) /\ "data" \in Kinds
      /\ sent \in BOOLEAN /\ data \in BOOLEAN /\ TypeOK
  BY DEF IInv, TypeOK, Kinds, HasSession, InProgress
<1>3. /\ Sends(tunn, u, clock) /\ Sound(u, clock, Since)
      /\ HasSession(tunn) => Stamp(u, "TimeLastDataPacketSent") = Stamp(u, "TimeCurrent")
      /\ HasSession(tunn) => SameKeys(tunn, u)
      /\ ~HasSession(tunn) /\ InProgress(tunn) => SameKeys(tunn, u) /\ SameStamps(tunn, u)
  BY <1>2, SinceFacts, EncapsulatedSends
<1> HIDE DEF u
<1>4. /\ tunn' = u /\ past' \in Past
      /\ past'.made = past.made /\ past'.heard = past.heard /\ past'.idle = past.idle
      /\ past'.sent = IF sent THEN clock ELSE past.sent
      /\ past'.used = past.used \/ (data /\ past'.used = clock)
      /\ past'.trying = IF InProgress(u) /\ ~InProgress(tunn) THEN clock ELSE past.trying
      /\ LastMade' = LastMade
  BY <1>1, <1>2, BecomesFacts
<1>5. Records(tunn, u, past, past', clock)
  BY <1>3, <1>4 DEF Records
<1>6. ASSUME ~past.idle
      PROVE  /\ Tried(u, clock, called) /\ Tracked(u, past', LastMade, clock)
             /\ Served(u, past', LastMade, called)
  <2>1. Since = called /\ clock <= called + MaxLate /\ called <= clock
        /\ clock \in Nat /\ called \in Nat
    BY <1>6, SinceFacts
  <2>2. Sound(u, clock, called)
    BY <1>3, <2>1
  <2>3. /\ Tried(tunn, clock, called) /\ Tracked(tunn, past, LastMade, clock)
        /\ Served(tunn, past, LastMade, called)
    BY <1>6 DEF IInv, InTime
  <2>4. Tried(u, clock, called)
    BY <1>2, <1>3, <2>1, <2>2, <2>3, SendsTried
  <2>5. Tracked(u, past', LastMade, clock)
    BY <1>2, <1>3, <1>4, <1>5, <2>1, <2>2, <2>3, SendsTracked
  <2>6. Served(u, past', LastMade, called)
    BY <1>2, <1>3, <1>4, <1>5, <2>1, <2>3, SendsServed
  <2> QED
    BY <2>4, <2>5, <2>6
<1>7. u \in Tunnel /\ events' \in Nat
  BY <1>1, <1>3 DEF Sends, IInv, TypeOK
<1>8. Dated(u, endpoint, past', called)
  <2>1. Dated(tunn, endpoint, past, called)
    BY DEF IInv
  <2> QED
    BY <1>2, <1>3, <1>4, <2>1, Present, SendsDated
<1> QED
  BY <1>1, <1>3, <1>4, <1>6, <1>7, <1>8, BetweenCalls

\* A socket handler with a handshake message: t is the tunnel with its session.
LEMMA EstablishInv ==
    ASSUME IInv, Arrives, NEW t, NEW slot \in Slots, Establishes(t, slot),
           Gains(tunn, t, slot), Sound(t, clock, Since)
    PROVE  IInv'
<1> DEFINE u == Flushed(t, clock)
           m == [past.made EXCEPT ![slot] = clock]
           a == IF InProgress(u) /\ ~InProgress(t) THEN clock ELSE past.trying
<1>1. /\ tunn' = u /\ past' = [past EXCEPT !.made = m, !.sent = clock, !.trying = a]
      /\ events' = events + 1 /\ endpoint' = TRUE /\ UNCHANGED <<clock, called>>
  BY DEF Establishes, Arrives, IInv, TypeOK, Past
<1>2. /\ tunn \in Tunnel /\ past \in Past /\ Sound(tunn, clock, Since) /\ t \in Tunnel
      /\ clock \in Time
  BY DEF IInv, TypeOK, Gains
<1>3. Sends(t, u, clock) /\ Sound(u, clock, Since)
  BY <1>2, SinceFacts, FlushedSends
<1>4. m \in [Slots -> Time] /\ a \in Time
  BY <1>2, PastParts
<1> HIDE DEF u, m, a
<1>5. /\ past' \in Past
      /\ past'.made = m /\ past'.heard = past.heard /\ past'.idle = past.idle
      /\ past'.sent = clock /\ past'.used = past.used /\ past'.trying = a
  BY <1>1, <1>2, <1>4 DEF Past
<1>6. ASSUME ~past.idle
      PROVE  /\ Tried(u, clock, called) /\ Tracked(u, past', LastMade', clock)
             /\ Served(u, past', LastMade', called)
  <2>1. /\ Since = called /\ clock <= called + MaxLate /\ called <= clock
        /\ clock \in Nat /\ called \in Nat
    BY <1>6, SinceFacts
  <2>2. Sound(u, clock, called) /\ Sound(tunn, clock, called) /\ Sound(t, clock, called)
    BY <1>2, <1>3, <2>1
  <2>3. Tried(tunn, clock, called) /\ Tracked(tunn, past, LastMade, clock)
    BY <1>6 DEF IInv, InTime
  <2>4. LastMade' = clock
    <3>1. \A s \in Slots : past.made[s] <= clock
      BY <2>3 DEF Tracked
    <3>2. Latest(m) = clock
      BY <1>2, <3>1, PastParts, LatestSet DEF m
    <3> QED
      BY <1>5, <3>2, LastMadeLatest
  <2>5. /\ past'.made = [past.made EXCEPT ![slot] = clock]
        /\ past'.trying = IF InProgress(u) /\ ~InProgress(t) THEN clock ELSE past.trying
    BY <1>5 DEF m, a
  <2>6. Tried(u, clock, called) /\ Tracked(u, past', clock, clock) /\ Served(u, past', clock, called)
    BY <1>2, <1>3, <1>5, <2>1, <2>2, <2>3, <2>5, GainsKeeps
  <2> QED
    BY <2>4, <2>6
<1>7. u \in Tunnel /\ events' \in Nat
  BY <1>1, <1>3 DEF Sends, IInv, TypeOK
<1>8. Dated(u, TRUE, past', called)
  <2> DEFINE q == [past EXCEPT !.made = m]
  <2>1. q.idle = past.idle /\ q.made = m /\ q.trying = past.trying
    BY <1>2 DEF Past
  <2> HIDE DEF q
  <2>2. Dated(tunn, endpoint, past, called) /\ m = [past.made EXCEPT ![slot] = clock]
    BY DEF IInv, m
  <2>3. Dated(t, TRUE, q, called)
    BY <1>2, <2>1, <2>2, Present, GainsDated
  <2>4. past'.trying = IF InProgress(u) /\ ~InProgress(t) THEN clock ELSE q.trying
    BY <1>5, <2>1 DEF a
  <2> QED
    BY <1>2, <1>3, <1>5, <2>1, <2>3, <2>4, Present, SendsDated
<1> QED
  BY <1>1, <1>3, <1>5, <1>6, <1>7, <1>8, BetweenCalls

\* An initiation or a response arrives.
LEMMA HandshakeInv ==
    ASSUME IInv, ReceiveInit \/ \E h \in {tunn.state, tunn.previous} : ReceiveResponse(h)
    PROVE  IInv'
<1>1. tunn \in Tunnel /\ Sound(tunn, clock, Since)
  BY DEF IInv, TypeOK
<1>2. CASE ReceiveInit
  <2>1. /\ Gains(tunn, Responded(tunn), Responded(tunn).next_index)
        /\ Sound(Responded(tunn), clock, Since)
        /\ Responded(tunn).next_index \in Slots
    BY <1>1, SinceFacts, RespondedGains
  <2> QED
    BY <1>2, <2>1, EstablishInv DEF ReceiveInit
<1>3. CASE \E h \in {tunn.state, tunn.previous} : ReceiveResponse(h)
  <2>1. PICK h \in {tunn.state, tunn.previous} : ReceiveResponse(h)
    BY <1>3
  <2>2. h.tag = "InitSent" /\ Arrives /\ Establishes(Answered(tunn, h), h.slot)
    BY <2>1 DEF ReceiveResponse
  <2>3. /\ Gains(tunn, Answered(tunn, h), h.slot)
        /\ Sound(Answered(tunn, h), clock, Since)
        /\ h.slot \in Slots
    BY <1>1, <2>2, SinceFacts, AnsweredGains
  <2> QED
    BY <2>2, <2>3, EstablishInv
<1> QED
  BY <1>2, <1>3

\* What arrives for a session or a handshake and makes none.
LEMMA ArrivalInv ==
    ASSUME IInv, Arrives, NEW u \in Tunnel, tunn' = u, Sound(u, clock, Since),
           SameKeys(tunn, u),
           \A n \in TimerNames \ {"TimeLastPacketReceived", "TimeLastDataPacketReceived",
                                  "TimeCookieReceived"} : Stamp(u, n) = Stamp(tunn, n),
           \/ /\ past' = [past EXCEPT !.heard = clock]
              /\ Stamp(u, "TimeLastDataPacketReceived") = Stamp(u, "TimeCurrent")
           \/ /\ past' = past
              /\ Stamp(u, "TimeLastDataPacketReceived") = Stamp(tunn, "TimeLastDataPacketReceived")
    PROVE  IInv'
<1>1. events' = events + 1 /\ endpoint' = TRUE /\ UNCHANGED <<clock, called>>
  BY DEF Arrives
<1>2. tunn \in Tunnel /\ past \in Past /\ clock \in Time /\ events' \in Nat
  BY <1>1 DEF IInv, TypeOK
<1>3. /\ past' \in Past
      /\ past'.made = past.made /\ past'.sent = past.sent /\ past'.used = past.used
      /\ past'.trying = past.trying /\ past'.idle = past.idle
      /\ \/ past'.heard = clock /\ Stamp(u, "TimeLastDataPacketReceived") = Stamp(u, "TimeCurrent")
         \/ past'.heard = past.heard /\ Stamp(u, "TimeLastDataPacketReceived")
                                           = Stamp(tunn, "TimeLastDataPacketReceived")
  BY <1>2 DEF Past
<1>4. LastMade' = LastMade
  BY <1>3, LastMadeLatest
<1>5. ASSUME ~past.idle
      PROVE  /\ Tried(u, clock, called) /\ Tracked(u, past', LastMade, clock)
             /\ Served(u, past', LastMade, called)
  <2>1. /\ Since = called /\ clock <= called + MaxLate /\ called <= clock
        /\ clock \in Nat /\ called \in Nat
    BY <1>5, SinceFacts
  <2>2. Sound(u, clock, called)
    BY <2>1
  <2>3. /\ Tried(tunn, clock, called) /\ Tracked(tunn, past, LastMade, clock)
        /\ Served(tunn, past, LastMade, called)
    BY <1>5 DEF IInv, InTime
  <2> QED
    BY <1>2, <1>3, <2>1, <2>2, <2>3, HeardKeeps
<1>6. Dated(u, TRUE, past', called)
  <2>1. /\ Current(u) = Current(tunn)
        /\ Stamp(u, "TimeLastHandshakeStarted") = Stamp(tunn, "TimeLastHandshakeStarted")
    BY Names DEF Current
  <2>2. Dated(tunn, endpoint, past, called)
    BY DEF IInv
  <2> QED
    BY <1>3, <2>1, <2>2, SameDated
<1> QED
  BY <1>1, <1>2, <1>3, <1>4, <1>5, <1>6, BetweenCalls

\* Data, or the empty packet of a keepalive, arrives.
LEMMA ReceiveDataInv ==
    ASSUME IInv, NEW slot \in Slots, NEW kind \in Kinds, ReceiveData(slot, kind)
    PROVE  IInv'
<1> DEFINE s == SetCurrent(tunn, slot)
           t == Tick(s, "TimeLastPacketReceived")
           u == Tick(t, "TimeLastDataPacketReceived")
<1>1. /\ Arrives
      /\ kind = "data" => tunn' = u /\ past' = [past EXCEPT !.heard = clock]
      /\ kind # "data" => tunn' = t /\ past' = past
  BY DEF ReceiveData
<1>2. tunn \in Tunnel /\ Sound(tunn, clock, Since)
  BY DEF IInv, TypeOK
<1>3. s \in Tunnel /\ SameKeys(tunn, s) /\ SameStamps(tunn, s)
  BY <1>2, CurrentSet
<1> HIDE DEF s
<1>4. Sound(s, clock, Since) /\ \A n \in TimerNames : Stamp(s, n) = Stamp(tunn, n)
  BY <1>2, <1>3, SameSound DEF SameStamps, Stamp
<1>5. /\ t \in Tunnel /\ Sound(t, clock, Since) /\ SameKeys(s, t) /\ t.want_keepalive
      /\ \A n \in TimerNames \ {"TimeLastPacketReceived"} : Stamp(t, n) = Stamp(s, n)
  BY <1>3, <1>4, SinceFacts, ReceivedSound
<1> HIDE DEF t
<1>6. /\ u \in Tunnel /\ Sound(u, clock, Since) /\ SameKeys(t, u)
      /\ Stamp(u, "TimeLastDataPacketReceived") = Stamp(u, "TimeCurrent")
      /\ \A n \in TimerNames : n # "TimeLastDataPacketReceived" => Stamp(u, n) = Stamp(t, n)
  <2> DEFINE name == "TimeLastDataPacketReceived"
  <2>1. name \in TimerNames /\ clock \in Nat /\ Since \in Nat
    BY Names, SinceFacts
  <2> HIDE DEF name
  <2>2. Sound(Tick(t, name), clock, Since)
    BY <1>5, <2>1, TickSound
  <2>3. /\ Tick(t, name) \in Tunnel /\ SameKeys(t, Tick(t, name))
        /\ Stamp(Tick(t, name), name) = Stamp(Tick(t, name), "TimeCurrent")
        /\ \A n \in TimerNames : n # name => Stamp(Tick(t, name), n) = Stamp(t, n)
    BY <1>5, <2>1, TickFacts
  <2> QED
    BY <2>2, <2>3 DEF name
<1> HIDE DEF u
<1>7. CASE kind = "data"
  <2>1. SameKeys(tunn, u)
    BY <1>3, <1>5, <1>6 DEF SameKeys
  <2>2. \A n \in TimerNames \ {"TimeLastPacketReceived", "TimeLastDataPacketReceived",
                               "TimeCookieReceived"} : Stamp(u, n) = Stamp(tunn, n)
    BY <1>4, <1>5, <1>6
  <2> QED
    BY <1>1, <1>6, <1>7, <2>1, <2>2, ArrivalInv
<1>8. CASE kind # "data"
  <2>1. SameKeys(tunn, t)
    BY <1>3, <1>5 DEF SameKeys
  <2>2. \A n \in TimerNames \ {"TimeLastPacketReceived"} : Stamp(t, n) = Stamp(tunn, n)
    BY <1>4, <1>5
  <2>3. Stamp(t, "TimeLastDataPacketReceived") = Stamp(tunn, "TimeLastDataPacketReceived")
    BY <2>2, Names
  <2> QED
    BY <1>1, <1>5, <1>8, <2>1, <2>2, <2>3, ArrivalInv
<1> QED
  BY <1>7, <1>8

\* A cookie arrives.
LEMMA ReceiveCookieInv ==
    ASSUME IInv, ReceiveCookie
    PROVE  IInv'
<1> DEFINE s == Tick(tunn, "TimeLastPacketReceived")
           t == Tick(s, "TimeCookieReceived")
           u == [t EXCEPT !.cookie = TRUE]
<1>1. Arrives /\ tunn' = u /\ past' = past
  BY DEF ReceiveCookie
<1>2. tunn \in Tunnel /\ Sound(tunn, clock, Since)
  BY DEF IInv, TypeOK
<1>3. /\ s \in Tunnel /\ Sound(s, clock, Since) /\ SameKeys(tunn, s)
      /\ \A n \in TimerNames \ {"TimeLastPacketReceived"} : Stamp(s, n) = Stamp(tunn, n)
  BY <1>2, SinceFacts, ReceivedSound
<1> HIDE DEF s
<1>4. /\ t \in Tunnel /\ Sound(t, clock, Since) /\ SameKeys(s, t)
      /\ \A n \in TimerNames : n # "TimeCookieReceived" => Stamp(t, n) = Stamp(s, n)
  BY <1>3, SinceFacts, TickFacts, TickSound, Names
<1> HIDE DEF t
<1>5. u \in Tunnel /\ SameKeys(t, u) /\ SameStamps(t, u)
  BY <1>4 DEF Tunnel, SameKeys, SameStamps
<1> HIDE DEF u
<1>6. Sound(u, clock, Since) /\ \A n \in TimerNames : Stamp(u, n) = Stamp(t, n)
  BY <1>4, <1>5, SameSound DEF SameStamps, Stamp
<1>7. SameKeys(tunn, u)
  BY <1>3, <1>4, <1>5 DEF SameKeys
<1>8. \A n \in TimerNames \ {"TimeLastPacketReceived", "TimeCookieReceived"} :
          Stamp(u, n) = Stamp(tunn, n)
  BY <1>3, <1>4, <1>6
<1>9. Stamp(u, "TimeLastDataPacketReceived") = Stamp(tunn, "TimeLastDataPacketReceived")
  BY <1>8, Names
<1> QED
  BY <1>1, <1>5, <1>6, <1>7, <1>8, <1>9, ArrivalInv

-----------------------------------------------------------------------------
(* The calls of update_timers.                                             *)

\* u is t after update_session_timers at time now.
Cleaned(t, u, now) ==
    /\ u \in Tunnel
    /\ u.sessions = {s \in t.sessions : now <= t.session_timers[s] + REJECT_AFTER_TIME}
    /\ \A s \in u.sessions : u.session_timers[s] = t.session_timers[s]
    /\ \A s \in Slots : u.session_timers[s] \in {now, t.session_timers[s]}
    /\ u.is_initiator = t.is_initiator /\ u.want_keepalive = t.want_keepalive
    /\ u.state = t.state /\ u.previous = t.previous
    /\ Stamp(u, "TimeCurrent") = now
    /\ \A n \in TimerNames : n # "TimeCurrent" => Stamp(u, n) = Stamp(t, n)

\* The start of update_timers.
LEMMA AgedCleans ==
    ASSUME NEW t \in Tunnel, NEW now \in Nat
    PROVE  Cleaned(t, SessionsAged(t, now), now)
<1> DEFINE old == {s \in Slots : now - t.session_timers[s] > REJECT_AFTER_TIME}
           timers == [t.timers EXCEPT !["TimeCurrent"] = now]
           ss == t.sessions \ old
           ts == [s \in Slots |-> IF s \in old THEN now ELSE t.session_timers[s]]
           u == [t EXCEPT !.timers = timers, !.sessions = ss, !.session_timers = ts]
<1>1. /\ t.timers \in [TimerNames -> Nat] /\ t.session_timers \in [Slots -> Nat]
      /\ t.sessions \in SUBSET Slots
  BY TunnelParts
<1>2. SessionsAged(t, now) = u
  BY DEF SessionsAged, Tunnel
<1>3. /\ timers \in [TimerNames -> Nat] /\ timers["TimeCurrent"] = now
      /\ \A n \in TimerNames : n # "TimeCurrent" => timers[n] = t.timers[n]
  BY <1>1, Names
<1>4. /\ ss \in SUBSET Slots /\ ts \in [Slots -> Nat]
      /\ \A s \in ss : ts[s] = t.session_timers[s]
      /\ \A s \in Slots : ts[s] \in {now, t.session_timers[s]}
  BY <1>1
<1>5. ss = {s \in t.sessions : now <= t.session_timers[s] + REJECT_AFTER_TIME}
  <2>1. \A s \in Slots : now - t.session_timers[s] > REJECT_AFTER_TIME
                           <=> ~(now <= t.session_timers[s] + REJECT_AFTER_TIME)
    BY <1>1, Intervals
  <2> QED
    BY <1>1, <2>1
<1> HIDE DEF old, timers, ss, ts
<1>6. /\ u \in Tunnel /\ u.timers = timers /\ u.sessions = ss /\ u.session_timers = ts
      /\ u.is_initiator = t.is_initiator /\ u.want_keepalive = t.want_keepalive
      /\ u.state = t.state /\ u.previous = t.previous
  BY <1>3, <1>4 DEF Tunnel
<1> HIDE DEF u
<1> QED
  BY <1>2, <1>3, <1>4, <1>5, <1>6 DEF Cleaned, Stamp

\* The cookie is no stamp.
LEMMA CookieCleans ==
    ASSUME NEW t, NEW u, NEW now, Cleaned(t, u, now)
    PROVE  Cleaned(t, CookieAged(u, now), now)
<1>1. /\ [u EXCEPT !.cookie = FALSE] \in Tunnel
      /\ [u EXCEPT !.cookie = FALSE].timers = u.timers
      /\ [u EXCEPT !.cookie = FALSE].sessions = u.sessions
      /\ [u EXCEPT !.cookie = FALSE].session_timers = u.session_timers
      /\ [u EXCEPT !.cookie = FALSE].is_initiator = u.is_initiator
      /\ [u EXCEPT !.cookie = FALSE].want_keepalive = u.want_keepalive
      /\ [u EXCEPT !.cookie = FALSE].state = u.state
      /\ [u EXCEPT !.cookie = FALSE].previous = u.previous
  BY DEF Cleaned, Tunnel
<1>2. Cleaned(t, [u EXCEPT !.cookie = FALSE], now)
  BY <1>1 DEF Cleaned, Stamp
<1> QED
  BY <1>2 DEF CookieAged

\* After the clean-up the stamps are sound for a call of now.
LEMMA CleanedSound ==
    ASSUME NEW t \in Tunnel, NEW u, NEW now \in Nat, NEW c \in Nat, Sound(t, now, c), c <= now,
           Cleaned(t, u, now)
    PROVE  Sound(u, now, now)
<1>1. /\ \A n \in TimerNames : Stamp(t, n) \in Nat /\ Stamp(t, n) <= now
      /\ \A s \in Slots : t.session_timers[s] \in Nat /\ t.session_timers[s] <= now
      /\ t.sessions \in SUBSET Slots
  BY TunnelParts, Names DEF Sound, Stamped
<1>2. Stamped(u, now, now)
  <2>1. \A n \in TimerNames : Stamp(u, n) <= now
    BY <1>1 DEF Cleaned
  <2>2. \A s \in Slots : u.session_timers[s] <= now
    BY <1>1 DEF Cleaned
  <2> QED
    BY <2>1, <2>2 DEF Cleaned, Stamped
<1>3. Asked(u)
  BY Names DEF Cleaned, Sound, Asked
<1>4. Emptied(u)
  BY DEF Cleaned, Sound, Emptied
<1>5. Aged(u, now)
  BY <1>1, Names DEF Cleaned, Sound, Aged
<1> QED
  BY <1>2, <1>3, <1>4, <1>5 DEF Sound

\* It takes nothing from the history.
LEMMA CleanedTracked ==
    ASSUME NEW t \in Tunnel, NEW u, NEW p \in Past, NEW m, NEW now \in Nat,
           Tracked(t, p, m, now), Cleaned(t, u, now)
    PROVE  Tracked(u, p, m, now)
<1>1. /\ Stamp(u, "TimeLastDataPacketReceived") = Stamp(t, "TimeLastDataPacketReceived")
      /\ Stamp(u, "TimeLastDataPacketSent") = Stamp(t, "TimeLastDataPacketSent")
      /\ Stamp(u, "TimeLastPacketSent") = Stamp(t, "TimeLastPacketSent")
      /\ Stamp(u, "TimePersistentKeepalive") = Stamp(t, "TimePersistentKeepalive")
      /\ Stamp(u, "TimeSessionEstablished") = Stamp(t, "TimeSessionEstablished")
      /\ Stamp(u, "TimeLastHandshakeStarted") = Stamp(t, "TimeLastHandshakeStarted")
  BY Names DEF Cleaned
<1>2. u.sessions \subseteq t.sessions /\ u.state = t.state
  BY DEF Cleaned
<1>3. \A s \in u.sessions : u.session_timers[s] = t.session_timers[s]
  BY DEF Cleaned
<1>4. InProgress(u) <=> InProgress(t)
  BY <1>2 DEF InProgress
<1> QED
  BY <1>1, <1>2, <1>3, <1>4 DEF Tracked

\* set_expired and clear_all leave no session and no handshake.
LEMMA GivenUpFacts ==
    ASSUME NEW t \in Tunnel, NEW now \in Nat, Sound(t, now, now)
    PROVE  /\ GivenUp(t, now) \in Tunnel
           /\ GivenUp(t, now).state = Expired /\ GivenUp(t, now).sessions = {}
           /\ \A n \in TimerNames : Stamp(GivenUp(t, now), n) = now
           /\ Sound(GivenUp(t, now), now, now)
<1> DEFINE timers == [n \in TimerNames |-> now]
           e == [t EXCEPT !.state = Expired, !.previous = Expired,
                          !.sessions = {}, !.packet_queue = {}]
           u == [e EXCEPT !.timers = timers, !.want_handshake = FALSE, !.want_keepalive = FALSE]
<1>1. GivenUp(t, now) = u
  BY DEF GivenUp, Clear
<1>2. timers \in [TimerNames -> Nat] /\ \A n \in TimerNames : timers[n] = now
  OBVIOUS
<1> HIDE DEF timers
<1>3. /\ e \in Tunnel /\ e.state = Expired /\ e.previous = Expired /\ e.sessions = {}
      /\ e.session_timers = t.session_timers
  BY HandshakeKinds DEF Tunnel
<1> HIDE DEF e
<1>4. /\ u \in Tunnel /\ u.state = Expired /\ u.previous = Expired /\ u.sessions = {}
      /\ u.session_timers = t.session_timers /\ u.timers = timers
  BY <1>2, <1>3 DEF Tunnel
<1> HIDE DEF u
<1>5. \A n \in TimerNames : Stamp(u, n) = now
  BY <1>2, <1>4 DEF Stamp
<1>6. \A s \in Slots : t.session_timers[s] \in Nat /\ t.session_timers[s] <= now
  BY TunnelParts, Names DEF Sound, Stamped
<1>7. Sound(u, now, now)
  BY <1>4, <1>5, <1>6, Names DEF Sound, Stamped, Asked, Emptied, Aged
<1> QED
  BY <1>1, <1>4, <1>5, <1>7

\* A session that has sent data is renewed, or is younger than REKEY_AFTER_TIME.
LEMMA RenewedUnlessDue ==
    ASSUME NEW t \in Tunnel, NEW p \in Past, NEW m \in Nat, NEW now \in Nat,
           Tracked(t, p, m, now), ~RenewOnSend(t, now)
    PROVE  Renewed(t, p, m, now)
<1> SUFFICES ASSUME t.is_initiator, t.state = None, p.used > m + MaxLate
             PROVE  now <= m + REKEY_AFTER_TIME
  BY DEF Renewed
<1>1. /\ Stamp(t, "TimeSessionEstablished") \in Nat /\ Stamp(t, "TimeLastDataPacketSent") \in Nat
      /\ p.used \in Nat
  BY TunnelParts, PastParts, Names
<1>2. /\ Stamp(t, "TimeSessionEstablished") <= m
      /\ p.used <= Stamp(t, "TimeLastDataPacketSent") + MaxLate
  BY DEF Tracked
<1>3. Stamp(t, "TimeSessionEstablished") < Stamp(t, "TimeLastDataPacketSent")
  BY <1>1, <1>2, Intervals
<1>4. ~(now - Stamp(t, "TimeSessionEstablished") >= REKEY_AFTER_TIME)
  BY <1>3 DEF RenewOnSend, Stamp
<1> QED
  BY <1>1, <1>2, <1>4, Intervals

\* A call that finds nothing to do leaves nothing undone.
LEMMA QuietServed ==
    ASSUME NEW t \in Tunnel, NEW p \in Past, NEW m \in Nat, NEW now \in Nat,
           Sound(t, now, now), Tracked(t, p, m, now),
           ~AttemptFailed(t, now), ~RetryDue(t, now),
           InProgress(t) \/ (~RenewOnSend(t, now) /\ ~KeepaliveDue(t, now) /\ ~PersistentDue(t, now))
    PROVE  Tried(t, now, now) /\ Served(t, p, m, now)
<1>1. /\ \A n \in TimerNames : Stamp(t, n) \in Nat
      /\ p.sent \in Nat /\ p.heard \in Nat /\ p.used \in Nat
      /\ InProgress(t) => t.state.time_sent \in Nat
  BY TunnelParts, PastParts, HandshakeKinds DEF InProgress
<1>2. ASSUME InProgress(t)
      PROVE  /\ now < Stamp(t, "TimeLastHandshakeStarted") + REKEY_ATTEMPT_TIME
             /\ now < t.state.time_sent + REKEY_TIMEOUT
             /\ t.state.time_sent <= now /\ t.state.time_sent <= p.sent
  <2>1. ~(now - Stamp(t, "TimeLastHandshakeStarted") >= REKEY_ATTEMPT_TIME)
    BY <1>2 DEF AttemptFailed, Stamp
  <2>2. ~(now - t.state.time_sent >= REKEY_TIMEOUT)
    BY <1>2 DEF RetryDue
  <2>3. t.state.time_sent <= p.sent /\ p.sent <= now
    BY <1>2 DEF Tracked
  <2> QED
    BY <1>1, <1>2, <2>1, <2>2, <2>3, Intervals, Names
<1>3. Tried(t, now, now)
  BY <1>2 DEF Tried
<1>4. Heeded(t, p, now)
  <2> SUFFICES ASSUME t.sessions # {}, p.heard > p.sent + MaxLate
               PROVE  now <= p.heard + KEEPALIVE_TIMEOUT
    BY DEF Heeded
  <2>1. CASE InProgress(t)
    BY <1>1, <1>2, <2>1, Intervals
  <2>2. CASE ~InProgress(t)
    <3>1. /\ Stamp(t, "TimeLastPacketSent") <= p.sent
          /\ p.heard <= Stamp(t, "TimeLastDataPacketReceived") + MaxLate
      BY DEF Tracked
    <3>2. Stamp(t, "TimeLastDataPacketReceived") > Stamp(t, "TimeLastPacketSent")
      BY <1>1, <3>1, Intervals, Names
    <3>3. t.want_keepalive
      BY <3>2 DEF Sound, Asked
    <3>4. ~(now - Stamp(t, "TimeLastPacketSent") >= KEEPALIVE_TIMEOUT)
      BY <2>2, <3>2, <3>3 DEF KeepaliveDue, Stamp
    <3> QED
      BY <1>1, <3>1, <3>4, Intervals, Names
  <2> QED
    BY <2>1, <2>2
<1>5. KeptOpen(t, p, now)
  <2> SUFFICES ASSUME PERSISTENT_KEEPALIVE > REKEY_TIMEOUT, t.state # Expired
               PROVE  now <= p.sent + PERSISTENT_KEEPALIVE
    BY DEF KeptOpen
  <2>1. CASE InProgress(t)
    BY <1>1, <1>2, <2>1, Intervals
  <2>2. CASE ~InProgress(t)
    <3>1. Stamp(t, "TimePersistentKeepalive") <= p.sent
      BY DEF Tracked
    <3>2. ~(now - Stamp(t, "TimePersistentKeepalive") >= PERSISTENT_KEEPALIVE)
      BY <2>2, Intervals DEF PersistentDue, Stamp
    <3> QED
      BY <1>1, <3>1, <3>2, Intervals, Names
  <2> QED
    BY <2>1, <2>2
<1>6. Renewed(t, p, m, now)
  <2>1. CASE InProgress(t)
    BY <2>1, HandshakeKinds DEF Renewed, InProgress
  <2>2. CASE ~InProgress(t)
    BY <2>2, RenewedUnlessDue
  <2> QED
    BY <2>1, <2>2
<1> QED
  BY <1>3, <1>4, <1>5, <1>6 DEF Served

\* update_timers up to its first check for the handshake.
LEMMA CheckedFacts ==
    ASSUME IInv
    PROVE  /\ Checked \in Tunnel /\ Cleaned(tunn, Checked, clock)
           /\ Sound(Checked, clock, clock)
           /\ ~past.idle => Tracked(Checked, past, LastMade, clock)
           /\ endpoint => Dated(Checked, endpoint, past, clock)
           /\ Checked.state = tunn.state /\ (InProgress(Checked) <=> InProgress(tunn))
<1>1. tunn \in Tunnel /\ past \in Past /\ Sound(tunn, clock, Since)
  BY DEF IInv, TypeOK
<1>2. clock \in Nat /\ Since \in Nat /\ Since <= clock
  BY SinceFacts
<1>3. Cleaned(tunn, Checked, clock)
  <2>1. Cleaned(tunn, SessionsAged(tunn, clock), clock)
    BY <1>1, <1>2, AgedCleans
  <2> QED
    BY <2>1, CookieCleans DEF Checked
<1>4. Sound(Checked, clock, clock)
  BY <1>1, <1>2, <1>3, CleanedSound
<1>5. ~past.idle => Tracked(Checked, past, LastMade, clock)
  BY <1>1, <1>2, <1>3, CleanedTracked DEF IInv, InTime
<1>6. Checked.state = tunn.state /\ Checked \in Tunnel
  BY <1>3 DEF Cleaned
<1>7. endpoint => Dated(Checked, endpoint, past, clock)
  <2>1. Begun(tunn, past)
    BY DEF IInv, Dated
  <2>2. Begun(Checked, past)
    BY <1>3, <2>1, Names DEF Begun, Cleaned, InProgress
  <2>3. Current(Checked) = clock
    BY <1>3 DEF Cleaned, Current
  <2> QED
    BY <1>2, <2>2, <2>3 DEF Dated, Woken
<1> QED
  BY <1>3, <1>4, <1>5, <1>6, <1>7 DEF InProgress

\* What is sound for a call is sound for an earlier one.
LEMMA SoundSince ==
    ASSUME NEW t \in Tunnel, NEW now \in Nat, NEW c \in Nat, c <= now, Sound(t, now, now)
    PROVE  Sound(t, now, c)
<1>1. /\ Stamp(t, "TimeCurrent") \in Nat
      /\ \A s \in t.sessions : t.session_timers[s] \in Nat
  BY TunnelParts, Names
<1>2. Stamped(t, now, c)
  BY <1>1 DEF Sound, Stamped
<1>3. Aged(t, c)
  BY <1>1, Intervals DEF Sound, Aged
<1> QED
  BY <1>2, <1>3 DEF Sound

\* What a call of the timer leaves to show.
LEMMA AfterCall ==
    ASSUME IInv, TimerFires, tunn' \in Tunnel, past' \in Past, past'.idle = past.idle,
           Sound(tunn', clock, clock), Dated(tunn', endpoint, past', clock),
           ~past.idle => /\ Tried(tunn', clock, clock)
                         /\ Tracked(tunn', past', LastMade', clock)
                         /\ Served(tunn', past', LastMade', clock)
    PROVE  IInv'
<1>1. called' = clock /\ UNCHANGED <<clock, endpoint, events>>
  BY DEF TimerFires
<1>2. clock \in Nat /\ clock <= clock + MaxLate
  BY SinceFacts, Intervals
<1>3. TypeOK' /\ Punctual'
  BY <1>1, <1>2 DEF IInv, TypeOK, Punctual
<1>4. Sound(tunn', clock', Since')
  <2>1. Sound(tunn', clock, 0)
    BY <1>2, SoundSince
  <2>2. Since' = 0 \/ Since' = clock
    BY <1>1 DEF Since
  <2> QED
    BY <1>1, <2>1, <2>2
<1>5. ~past'.idle => InTime'
  BY <1>1 DEF InTime
<1>6. Dated(tunn', endpoint', past', called')
  BY <1>1
<1> QED
  BY <1>3, <1>4, <1>5, <1>6 DEF IInv

\* Only a peer that had no address at first is passed over.
LEMMA PassedOverInv ==
    ASSUME IInv, PassedOver
    PROVE  IInv'
<1>1. /\ called' = clock /\ ~endpoint /\ UNCHANGED <<clock, endpoint, events, tunn, past>>
  BY DEF PassedOver, TimerFires
<1>2. past.idle /\ past.idle \in BOOLEAN
  BY <1>1, PastParts DEF IInv, Punctual, TypeOK
<1>3. clock \in Nat /\ clock <= clock + MaxLate
  BY SinceFacts, Intervals
<1>4. TypeOK' /\ Punctual'
  BY <1>1, <1>2, <1>3 DEF IInv, TypeOK, Punctual
<1>5. Since' = Since
  BY <1>1, <1>2 DEF Since
<1>6. Dated(tunn, endpoint, past, clock)
  BY <1>1 DEF IInv, Dated, Woken
<1> QED
  BY <1>1, <1>2, <1>4, <1>5, <1>6 DEF IInv

\* A call that ends with the tunnel expired.
LEMMA ExpiredCall ==
    ASSUME IInv, TimerFires, endpoint, NEW u \in Tunnel, Becomes(u, FALSE, FALSE),
           u.state = Expired, u.sessions = {}, Sound(u, clock, clock),
           ~past.idle => /\ past.heard <= Stamp(u, "TimeLastDataPacketReceived") + MaxLate
                         /\ past.used <= Stamp(u, "TimeLastDataPacketSent") + MaxLate
    PROVE  IInv'
<1>1. /\ tunn' = u /\ past' \in Past
      /\ past'.made = past.made /\ past'.heard = past.heard /\ past'.idle = past.idle
      /\ past'.sent = past.sent /\ past'.used = past.used
      /\ LastMade' = LastMade
  BY BecomesFacts DEF IInv
<1>2. ~InProgress(u) /\ u.state # None
  BY HandshakeKinds DEF InProgress
<1>3. ASSUME ~past.idle
      PROVE  /\ Tried(u, clock, clock) /\ Tracked(u, past', LastMade, clock)
             /\ Served(u, past', LastMade, clock)
  <2>1. Tracked(tunn, past, LastMade, clock)
    BY <1>3 DEF IInv, InTime
  <2>2. Tried(u, clock, clock)
    BY <1>2 DEF Tried
  <2>3. Tracked(u, past', LastMade, clock)
    BY <1>1, <1>2, <1>3, <2>1 DEF Tracked
  <2>4. Served(u, past', LastMade, clock)
    BY <1>2 DEF Served, Heeded, KeptOpen, Renewed
  <2> QED
    BY <2>2, <2>3, <2>4
<1>4. Dated(u, endpoint, past', clock)
  BY <1>2 DEF Dated, Woken, Begun, Sound, Stamped, Current
<1> QED
  BY <1>1, <1>3, <1>4, AfterCall

\* A tunnel that has expired stays so.
LEMMA AlreadyExpiredInv ==
    ASSUME IInv, AlreadyExpired
    PROVE  IInv'
<1> DEFINE u == SessionsAged(tunn, clock)
<1>1. TimerFires /\ endpoint /\ tunn.state = Expired /\ Becomes(u, FALSE, FALSE)
  BY DEF AlreadyExpired
<1>2. tunn \in Tunnel /\ Sound(tunn, clock, Since)
  BY DEF IInv, TypeOK
<1>3. clock \in Nat /\ Since \in Nat /\ Since <= clock
  BY SinceFacts
<1>4. Cleaned(tunn, u, clock)
  BY <1>2, <1>3, AgedCleans
<1> HIDE DEF u
<1>5. Sound(u, clock, clock)
  BY <1>2, <1>3, <1>4, CleanedSound
<1>6. u \in Tunnel /\ u.state = Expired
  BY <1>1, <1>4 DEF Cleaned
<1>7. u.sessions = {}
  BY <1>5, <1>6 DEF Sound, Emptied
<1>8. /\ Stamp(u, "TimeLastDataPacketReceived") = Stamp(tunn, "TimeLastDataPacketReceived")
      /\ Stamp(u, "TimeLastDataPacketSent") = Stamp(tunn, "TimeLastDataPacketSent")
  BY <1>4, Names DEF Cleaned
<1>9. ~past.idle => /\ past.heard <= Stamp(u, "TimeLastDataPacketReceived") + MaxLate
                    /\ past.used <= Stamp(u, "TimeLastDataPacketSent") + MaxLate
  BY <1>8 DEF IInv, InTime, Tracked
<1> QED
  BY <1>1, <1>5, <1>6, <1>7, <1>9, ExpiredCall

\* No keys for too long, or no answer.
LEMMA GivenUpInv ==
    ASSUME IInv, ConnectionExpired \/ GiveUp
    PROVE  IInv'
<1> DEFINE u == GivenUp(Checked, clock)
<1>1. clock \in Nat /\ Checked \in Tunnel /\ Sound(Checked, clock, clock)
  BY CheckedFacts, SinceFacts
<1>2. /\ u \in Tunnel /\ u.state = Expired /\ u.sessions = {}
      /\ \A n \in TimerNames : Stamp(u, n) = clock
      /\ Sound(u, clock, clock)
  BY <1>1, GivenUpFacts
<1>3. TimerFires /\ endpoint /\ Becomes(u, FALSE, FALSE)
  BY Zenon DEF ConnectionExpired, GiveUp, Runs
<1> HIDE DEF u
<1>4. past.heard \in Nat /\ past.used \in Nat
  BY PastParts DEF IInv, TypeOK
<1>5. ~past.idle => past.heard <= clock /\ past.used <= clock
  BY DEF IInv, InTime, Tracked
<1>6. ~past.idle => /\ past.heard <= Stamp(u, "TimeLastDataPacketReceived") + MaxLate
                    /\ past.used <= Stamp(u, "TimeLastDataPacketSent") + MaxLate
  BY <1>1, <1>2, <1>4, <1>5, Names, Intervals
<1> QED
  BY <1>2, <1>3, <1>6, ExpiredCall

\* A call that sends something.
LEMMA CallSends ==
    ASSUME IInv, TimerFires, endpoint, NEW u, Becomes(u, TRUE, FALSE),
           Sends(Checked, u, clock), Sound(u, clock, clock),
           ~AttemptFailed(Checked, clock),
           InProgress(u) => u.state.time_sent = clock,
           ~past.idle => Renewed(u, past, LastMade, clock)
    PROVE  IInv'
<1>1. /\ tunn' = u /\ past' \in Past
      /\ past'.made = past.made /\ past'.heard = past.heard /\ past'.idle = past.idle
      /\ past'.sent = clock /\ past'.used = past.used
      /\ past'.trying = IF InProgress(u) /\ ~InProgress(tunn) THEN clock ELSE past.trying
      /\ LastMade' = LastMade
  BY BecomesFacts DEF IInv
<1>2. /\ Checked \in Tunnel /\ Sound(Checked, clock, clock)
      /\ InProgress(Checked) <=> InProgress(tunn)
      /\ ~past.idle => Tracked(Checked, past, LastMade, clock)
      /\ Dated(Checked, endpoint, past, clock)
  BY CheckedFacts
<1>3. clock \in Nat /\ clock <= clock + MaxLate /\ past \in Past /\ LastMade \in Nat /\ u \in Tunnel
  BY SinceFacts, Intervals DEF IInv, TypeOK, Sends
<1>4. Records(Checked, u, past, past', clock)
  BY <1>1, <1>2 DEF Records
<1>5. ASSUME ~past.idle
      PROVE  /\ Tried(u, clock, clock) /\ Tracked(u, past', LastMade, clock)
             /\ Served(u, past', LastMade, clock)
  <2>1. Tracked(Checked, past, LastMade, clock)
    BY <1>2, <1>5
  <2>2. Tried(u, clock, clock)
    <3> SUFFICES ASSUME InProgress(u)
                 PROVE  clock < Stamp(u, "TimeLastHandshakeStarted") + REKEY_ATTEMPT_TIME
      BY <1>3, Intervals DEF Tried
    <3>1. /\ Stamp(Checked, "TimeLastHandshakeStarted") \in Nat
          /\ Stamp(u, "TimeLastHandshakeStarted") \in Nat /\ Stamp(u, "TimeCurrent") \in Nat
      BY <1>2, <1>3, TunnelParts, Names
    <3>2. CASE InProgress(Checked)
      <4>1. ~(clock - Stamp(Checked, "TimeLastHandshakeStarted") >= REKEY_ATTEMPT_TIME)
        BY <3>2 DEF AttemptFailed, Stamp
      <4>2. Stamp(u, "TimeLastHandshakeStarted") = Stamp(Checked, "TimeLastHandshakeStarted")
        BY <3>2 DEF Sends
      <4> QED
        BY <1>3, <3>1, <4>1, <4>2, Intervals
    <3>3. CASE ~InProgress(Checked)
      <4>1. Stamp(u, "TimeLastHandshakeStarted") = Stamp(u, "TimeCurrent")
        BY <3>3 DEF Sends
      <4>2. clock <= Stamp(u, "TimeCurrent")
        BY DEF Sound, Stamped
      <4> QED
        BY <1>3, <3>1, <4>1, <4>2, Intervals
    <3> QED
      BY <3>2, <3>3
  <2>3. Tracked(u, past', LastMade, clock)
    BY <1>1, <1>2, <1>3, <1>4, <2>1, SendsTracked
  <2>4. past'.heard <= clock
    BY <1>1, <2>1 DEF Tracked
  <2>5. Heeded(u, past', clock) /\ KeptOpen(u, past', clock)
    BY <1>1, <1>3, <2>4, JustSent
  <2>6. Renewed(u, past', LastMade, clock)
    BY <1>1, <1>5 DEF Renewed
  <2> QED
    BY <2>2, <2>3, <2>5, <2>6 DEF Served
<1>6. Dated(u, endpoint, past', clock)
  <2>1. past'.trying = IF InProgress(u) /\ ~InProgress(Checked) THEN clock ELSE past.trying
    BY <1>1, <1>2
  <2>2. clock <= clock
    BY <1>3
  <2> QED
    BY <1>1, <1>2, <1>3, <2>1, <2>2, SendsDated
<1> QED
  BY <1>1, <1>3, <1>5, <1>6, AfterCall

\* An initiation, the first or another.
LEMMA InitiationInv ==
    ASSUME IInv, Retry \/ Renew
    PROVE  IInv'
<1> DEFINE u == StartHandshake(Checked, clock)
<1>1. /\ clock \in Nat /\ Checked \in Tunnel /\ Sound(Checked, clock, clock)
      /\ InProgress(Checked) <=> InProgress(tunn)
  BY CheckedFacts, SinceFacts
<1>2. /\ Sends(Checked, u, clock) /\ Sound(u, clock, clock)
      /\ InProgress(u) /\ u.state.time_sent = clock
  BY <1>1, StartSends
<1>3. TimerFires /\ endpoint /\ Becomes(u, TRUE, FALSE) /\ ~AttemptFailed(Checked, clock)
  BY <1>1 DEF Retry, Renew, Runs, AttemptFailed
<1> HIDE DEF u
<1>4. Renewed(u, past, LastMade, clock)
  BY <1>2, HandshakeKinds DEF Renewed, InProgress
<1> QED
  BY <1>2, <1>3, <1>4, CallSends

\* A keepalive, or the initiation it needs.
LEMMA SendKeepaliveInv ==
    ASSUME IInv, SendKeepalive
    PROVE  IInv'
<1> DEFINE name == "TimePersistentKeepalive"
           e == IF PersistentDue(Checked, clock) THEN Tick(Checked, name) ELSE Checked
           u == Encapsulated(e, "empty", clock)
<1>1. /\ TimerFires /\ endpoint /\ ~InProgress(tunn) /\ ~RenewOnSend(Checked, clock)
      /\ Becomes(u, TRUE, FALSE)
  BY DEF SendKeepalive, Runs, NeedsHandshake, KeptAlive
<1>2. /\ clock \in Nat /\ clock <= clock /\ past \in Past /\ LastMade \in Nat
      /\ Checked \in Tunnel /\ Sound(Checked, clock, clock)
      /\ InProgress(Checked) <=> InProgress(tunn)
      /\ ~past.idle => Tracked(Checked, past, LastMade, clock)
  BY CheckedFacts, SinceFacts DEF IInv, TypeOK
<1>3. name \in TimerNames \ {"TimeLastHandshakeStarted", "TimeSessionEstablished",
                            "TimeLastDataPacketReceived"}
  BY Names
<1> HIDE DEF name
<1>4. /\ e \in Tunnel /\ Sends(Checked, e, clock) /\ Sound(e, clock, clock)
      /\ SameKeys(Checked, e)
  <2>1. Sends(Checked, Checked, clock) /\ SameKeys(Checked, Checked)
    BY <1>2, SendsNothing DEF SameKeys, SameStamps
  <2>2. /\ Sends(Checked, Tick(Checked, name), clock) /\ Sound(Tick(Checked, name), clock, clock)
        /\ Tick(Checked, name) \in Tunnel /\ SameKeys(Checked, Tick(Checked, name))
    BY <1>2, <1>3, <2>1, SendsTick, TickSound, TickFacts
  <2> QED
    BY <1>2, <2>1, <2>2
<1> HIDE DEF e
<1>5. "empty" \in Kinds
  BY DEF Kinds
<1>6. Sends(e, u, clock) /\ Sound(u, clock, clock)
  BY <1>2, <1>4, <1>5, EncapsulatedSends
<1> HIDE DEF u
<1>7. ~InProgress(e) /\ ~InProgress(Checked)
  BY <1>1, <1>2, <1>4 DEF SameKeys, InProgress
<1>8. Sends(Checked, u, clock)
  <2>1. \A n \in TimerNames : /\ Stamp(Checked, n) \in Nat /\ Stamp(e, n) \in Nat
                              /\ Stamp(u, n) \in Nat
                              /\ Stamp(Checked, n) <= Stamp(e, n) /\ Stamp(e, n) <= Stamp(u, n)
    BY <1>2, <1>4, <1>6, TunnelParts DEF Sends
  <2>2. \A n \in TimerNames : Stamp(Checked, n) <= Stamp(u, n)
    BY <2>1
  <2>3. Checked.state # Expired => Stamp(u, "TimeSessionEstablished")
                                     = Stamp(Checked, "TimeSessionEstablished")
    BY <1>4, <1>6 DEF Sends, SameKeys
  <2>4. InProgress(u) => Stamp(u, "TimeLastHandshakeStarted") = Stamp(u, "TimeCurrent")
    BY <1>6, <1>7 DEF Sends
  <2>5. Current(u) = Current(Checked) \/ (Checked.state = Expired /\ Current(u) = clock)
    BY <1>4, <1>6 DEF Sends, SameKeys
  <2> QED
    BY <1>4, <1>6, <1>7, <2>2, <2>3, <2>4, <2>5 DEF Sends, SameKeys
<1>9. InProgress(u) => u.state.time_sent = clock
  <2>1. InProgress(u) => u.state # e.state
    BY <1>7 DEF InProgress
  <2> QED
    BY <1>6, <2>1 DEF Sends
<1>10. ~past.idle => Renewed(u, past, LastMade, clock)
  <2>1. ~past.idle => Renewed(Checked, past, LastMade, clock)
    BY <1>1, <1>2, RenewedUnlessDue
  <2>2. u.is_initiator = Checked.is_initiator
    BY <1>8 DEF Sends
  <2>3. u.state = None => Checked.state = None
    <3>1. u.state = None => ~InProgress(u)
      BY HandshakeKinds DEF InProgress
    <3> QED
      BY <1>8, <3>1 DEF Sends
  <2> QED
    BY <2>1, <2>2, <2>3 DEF Renewed
<1>11. ~AttemptFailed(Checked, clock)
  BY <1>7 DEF AttemptFailed
<1> QED
  BY <1>1, <1>6, <1>8, <1>9, <1>10, <1>11, CallSends

\* A call that finds nothing to do.
LEMMA QuietInv ==
    ASSUME IInv, Quiet
    PROVE  IInv'
<1>1. endpoint
  BY Zenon DEF Quiet, Runs
<1>2. /\ TimerFires /\ Becomes(Checked, FALSE, FALSE)
      /\ ~AttemptFailed(Checked, clock) /\ ~RetryDue(Checked, clock)
      /\ \/ InProgress(tunn)
         \/ /\ ~RenewOnSend(Checked, clock) /\ ~KeepaliveDue(Checked, clock)
            /\ ~PersistentDue(Checked, clock)
  BY DEF Quiet, Runs, NeedsHandshake, NeedsKeepalive
<1>3. /\ clock \in Nat /\ clock <= clock + MaxLate /\ past \in Past /\ LastMade \in Nat
      /\ Checked \in Tunnel /\ Sound(Checked, clock, clock)
      /\ InProgress(Checked) <=> InProgress(tunn)
      /\ ~past.idle => Tracked(Checked, past, LastMade, clock)
  BY CheckedFacts, SinceFacts, Intervals DEF IInv, TypeOK
<1>4. /\ tunn' = Checked /\ past' \in Past
      /\ past'.made = past.made /\ past'.heard = past.heard /\ past'.idle = past.idle
      /\ past'.sent = past.sent /\ past'.used = past.used /\ past'.trying = past.trying
      /\ LastMade' = LastMade
  BY <1>2, <1>3, BecomesFacts DEF IInv
<1>5. ASSUME ~past.idle
      PROVE  /\ Tried(Checked, clock, clock) /\ Tracked(Checked, past', LastMade, clock)
             /\ Served(Checked, past', LastMade, clock)
  <2>1. Tried(Checked, clock, clock) /\ Served(Checked, past, LastMade, clock)
    BY <1>2, <1>3, <1>5, QuietServed
  <2>2. Tracked(Checked, past', LastMade, clock)
    BY <1>3, <1>4, <1>5 DEF Tracked
  <2>3. Served(Checked, past', LastMade, clock)
    BY <1>4, <2>1 DEF Served, Heeded, KeptOpen, Renewed
  <2> QED
    BY <2>1, <2>2, <2>3
<1>6. Dated(Checked, endpoint, past', clock)
  <2>1. Dated(Checked, endpoint, past, clock)
    BY <1>1, CheckedFacts, Zenon
  <2> QED
    BY <1>4, <2>1 DEF Dated, Woken, Begun, Recorded
<1> QED
  BY <1>2, <1>3, <1>4, <1>5, <1>6, AfterCall

-----------------------------------------------------------------------------
(* The invariant holds.                                                    *)

LEMMA InitInv ==
    ASSUME Init
    PROVE  IInv
<1> DEFINE timers == [n \in TimerNames |-> 0]
           ends == [s \in Slots |-> 0]
<1>1. /\ clock = 0 /\ called = 0 /\ events = 0 /\ endpoint \in BOOLEAN
      /\ tunn = [timers |-> timers, session_timers |-> ends,
                 want_keepalive |-> FALSE, want_handshake |-> FALSE, is_initiator |-> FALSE,
                 state |-> None, previous |-> None, next_index |-> 0, sessions |-> {},
                 current |-> 0, packet_queue |-> {}, cookie |-> FALSE,
                 last_mac1 |-> FALSE]
      /\ past = [made |-> ends, trying |-> 0, sent |-> 0, used |-> 0,
                 heard |-> 0, idle |-> ~endpoint]
  BY TimersAssumption DEF Init, NewTunn
<1>2. /\ timers \in [TimerNames -> Nat] /\ \A n \in TimerNames : timers[n] = 0
      /\ ends \in [Slots -> Nat] /\ ends \in [Slots -> Time] /\ \A s \in Slots : ends[s] = 0
  BY Intervals
<1> HIDE DEF timers, ends
<1>3. /\ tunn \in Tunnel /\ tunn.state = None /\ tunn.sessions = {}
      /\ tunn.session_timers = ends /\ tunn.timers = timers
  BY <1>1, <1>2, Intervals, HandshakeKinds DEF Tunnel
<1>4. \A n \in TimerNames : Stamp(tunn, n) = 0
  BY <1>2, <1>3 DEF Stamp
<1>5. /\ past \in Past /\ past.idle = ~endpoint
      /\ past.made = ends /\ past.sent = 0 /\ past.heard = 0 /\ past.used = 0
  BY <1>1, <1>2, Intervals DEF Past
<1>6. TypeOK /\ Punctual
  <2>1. ~past.idle => endpoint
    BY <1>1, <1>5, Zenon
  <2>2. called <= clock /\ clock <= called + MaxLate /\ 0 \in Nat /\ 0 \in Time
    BY <1>1, Intervals
  <2> QED
    BY <1>1, <1>3, <1>5, <2>1, <2>2 DEF TypeOK, Punctual
<1>7. ~InProgress(tunn) /\ tunn.state # Expired
  BY <1>3, HandshakeKinds DEF InProgress
<1>8. Sound(tunn, 0, 0)
  BY <1>2, <1>3, <1>4, <1>7, Names DEF Sound, Stamped, Asked, Emptied, Aged
<1>9. LastMade \in Nat
  BY <1>5, PastParts, LatestOne, LastMadeLatest, Intervals
<1>10. Tried(tunn, 0, 0) /\ Tracked(tunn, past, LastMade, 0) /\ Served(tunn, past, LastMade, 0)
  <2>1. Tried(tunn, 0, 0)
    BY <1>7 DEF Tried
  <2>2. Tracked(tunn, past, LastMade, 0)
    BY <1>2, <1>3, <1>4, <1>5, <1>7, <1>9, Names, Intervals DEF Tracked
  <2>3. Served(tunn, past, LastMade, 0)
    BY <1>5, <1>9, Intervals DEF Served, Heeded, KeptOpen, Renewed
  <2> QED
    BY <2>1, <2>2, <2>3
<1>11. Dated(tunn, endpoint, past, 0)
  BY <1>3, <1>4, <1>6, <1>7, Names DEF Dated, Woken, Begun, Current, Punctual
<1> QED
  BY <1>1, <1>6, <1>8, <1>10, <1>11 DEF IInv, InTime, Since

LEMMA TimerInv ==
    ASSUME IInv, Timer
    PROVE  IInv'
BY PassedOverInv, AlreadyExpiredInv, GivenUpInv, InitiationInv, SendKeepaliveInv, QuietInv
   DEF Timer

LEMMA NextInv ==
    ASSUME IInv, [Next]_vars
    PROVE  IInv'
<1>1. CASE Next
  BY <1>1, PassInv, EncapsulateInv, HandshakeInv, ReceiveDataInv, ReceiveCookieInv, TimerInv
  DEF Next
<1>2. CASE UNCHANGED vars
  <2>1. UNCHANGED <<clock, called, endpoint, tunn, past, events>>
    BY <1>2 DEF vars
  <2>2. LastMade' = LastMade
    BY <2>1, LastMadeLatest
  <2>3. (TypeOK <=> TypeOK') /\ (Punctual <=> Punctual') /\ Since' = Since
    BY <2>1 DEF TypeOK, Punctual, Since
  <2>4. InTime <=> InTime'
    BY <2>1, <2>2 DEF InTime
  <2>5. Sound(tunn', clock', Since') <=> Sound(tunn, clock, Since)
    BY <2>1, <2>3
  <2>6. Dated(tunn', endpoint', past', called') <=> Dated(tunn, endpoint, past, called)
    BY <2>1
  <2> QED
    BY <2>1, <2>3, <2>4, <2>5, <2>6 DEF IInv
<1> QED
  BY <1>1, <1>2

LEMMA Invariance == Spec => []IInv
BY InitInv, NextInv, PTL DEF Spec

-----------------------------------------------------------------------------
(* What follows from it.                                                   *)

\* The numbers that the properties compare.
LEMMA Numbers ==
    ASSUME IInv
    PROVE  /\ clock \in Nat /\ called \in Nat /\ LastMade \in Nat
           /\ clock <= called + MaxLate
           /\ past.sent \in Nat /\ past.heard \in Nat /\ past.used \in Nat /\ past.trying \in Nat
           /\ \A n \in TimerNames : Stamp(tunn, n) \in Nat
           /\ tunn.sessions \in SUBSET Slots
           /\ \A s \in Slots : past.made[s] \in Nat /\ tunn.session_timers[s] \in Nat
           /\ InProgress(tunn) => tunn.state.time_sent \in Nat
<1>1. tunn \in Tunnel /\ past \in Past /\ clock <= called + MaxLate
  BY DEF IInv, TypeOK, Punctual
<1> QED
  BY <1>1, SinceFacts, TunnelParts, PastParts, HandshakeKinds DEF InProgress

\* A tunnel has a state, a stamp of every kind and sessions in slots of its ring,
\* and the clock stays within its bound.
THEOREM TypeCorrect == Spec => []TypeOK
<1>1. IInv => TypeOK
  BY DEF IInv
<1> QED
  BY <1>1, Invariance, PTL

\* update_session_timers: no session is used longer than REJECT_AFTER_TIME and the
\* time between two calls of update_timers.
THEOREM SessionsEnd == Spec => []SessionsEndInTime
<1>1. ASSUME IInv
      PROVE  SessionsEndInTime
  <2> SUFFICES ASSUME NEW s \in tunn.sessions, ~past.idle
               PROVE  clock - past.made[s] <= REJECT_AFTER_TIME + MaxLate
    BY DEF SessionsEndInTime
  <2>1. called <= tunn.session_timers[s] + REJECT_AFTER_TIME
    BY <1>1 DEF IInv, Sound, Aged, Since
  <2>2. tunn.session_timers[s] <= past.made[s]
    BY <1>1 DEF IInv, InTime, Tracked
  <2>3. past.made[s] \in Nat /\ tunn.session_timers[s] \in Nat
    BY <1>1, Numbers
  <2> QED
    BY <1>1, <2>1, <2>2, <2>3, Numbers, Intervals
<1> QED
  BY <1>1, Invariance, PTL

\* ConnectionExpired and the retry of update_timers: an attempt ends within
\* REKEY_ATTEMPT_TIME of its first initiation, and none is older than REKEY_TIMEOUT,
\* but for the time between two calls.
THEOREM HandshakesEnd == Spec => []HandshakesInTime
<1>1. ASSUME IInv
      PROVE  HandshakesInTime
  <2> SUFFICES ASSUME ~past.idle, InProgress(tunn)
               PROVE  /\ clock - past.trying <= REKEY_ATTEMPT_TIME + MaxLate
                      /\ clock - tunn.state.time_sent <= REKEY_TIMEOUT + MaxLate
    BY DEF HandshakesInTime, GivesUpInTime, RetriesInTime
  <2>1. /\ called < Stamp(tunn, "TimeLastHandshakeStarted") + REKEY_ATTEMPT_TIME
        /\ called < tunn.state.time_sent + REKEY_TIMEOUT
    BY <1>1 DEF IInv, InTime, Tried
  <2>2. Stamp(tunn, "TimeLastHandshakeStarted") <= past.trying
    BY <1>1 DEF IInv, InTime, Tracked
  <2>3. Stamp(tunn, "TimeLastHandshakeStarted") \in Nat /\ tunn.state.time_sent \in Nat
    BY <1>1, Numbers, Names
  <2> QED
    BY <1>1, <2>1, <2>2, <2>3, Numbers, Intervals
<1> QED
  BY <1>1, Invariance, PTL

\* The passive keepalive of update_timers: data that came noticeably after the last
\* message sent is answered within KEEPALIVE_TIMEOUT, or its session is gone.
THEOREM Answers == Spec => []AnswersInTime
<1>1. ASSUME IInv
      PROVE  AnswersInTime
  <2> SUFFICES ASSUME ~past.idle, HasSession(tunn), past.heard > past.sent + MaxLate
               PROVE  clock - past.heard <= KEEPALIVE_TIMEOUT + MaxLate
    BY DEF AnswersInTime
  <2>1. tunn.sessions # {}
    BY DEF HasSession
  <2>2. called <= past.heard + KEEPALIVE_TIMEOUT
    BY <1>1, <2>1 DEF IInv, InTime, Served, Heeded
  <2> QED
    BY <1>1, <2>2, Numbers, Intervals
<1> QED
  BY <1>1, Invariance, PTL

\* The persistent keepalive of update_timers: as long as the tunnel has not expired
\* something is sent in every interval, with a session or without.
THEOREM PathKept == Spec => []KeepsPathOpen
<1>1. ASSUME IInv
      PROVE  KeepsPathOpen
  <2> SUFFICES ASSUME ~past.idle, PERSISTENT_KEEPALIVE > REKEY_TIMEOUT, tunn.state # Expired
               PROVE  clock - past.sent <= PERSISTENT_KEEPALIVE + MaxLate
    BY DEF KeepsPathOpen
  <2>1. called <= past.sent + PERSISTENT_KEEPALIVE
    BY <1>1 DEF IInv, InTime, Served, KeptOpen
  <2> QED
    BY <1>1, <2>1, Numbers, Intervals
<1> QED
  BY <1>1, Invariance, PTL

\* The rekey of update_timers after REKEY_AFTER_TIME: an initiator that has used its
\* session has the next handshake under way before the session ends.
THEOREM Renews == Spec => []RenewsInTime
<1>1. ASSUME IInv
      PROVE  RenewsInTime
  <2> SUFFICES ASSUME ~past.idle, tunn.is_initiator, tunn.state = None,
                      past.used > LastMade + MaxLate
               PROVE  \/ clock - LastMade <= REKEY_AFTER_TIME + MaxLate
                      \/ clock - past.used <= MaxLate
    BY DEF RenewsInTime
  <2>1. called <= LastMade + REKEY_AFTER_TIME \/ called <= past.used
    BY <1>1 DEF IInv, InTime, Served, Renewed
  <2> QED
    BY <1>1, <2>1, Numbers, Intervals
<1> QED
  BY <1>1, Invariance, PTL

\* What a call leaves of the sessions, when it does not give the tunnel up.
LEMMA CallKeepsSessions ==
    ASSUME IInv, Retry \/ Renew \/ SendKeepalive \/ Quiet
    PROVE  tunn'.sessions = Checked.sessions
<1> DEFINE name == "TimePersistentKeepalive"
           e == IF PersistentDue(Checked, clock) THEN Tick(Checked, name) ELSE Checked
<1>1. Checked \in Tunnel /\ Sound(Checked, clock, clock) /\ clock \in Nat /\ clock <= clock
  BY CheckedFacts, SinceFacts
<1>2. CASE Retry \/ Renew
  <2>1. tunn' = StartHandshake(Checked, clock)
    BY <1>2 DEF Retry, Renew, Becomes
  <2> QED
    BY <1>1, <2>1, StartSends DEF Sends
<1>3. CASE SendKeepalive
  <2>1. tunn' = Encapsulated(e, "empty", clock) /\ "empty" \in Kinds
    BY <1>3 DEF SendKeepalive, KeptAlive, Becomes, Kinds
  <2>2. name \in TimerNames /\ name # "TimeLastDataPacketReceived"
    BY Names
  <2> HIDE DEF name
  <2>3. e \in Tunnel /\ Sound(e, clock, clock) /\ e.sessions = Checked.sessions
    BY <1>1, <2>2, TickFacts, TickSound DEF SameKeys
  <2> HIDE DEF e
  <2>4. Sends(e, Encapsulated(e, "empty", clock), clock)
    BY <1>1, <2>1, <2>3, EncapsulatedSends
  <2> QED
    BY <2>1, <2>3, <2>4 DEF Sends
<1>4. CASE Quiet
  BY <1>4 DEF Quiet, Becomes
<1> QED
  BY <1>2, <1>3, <1>4

\* update_session_timers and clear_all: a call takes a session only when it is old or
\* when a handshake has failed for REKEY_ATTEMPT_TIME; or when the session or the
\* handshake began before the first call for a peer that had no address.
THEOREM SessionsLast == Spec => SessionsLastInTime
<1> DEFINE name == "TimeLastHandshakeStarted"
           Last == \A s \in tunn.sessions :
               Timer /\ s \notin tunn'.sessions =>
                   \/ clock - past.made[s] > REJECT_AFTER_TIME - MaxLate
                   \/ InProgress(tunn) /\ clock - past.trying >= REKEY_ATTEMPT_TIME - MaxLate
                   \/ past.idle /\ tunn.session_timers[s] = 0
                   \/ past.idle /\ InProgress(tunn) /\ tunn.timers[name] = 0
<1>1. ASSUME IInv, [Next]_vars
      PROVE  [Last]_vars
  <2> SUFFICES ASSUME NEW s \in tunn.sessions, Timer, s \notin tunn'.sessions,
                      ~(past.idle /\ tunn.session_timers[s] = 0),
                      ~(past.idle /\ InProgress(tunn) /\ tunn.timers[name] = 0)
               PROVE  \/ clock - past.made[s] > REJECT_AFTER_TIME - MaxLate
                      \/ InProgress(tunn) /\ clock - past.trying >= REKEY_ATTEMPT_TIME - MaxLate
    OBVIOUS
  <2>1. /\ past.made[s] \in Nat /\ tunn.session_timers[s] \in Nat /\ clock \in Nat
        /\ Stamp(tunn, "TimeSessionEstablished") \in Nat /\ Stamp(tunn, name) \in Nat
        /\ past.trying \in Nat
    BY <1>1, Numbers, Names
  <2>2. past.made[s] <= tunn.session_timers[s] + MaxLate
    BY <1>1 DEF IInv, Dated, Begun, Recorded
  <2>3. tunn.session_timers[s] <= Stamp(tunn, "TimeSessionEstablished")
    BY <1>1 DEF IInv, Sound, Aged
  <2>4. tunn.state # Expired
    BY <1>1 DEF IInv, Sound, Emptied
  <2>5. Cleaned(tunn, Checked, clock)
    BY <1>1, CheckedFacts
  <2>6. ~(clock <= tunn.session_timers[s] + REJECT_AFTER_TIME) \/ s \in Checked.sessions
    BY <2>5 DEF Cleaned
  <2>7. CASE PassedOver
    BY <2>7 DEF PassedOver
  <2>8. CASE AlreadyExpired
    BY <2>4, <2>8 DEF AlreadyExpired
  <2>9. CASE ConnectionExpired
    <3>1. clock - Stamp(Checked, "TimeSessionEstablished") >= REJECT_AFTER_TIME * 3
      BY <2>9 DEF ConnectionExpired, NoNewKeys, Stamp
    <3>2. Stamp(Checked, "TimeSessionEstablished") = Stamp(tunn, "TimeSessionEstablished")
      BY <2>5, Names DEF Cleaned
    <3> QED
      BY <2>1, <2>2, <2>3, <3>1, <3>2, Intervals
  <2>10. CASE GiveUp
    <3>1. InProgress(Checked) /\ clock - Stamp(Checked, name) >= REKEY_ATTEMPT_TIME
      BY <2>10 DEF GiveUp, AttemptFailed, Stamp
    <3>2. InProgress(tunn) /\ Stamp(Checked, name) = Stamp(tunn, name)
      BY <1>1, <2>5, <3>1, CheckedFacts, Names DEF Cleaned
    <3>3. past.trying <= Stamp(tunn, name) + MaxLate
      BY <1>1, <3>2 DEF IInv, Dated, Begun, Recorded, Stamp
    <3> QED
      BY <2>1, <3>1, <3>2, <3>3, Intervals
  <2>11. CASE Retry \/ Renew \/ SendKeepalive \/ Quiet
    <3>1. s \notin Checked.sessions
      BY <1>1, <2>11, CallKeepsSessions
    <3> QED
      BY <2>1, <2>2, <2>6, <3>1, Intervals
  <2> QED
    BY <2>7, <2>8, <2>9, <2>10, <2>11 DEF Timer
<1>2. SessionsLastInTime <=> [][Last]_vars
  BY DEF SessionsLastInTime
<1> QED
  BY <1>1, <1>2, Invariance, PTL DEF Spec
=============================================================================
